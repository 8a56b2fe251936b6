-------------------------------- MODULE Log ---------------------------------
(***************************************************************************)
(* The log of a program (common/apsi/log.cpp, the build with log4cplus):   *)
(* parse_args of the command line sets where the lines go and from which   *)
(* level on; the first line that is logged configures log4cplus; then the  *)
(* threads of the program log as they like.                                *)
(*                                                                         *)
(* Nothing here is locked.  Of log4cplus: a call of addAppender,           *)
(* removeAllAppenders or append is one step.                               *)
(***************************************************************************)
EXTENDS Integers, Sequences, FiniteSets

CONSTANTS
  Worker,        \* the threads that main starts
  Main,
  MaxLines       \* a bound on the lines of a thread

Thread == Worker \cup {Main}
Sink == {"console", "file"}

\* Log::Level; a line has one of the levels between the ends
Level == [all |-> 0, debug |-> 1, info |-> 2, warning |-> 3, error |-> 4, off |-> 5]
LineLevel == {Level.debug, Level.info, Level.warning, Level.error}

VARIABLES
  at,               \* where each thread is
  line,             \* the line that each thread logs: its number and level
  disable_console, log_file, configured,   \* log_properties
  log_level,        \* log_level_, and the level of the logger
  appenders,
  written           \* the lines of each sink

vars == <<at, line, disable_console, log_file, configured, log_level, appenders, written>>

Init ==
  /\ at = [t \in Thread |-> IF t = Main THEN "parsing" ELSE "unborn"]
  /\ line = [t \in Thread |-> [number |-> 0, level |-> Level.off]]
  /\ disable_console = FALSE /\ log_file = FALSE /\ configured = FALSE
  /\ log_level = Level.off
  /\ appenders = {}
  /\ written = [s \in Sink |-> <<>>]

Goes(t, place) == at' = [at EXCEPT ![t] = place]

(***************************************************************************)
(* parse_args: SetConsoleDisabled, SetLogFile, SetLogLevel.                *)
(***************************************************************************)
SetConsoleDisabled(silent) ==
  /\ at[Main] = "parsing"
  /\ disable_console' = silent
  /\ configured' = FALSE
  /\ Goes(Main, "file")
  /\ UNCHANGED <<line, log_file, log_level, appenders, written>>

SetLogFile(given) ==
  /\ at[Main] = "file"
  /\ log_file' = given
  /\ configured' = FALSE
  /\ Goes(Main, "level")
  /\ UNCHANGED <<line, disable_console, log_level, appenders, written>>

SetLogLevel(level) ==
  /\ at[Main] = "level"
  /\ log_level' = level
  /\ Goes(Main, "idle")
  /\ UNCHANGED <<line, disable_console, log_file, configured, appenders, written>>

(***************************************************************************)
(* Each program logs before it runs anything on another thread, at level   *)
(* info if it starts well.                                                 *)
(***************************************************************************)
HasLogged(t) == line[t].number > 0 /\ at[t] = "idle"

\* Mutant: the threads are started before anything is logged.
StartAtOnce ==
  /\ at[Main] = "idle"
  /\ \A w \in Worker : at[w] = "unborn"
  /\ at' = [t \in Thread |-> IF t = Main THEN at[t] ELSE "idle"]
  /\ UNCHANGED <<line, disable_console, log_file, configured, log_level, appenders, written>>

StartWorkers ==
  /\ HasLogged(Main)
  /\ \A w \in Worker : at[w] = "unborn"
  /\ at' = [t \in Thread |-> IF t = Main THEN at[t] ELSE "idle"]
  /\ UNCHANGED <<line, disable_console, log_file, configured, log_level, appenders, written>>

(***************************************************************************)
(* A line: ConfigureIfNeeded, the level, DoLog.                            *)
(***************************************************************************)
ConfigureIfNeeded(t, level) ==
  /\ at[t] = "idle"
  /\ line[t].number < MaxLines
  /\ line' = [line EXCEPT ![t] = [number |-> @.number + 1, level |-> level]]
  /\ Goes(t, IF configured THEN "logging" ELSE "configuring")
  /\ UNCHANGED <<disable_console, log_file, configured, log_level, appenders, written>>

Configure(t) ==
  /\ at[t] = "configuring"
  /\ IF configured THEN Goes(t, "thrown") /\ UNCHANGED appenders
     ELSE Goes(t, "console") /\ appenders' = {}
  /\ UNCHANGED <<line, disable_console, log_file, configured, log_level, written>>

AddConsole(t) ==
  /\ at[t] = "console"
  /\ appenders' = IF disable_console THEN appenders ELSE appenders \cup {<<"console", t>>}
  /\ Goes(t, "rolling_file")
  /\ UNCHANGED <<line, disable_console, log_file, configured, log_level, written>>

AddFile(t) ==
  /\ at[t] = "rolling_file"
  /\ appenders' = IF log_file THEN appenders \cup {<<"file", t>>} ELSE appenders
  /\ Goes(t, "configured")
  /\ UNCHANGED <<line, disable_console, log_file, configured, log_level, written>>

Configured(t) ==
  /\ at[t] = "configured"
  /\ configured' = TRUE
  /\ Goes(t, "logging")
  /\ UNCHANGED <<line, disable_console, log_file, log_level, appenders, written>>

TooLow(t) ==
  /\ at[t] = "logging"
  /\ log_level > line[t].level
  /\ Goes(t, "idle")
  /\ UNCHANGED <<line, disable_console, log_file, configured, log_level, appenders, written>>

DoLog(t) ==
  /\ at[t] = "logging"
  /\ log_level <= line[t].level
  /\ written' = [s \in Sink |->
       LET n == Cardinality({a \in appenders : a[1] = s})
       IN written[s] \o [i \in 1 .. n |-> [thread |-> t, number |-> line[t].number]]]
  /\ Goes(t, "idle")
  /\ UNCHANGED <<line, disable_console, log_file, configured, log_level, appenders>>

Next ==
  \/ \E b \in BOOLEAN : SetConsoleDisabled(b) \/ SetLogFile(b)
  \/ \E level \in {Level[name] : name \in DOMAIN Level} : SetLogLevel(level)
  \/ StartWorkers
  \/ \E t \in Thread :
       \/ \E level \in LineLevel : ConfigureIfNeeded(t, level)
       \/ Configure(t)
       \/ AddConsole(t)
       \/ AddFile(t)
       \/ Configured(t)
       \/ TooLow(t)
       \/ DoLog(t)

Spec == Init /\ [][Next]_vars

(***************************************************************************)
(* No call throws, although the configuration is neither locked nor safe   *)
(* to repeat; each line from the level on that was logged is in the        *)
(* console, unless it is silent, and in the file, if one was given, once,  *)
(* the lines of a thread in their order; nothing else is anywhere.         *)
(***************************************************************************)
Wanted(s) == IF s = "console" THEN ~disable_console ELSE log_file

Lines(s, t) == {i \in DOMAIN written[s] : written[s][i].thread = t}

LinesOnce ==
  /\ \A t \in Thread : at[t] # "thrown"
  /\ \A s \in Sink, t \in Thread :
       LET mine == Lines(s, t)
       IN /\ \A i, j \in mine : i < j => written[s][i].number < written[s][j].number
          /\ ~Wanted(s) => mine = {}
          /\ HasLogged(t) /\ Wanted(s) =>
               ((line[t].level >= log_level) <=>
                 \E i \in mine : written[s][i].number = line[t].number /\ \A j \in mine : j <= i)
=============================================================================
