------------------------------ MODULE Process -------------------------------
(***************************************************************************)
(* What surrounds a query in the two processes: the command lines and      *)
(* files they start with (Programs, CsvReader), their logs (Log), the use  *)
(* of their sockets (Channel) and of their keys (QueryKeys).  The modules  *)
(* share no state; theorems about them are in ProcessProofs.               *)
(***************************************************************************)
EXTENDS Integers, Sequences

CONSTANTS
  Sender, Receiver, DataFile, ParamsFile, Valid, NoItem, Absent, Directory,
  TornLine, MaxChanges, None,                          \* Programs
  File, StrayByte,                                     \* CsvReader
  Main, Worker, MaxLines, NoOne,                       \* Log, Channel
  KeyReceiver, MaxGenerations, Default                 \* QueryKeys

\* A program is a sender or a receiver; no file of parameters is the null pointer.
ASSUME ProgramsAssumption == Sender \cap Receiver = {} /\ None \notin Valid

\* A data file is lines, as many as it has; so is what is torn from two.
DataLine == TornLine \cup UNION {{content[i] : i \in DOMAIN content} : content \in DataFile}
ASSUME DataAssumption == DataFile \subseteq Seq(DataLine)

\* A file is lines of characters, and what is read astray is a byte.
ASSUME FilesAssumption == File \subseteq Seq(Seq(Nat)) /\ StrayByte \subseteq 0 .. 255

\* The calling thread is none of the pool.
ASSUME ThreadsAssumption == Main \notin Worker /\ NoOne \notin Worker \cup {Main}

VARIABLES
  files, had, changes, at, status, params, loaded, stream, mixed,         \* Programs
  lines, kind, result, orig_items, skipped, read_phase,                   \* CsvReader
  log_at, line, disable_console, log_file, configured, log_level,
  appenders, written,                                                     \* Log
  role, end_point, socket, context, send_mutex, receive_mutex, thread_at,
  failed,                                                                 \* Channel
  using_keyswitching, generation, stage, relin_keys, crypto_context, request,
  wire, query, db_context, run_context, package, decrypted                \* QueryKeys

program_vars == <<files, had, changes, at, status, params, loaded, stream, mixed>>
reader_vars == <<lines, kind, result, orig_items, skipped, read_phase>>
log_vars ==
  <<log_at, line, disable_console, log_file, configured, log_level, appenders, written>>
channel_vars ==
  <<role, end_point, socket, context, send_mutex, receive_mutex, thread_at, failed>>
keys_vars ==
  <<using_keyswitching, generation, stage, relin_keys, crypto_context, request, wire, query,
    db_context, run_context, package, decrypted>>

Cli == INSTANCE Programs WITH items <- loaded
Reader == INSTANCE CsvReader WITH phase <- read_phase
Logging == INSTANCE Log WITH at <- log_at
Sockets == INSTANCE Channel WITH at <- thread_at
Keys == INSTANCE QueryKeys WITH Receiver <- KeyReceiver, context <- crypto_context

\* What is served or asked is the whole content of a file, unless it changes
\* while it is open (Programs).
ServesWholeFile == Cli!ServesWholeFile

\* The items are those of the lines of the file (CsvReader).
ItemsStandForLines == Reader!ItemsStandForLines

\* Lines are logged once, where they should (Log).
LinesOnce == Logging!LinesOnce

\* One thread at a time uses a socket (Channel).
SocketOneUser == Sockets!SocketOneUser

\* Results are decrypted and relinearized with the keys of their query (QueryKeys).
KeysMatch == Keys!KeysMatch
=============================================================================
