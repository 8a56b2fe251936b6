------------------------------ MODULE Programs ------------------------------
(***************************************************************************)
(* The two programs (cli/sender/sender.cpp, cli/receiver/receiver.cpp),    *)
(* from their command lines to their exit codes: which files they read     *)
(* when, which failures end them with -1, which are exceptions that nobody *)
(* catches, and what is served and asked in the end.  Files are replaced,  *)
(* removed and written while programs start, also while they are read:     *)
(* each is checked, opened and read line by line.                          *)
(*                                                                         *)
(* A line of a data file has an item and perhaps a label, or neither       *)
(* (module CsvReader); requests and queries are the ones of Negotiation    *)
(* and QueryProtocol, here one step each.                                  *)
(***************************************************************************)
EXTENDS Integers, SequencesExt

CONSTANTS
  Sender, Receiver,
  DataFile,      \* contents of data files: sequences of [item, label]
  ParamsFile,    \* contents of parameter files
  Valid,         \* those that PSIParams::Load accepts
  NoItem,        \* the item of a line without one
  Absent,        \* there is no such file
  Directory,     \* the path is not that of a regular file
  TornLine,      \* lines put together from what a file was before and after
  MaxChanges,    \* a bound on changes of files
  None

Path == {"dbFile", "paramsFile", "queryFile"}

Content(path) == IF path = "paramsFile" THEN ParamsFile ELSE DataFile

VARIABLES
  files,         \* the content of each path
  had,           \* the contents that each path has had
  changes,
  at,            \* where each program is
  status,        \* its exit status, "aborted" or None
  params,        \* the parameters that it has loaded or received
  items,         \* the items in the sender's database or the receiver's query
  stream,        \* what the program's open file gives it: all lines, the number
                 \* read, and whether the file has changed since the last was read
  mixed          \* the paths that changed while the program had them open

vars == <<files, had, changes, at, status, params, items, stream, mixed>>

Program == Sender \cup Receiver

Closed == [lines |-> <<>>, read |-> 0, stale |-> FALSE]

Init ==
  /\ files \in [Path -> {Absent, Directory} \cup DataFile \cup ParamsFile]
  /\ \A path \in Path : files[path] \in {Absent, Directory} \cup Content(path)
  /\ had = [path \in Path |-> {files[path]}]
  /\ changes = 0
  /\ at = [p \in Program |-> "main"]
  /\ status = [p \in Program |-> None]
  /\ params = [p \in Program |-> None]
  /\ items = [p \in Program |-> None]
  /\ stream = [p \in Program |-> Closed]
  /\ mixed = [p \in Program |-> {}]

\* the data file that load_db reads, and the path that a program has open
DataPath(p) == IF p \in Sender THEN "dbFile" ELSE "queryFile"

HasOpen(p, path) ==
  \/ at[p] = "Load" /\ path = "paramsFile"
  \/ at[p] = "getline" /\ path = DataPath(p)

\* Somebody replaces, removes or writes a file.
Change(path, content) ==
  /\ changes < MaxChanges
  /\ files[path] # Directory
  /\ files' = [files EXCEPT ![path] = content]
  /\ had' = [had EXCEPT ![path] = @ \cup {content}]
  /\ changes' = changes + 1
  /\ stream' = [p \in Program |-> [stream[p] EXCEPT !.stale = @ \/ HasOpen(p, path)]]
  /\ mixed' = [p \in Program |-> mixed[p] \cup (IF HasOpen(p, path) THEN {path} ELSE {})]
  /\ UNCHANGED <<at, status, params, items>>

Goes(p, place) == at' = [at EXCEPT ![p] = place] /\ UNCHANGED status
Ends(p, code) == at' = [at EXCEPT ![p] = "ended"] /\ status' = [status EXCEPT ![p] = code]
KeepsFiles == UNCHANGED <<files, had, changes, mixed>>

(***************************************************************************)
(* parse_args: TCLAP ends the program for a faulty command line, and for   *)
(* --help and --version.                                                   *)
(***************************************************************************)
parse_args(p) ==
  /\ at[p] = "main"
  /\ \/ Goes(p, IF p \in Sender THEN "start_sender" ELSE "connect")
     \/ \E code \in {0, 1} : Ends(p, code)
  /\ UNCHANGED <<params, items, stream>> /\ KeepsFiles

(***************************************************************************)
(* Reading a file, as load_db and build_psi_params do: check that there is *)
(* a regular file (throw_if_file_invalid), open it, and read its lines.    *)
(* Every failure of these is caught and ends the program with -1.          *)
(***************************************************************************)
IsRegular(path) == files[path] \notin {Absent, Directory}

Checks(p, path, place) ==
  /\ IF IsRegular(path) THEN Goes(p, place) ELSE Ends(p, -1)
  /\ UNCHANGED <<params, items, stream>> /\ KeepsFiles

Opens(p, path, place) ==
  /\ IF IsRegular(path)
     THEN Goes(p, place) /\ stream' = [stream EXCEPT ![p] = [Closed EXCEPT !.lines = files[path]]]
     ELSE Ends(p, -1) /\ UNCHANGED stream
  /\ UNCHANGED <<params, items>> /\ KeepsFiles

load_db(p) == at[p] = "load_db" /\ Checks(p, DataPath(p), "open")

open(p) == at[p] = "open" /\ Opens(p, DataPath(p), "getline")

\* What the stream gives when its file has been written: the lines read and
\* buffered, perhaps a line of both contents, and lines of the new one; or
\* the lines as they were, when the file was replaced or removed.
Rewritten(s, content) ==
  {s.lines} \cup
  {SubSeq(s.lines, 1, i) \o torn \o SubSeq(content, j, Len(content)) :
     i \in s.read .. Len(s.lines), j \in 1 .. Len(content) + 1,
     torn \in {<<>>} \cup {<<line>> : line \in TornLine}}

Given(p) ==
  IF stream[p].stale /\ IsRegular(DataPath(p)) THEN Rewritten(stream[p], files[DataPath(p)])
  ELSE {stream[p].lines}

\* CSVReader::read(stream): without lines, or without an item in the first
\* line, there is nothing more to read.
getline(p) ==
  /\ at[p] = "getline"
  /\ \E lines \in Given(p) :
       LET more == stream[p].read < Len(lines)
           count == IF more THEN stream[p].read + 1 ELSE stream[p].read
           first == more /\ count = 1 /\ lines[1].item = NoItem
       IN /\ stream' = [stream EXCEPT ![p] = [lines |-> lines, read |-> count, stale |-> FALSE]]
          /\ IF more /\ ~first THEN UNCHANGED <<at, status>>
             ELSE Goes(p, IF p \in Sender THEN "create_sender_db" ELSE "LoadQuery")
  /\ UNCHANGED <<params, items>> /\ KeepsFiles

\* Mutant: a line without an item ends the data.
UpToGap(lines) ==
  IF lines = <<>> \/ lines[1].item = NoItem THEN [labeled |-> FALSE, items |-> {}]
  ELSE [labeled |-> lines[1].label,
        items |-> {lines[i].item : i \in {j \in DOMAIN lines : \A k \in 1 .. j : lines[k].item # NoItem}}]

\* the DBData of the lines: the first one says whether they have labels
read(lines) ==
  IF lines = <<>> \/ lines[1].item = NoItem THEN [labeled |-> FALSE, items |-> {}]
  ELSE [labeled |-> lines[1].label,
        items |-> {line.item : line \in ToSet(lines)} \ {NoItem}]

(***************************************************************************)
(* The sender: start_sender checks the data file, tries to open it as a    *)
(* saved database, which is never loaded, builds the parameters            *)
(* (build_psi_params), loads the data, makes the database and runs the     *)
(* dispatcher, whose bind throws when another sender has the port.         *)
(***************************************************************************)
throw_if_file_invalid(s) ==
  /\ at[s] = "start_sender"
  /\ IF IsRegular("dbFile") THEN Goes(s, "try_load_sender_db") ELSE Ends(s, "aborted")
  /\ UNCHANGED <<params, items, stream>> /\ KeepsFiles

try_load_sender_db(s) ==
  /\ at[s] = "try_load_sender_db"
  /\ IF files["dbFile"] = Absent THEN Ends(s, "aborted") ELSE Goes(s, "build_psi_params")
  /\ UNCHANGED <<params, items, stream>> /\ KeepsFiles

build_psi_params(s) ==
  \/ at[s] = "build_psi_params" /\ Checks(s, "paramsFile", "open_params")
  \/ at[s] = "open_params" /\ Opens(s, "paramsFile", "Load")

\* All lines are read and PSIParams::Load makes parameters of them: of
\* anything, when the file was written meanwhile.
Load(s) ==
  /\ at[s] = "Load"
  /\ \E text \in IF stream[s].stale THEN ParamsFile ELSE {stream[s].lines} :
       \/ text \in Valid /\ Goes(s, "load_db") /\ params' = [params EXCEPT ![s] = text]
       \/ text \notin Valid /\ Ends(s, -1) /\ UNCHANGED params
  /\ stream' = [stream EXCEPT ![s] = Closed]
  /\ UNCHANGED items /\ KeepsFiles

\* what the program has read is given up
Closes(p) == stream' = [stream EXCEPT ![p] = Closed] /\ UNCHANGED params /\ KeepsFiles

Data(p) == read(SubSeq(stream[p].lines, 1, stream[p].read))

\* Labels are not supported, and whatever making the database throws is
\* caught: there is no database then.
create_sender_db(s) ==
  /\ at[s] = "create_sender_db"
  /\ \/ ~Data(s).labeled /\ items' = [items EXCEPT ![s] = Data(s).items] /\ Goes(s, "bind")
     \/ Ends(s, -1) /\ UNCHANGED items
  /\ Closes(s)

Serves(s) == at[s] = "run"

run(s) ==
  /\ at[s] = "bind"
  /\ IF \E o \in Sender : Serves(o) THEN Ends(s, "aborted") ELSE Goes(s, "run")
  /\ UNCHANGED <<params, items, stream>> /\ KeepsFiles

\* From the call of signal on (see Stopwatch for what the handler does).
sigint_handler(s) ==
  /\ at[s] \notin {"main", "ended"}
  /\ Ends(s, 0)
  /\ Closes(s) /\ UNCHANGED items

(***************************************************************************)
(* The receiver: remote_query.  connect throws for an address that ZeroMQ  *)
(* refuses.  A query without items reads items[0] in request_query, which  *)
(* is undefined: the program may be killed or go on.                       *)
(***************************************************************************)
connect(r) ==
  /\ at[r] = "connect"
  /\ Goes(r, "RequestParams") \/ Ends(r, "aborted")
  /\ UNCHANGED <<params, items, stream>> /\ KeepsFiles

RequestParams(r) ==
  /\ at[r] = "RequestParams"
  /\ \/ \E s \in Sender : Serves(s) /\ params' = [params EXCEPT ![r] = params[s]] /\ Goes(r, "load_db")
     \/ Ends(r, -1) /\ UNCHANGED params
  /\ UNCHANGED <<items, stream>> /\ KeepsFiles

\* remote_query, after load_db
LoadQuery(r) ==
  /\ at[r] = "LoadQuery"
  /\ IF Data(r).labeled THEN Ends(r, -1) /\ UNCHANGED items
     ELSE Goes(r, "request_query") /\ items' = [items EXCEPT ![r] = Data(r).items]
  /\ Closes(r)

\* A sender that has other parameters by now refuses the query or not
\* (Negotiation); a query that fails is reported and ends the program.
request_query(r) ==
  /\ at[r] = "request_query"
  /\ \/ \E s \in Sender : Serves(s) /\ Ends(r, 0)
     \/ Ends(r, -1)
     \/ items[r] = {} /\ Ends(r, "aborted")
  /\ UNCHANGED <<params, items, stream>> /\ KeepsFiles

Next ==
  \/ \E path \in Path : \E content \in Content(path) \cup {Absent} : Change(path, content)
  \/ \E p \in Program :
       \/ parse_args(p)
       \/ load_db(p)
       \/ open(p)
       \/ getline(p)
  \/ \E s \in Sender :
       \/ throw_if_file_invalid(s)
       \/ try_load_sender_db(s)
       \/ build_psi_params(s)
       \/ Load(s)
       \/ create_sender_db(s)
       \/ run(s)
       \/ sigint_handler(s)
  \/ \E r \in Receiver :
       \/ connect(r)
       \/ RequestParams(r)
       \/ LoadQuery(r)
       \/ request_query(r)

Spec == Init /\ [][Next]_vars

(***************************************************************************)
(* Whatever becomes of the files between the checks, the openings and the  *)
(* end of the reading: what is served or asked are all the items of one    *)
(* content of the data file, unless its first line has none, and the       *)
(* parameters are those of one content.  Only a change while the program   *)
(* has the file open can mix contents: then each item is still from one of *)
(* them or from a line torn between them, and the parameters are some that *)
(* load.  A receiver that got as far as its query has the parameters of a  *)
(* sender, and no two senders serve.                                       *)
(***************************************************************************)
AllItems(lines) == {lines[i].item : i \in DOMAIN lines} \ {NoItem}

IsWhole(set, path) ==
  \E lines \in had[path] \cap DataFile :
    \/ set = AllItems(lines)
    \/ set = {} /\ lines # <<>> /\ lines[1].item = NoItem

\* the items of all contents of a file and of the lines torn between them
Known(path) ==
  {line.item : line \in TornLine} \cup UNION {AllItems(lines) : lines \in had[path] \cap DataFile}

IsFrom(p, path) ==
  IF path \in mixed[p] THEN items[p] \subseteq Known(path) ELSE IsWhole(items[p], path)

ServesWholeFile ==
  /\ \A s \in Sender : Serves(s) =>
       /\ IsFrom(s, "dbFile")
       /\ params[s] \in Valid
       /\ "paramsFile" \notin mixed[s] => params[s] \in had["paramsFile"]
       /\ \A o \in Sender : Serves(o) => o = s
  /\ \A r \in Receiver : at[r] = "request_query" =>
       /\ IsFrom(r, "queryFile")
       /\ \E s \in Sender : params[r] = params[s] /\ params[s] # None
=============================================================================
