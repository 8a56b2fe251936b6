----------------------------- MODULE MCMatching -----------------------------
(***************************************************************************)
(* Instances for TLC of a query's way through the programs: what surrounds *)
(* it (Process), how it finds its matches (Matching), and a session of     *)
(* three requests (QueryProtocol).  The modules share no state: part says  *)
(* which of them takes the steps of a behaviour, the others stay as they   *)
(* are in one of their initial states.                                     *)
(*                                                                         *)
(* Matching: two bundles of two bins.  The items share locations, so that  *)
(* inserting them moves others and can fail, and have their locations in   *)
(* one bundle or in two.                                                   *)
(***************************************************************************)
EXTENDS Matching, Process

CONSTANTS Params, Pending, Threw

VARIABLES
  part,
  history, requests, service_wire, taken, rpc, rnext, package_count, worker, seen, todo, mrs,
  merged, spc, current, task, snext, stop, faults                             \* QueryProtocol

service_vars ==
  <<history, requests, service_wire, taken, rpc, rnext, package_count, worker, seen, todo, mrs,
    merged, spc, current, task, snext, stop, faults>>

Locations ==
  [x \in Item |-> CASE x = 1 -> {0, 2} [] x = 2 -> {0, 2} [] x = 3 -> {0, 1} [] OTHER -> {2, 3}]
ShortQueries == UNION {[1 .. n -> Item] : n \in 0 .. 3}

\* At most one program errs for one item.
OneError == {{}} \cup {{error} : error \in Bundle \X Item}

\* Data files: empty, with lines without an item, with and without labels; the
\* first line of a file may get a label only when it is torn.
Entry(item, label) == [item |-> item, label |-> label]
DataFiles ==
  {<<>>, <<Entry(NoItem, FALSE), Entry("a", FALSE)>>,
   <<Entry("a", FALSE), Entry(NoItem, FALSE), Entry("b", TRUE)>>}
TornLines == {Entry("c", TRUE)}

\* Lines: nothing, a blank, a label only, an item with its label, white space
\* around and within an item, letters, a digit, and the end of a line.
SampleLines ==
  {<<>>, <<32>>, <<44, 65>>, <<65, 66, 44, 67>>, <<9, 65, 32, 66>>, <<90, 122>>, <<48>>,
   <<97, 13>>, <<65>>}
TextFiles == UNION {[1 .. n -> SampleLines] : n \in 0 .. 3}

(***************************************************************************)
(* Sessions: three bundles of two bins.  The first query's empty bins      *)
(* repeat its item 0 and trip over it, which leaves packages on the        *)
(* connection; the second one's do not.  No operation of the sender fails. *)
(***************************************************************************)
FirstBins == [position \in {<<0, 0>>, <<1, 0>>, <<2, 0>>} |-> position[1]]
SessionQuery(holds0, holds1, holds2) ==
  [table |-> FirstBins, holds |-> [b \in 0 .. 2 |-> <<holds0, holds1, holds2>>[b + 1]]]
SessionQueries == {SessionQuery({0}, {0}, {2}), SessionQuery({}, {1}, {2})}

Service == INSTANCE QueryProtocol
  WITH BundleCount <- 3, Bin <- {0, 1}, ItemCount <- 3, QueryInput <- SessionQueries,
       WorkerCount <- 2, PoolSize <- 2, SenderPoolSize <- 1,
       MaxRequests <- 3, MaxFaults <- 0, wire <- service_wire, count <- package_count

\* A session keeps what PsiService promises: own answers until an exception.
ServiceKept == Service!ImplementsPsiService

\* What distinguishes the initial states of a module is free in its own part.
MCInit ==
  /\ part \in {"matching", "programs", "reader", "log", "channel", "keys", "service"}
  /\ part = "matching" \/ (items = <<>> /\ bundles = Inserted({}) /\ wrong = {})
  /\ Init
  /\ \A error \in wrong : \E i \in DOMAIN items : items[i] = error[2]
  /\ part = "programs" \/ files = [path \in Cli!Path |-> Absent]
  /\ Cli!Init
  /\ files["queryFile"] = files["dbFile"]
  /\ part = "reader" \/ lines = <<>>
  /\ Reader!Init
  /\ Logging!Init
  /\ part = "channel" \/ role = "sender"
  /\ Sockets!Init
  /\ Service!Init
  /\ part = "keys" \/ using_keyswitching = TRUE
  /\ Keys!Init

MCNext ==
  /\ \/ part = "matching" /\ Next
        /\ UNCHANGED <<program_vars, reader_vars, log_vars, channel_vars, keys_vars, service_vars>>
     \/ part = "programs" /\ Cli!Next
        /\ UNCHANGED <<vars, reader_vars, log_vars, channel_vars, keys_vars, service_vars>>
     \/ part = "reader" /\ Reader!Next
        /\ UNCHANGED <<vars, program_vars, log_vars, channel_vars, keys_vars, service_vars>>
     \/ part = "log" /\ Logging!Next
        /\ UNCHANGED <<vars, program_vars, reader_vars, channel_vars, keys_vars, service_vars>>
     \/ part = "channel" /\ Sockets!Next
        /\ UNCHANGED <<vars, program_vars, reader_vars, log_vars, keys_vars, service_vars>>
     \/ part = "keys" /\ Keys!Next
        /\ UNCHANGED <<vars, program_vars, reader_vars, log_vars, channel_vars, service_vars>>
     \/ part = "service" /\ Service!Next
        /\ UNCHANGED <<vars, program_vars, reader_vars, log_vars, channel_vars, keys_vars>>
  /\ UNCHANGED part

MCSpec ==
  MCInit
  /\ [][MCNext]_<<part, vars, program_vars, reader_vars, log_vars, channel_vars, keys_vars,
                  service_vars>>
=============================================================================
