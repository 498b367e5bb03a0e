-------------------------- MODULE CheckpointStore --------------------------
(***************************************************************************)
(* The checkpoints of one thread in Redis (utils/redis-saver.ts): what put *)
(* writes, what putWrites adds, what a resumed run is given, and what      *)
(* deleteThread removes.                                                   *)
(*                                                                         *)
(* A pipeline is no transaction: its commands are executed one by one, the *)
(* commands of other clients come in between, each may fail with nobody    *)
(* looking at its error, and a lost connection drops the commands that are *)
(* left.  deleteThread takes no lock, so it may meet a run at work.        *)
(*                                                                         *)
(* The graph has no subgraphs: there is one namespace, the empty one.  A   *)
(* checkpoint is its id; ids grow with time.                               *)
(*                                                                         *)
(* A definition whose comment says "faulty variant" is not the code: it is *)
(* what the definition after it would be with a plausible bug, kept to     *)
(* show that a property tells the two apart.                               *)
(***************************************************************************)
EXTENDS Naturals, FiniteSets

CONSTANTS
  MaxId,    \* bound: checkpoints the runs of the thread make
  Limit,    \* checkpointHistoryLimit
  Retries   \* execWithRetry: how often a pipeline is sent again

ASSUME CheckpointStoreAssumption ==
  /\ MaxId \in Nat
  /\ Limit \in Nat \ {0}
  /\ Retries \in Nat

VARIABLES
  record,    \* agent:checkpoint_record:<id>: the ids that have one
  writes,    \* agent:checkpoint_writes:<id>: the ids that have some
  latest,    \* agent:thread:<thread>:ns:default:latest
  history,   \* ...:history, by time
  thread,    \* agent:thread:<thread>: the legacy form of latest
  index,     \* agent:thread:<thread>:checkpoints: the legacy set
  memory,    \* agent:thread:<thread>:memory: is there any
  put,       \* the put under way
  del,       \* the deleteThread under way
  made,      \* checkpoints made so far; they are numbered from 1
  astray     \* history: ids of which a command was lost or met a deletion

vars == <<record, writes, latest, history, thread, index, memory, put, del,
          made, astray>>

Ids == 1..MaxId

None == 0

Newest(S, n) == {i \in S : Cardinality({j \in S : j > i}) < n}

(* The commands of put, in their order, and "idle". *)
PutPc == {"record", "latest", "history", "thread", "index", "trim", "idle"}

NextPut(pc) ==
  CASE pc = "record"  -> "latest"
    [] pc = "latest"  -> "history"
    [] pc = "history" -> "thread"
    [] pc = "thread"  -> "index"
    [] pc = "index"   -> "trim"

(* deleteThread: four reads, then the commands of its pipeline. *)
DelPc == {"idle", "readHistory", "readLatest", "readIndex", "readThread",
          "records", "keys", "thread", "index", "memory"}

NoPut == [pc |-> "idle", id |-> None, tries |-> 0]

NoDelete == [pc |-> "idle", ids |-> {}, quiet |-> TRUE, tries |-> 0]

-----------------------------------------------------------------------------
(* put. *)

PutActive == put.pc # "idle"

DelActive == del.pc # "idle"

(* What a run does while a deletion is under way may be half undone by it. *)
Disturbed == del' = IF DelActive THEN [del EXCEPT !.quiet = FALSE] ELSE del

Strays(id) == Disturbed /\ astray' = astray \cup {id}

Meets(id) == Disturbed /\ astray' = IF DelActive THEN astray \cup {id}
                                    ELSE astray

BeginPut ==
  /\ ~PutActive
  /\ made < MaxId
  /\ made' = made + 1
  /\ put' = [pc |-> "record", id |-> made + 1, tries |-> 0]
  /\ Meets(made + 1)
  /\ UNCHANGED <<record, writes, latest, history, thread, index, memory>>

(* Faulty variant: the trimming keeps one too many. *)
TrimLess == Newest(history, Limit + 1)

Trimmed == Newest(history, Limit)

Advanced == IF put.pc = "trim" THEN NoPut
            ELSE [put EXCEPT !.pc = NextPut(put.pc)]

(* Faulty variant: the latest id is set before the record it is about. *)
ExecuteLatestFirst(pc) ==
  /\ record'  = IF pc = "latest" THEN record \cup {put.id} ELSE record
  /\ latest'  = IF pc = "record" THEN put.id ELSE latest
  /\ history' = CASE pc = "history" -> history \cup {put.id}
                  [] pc = "trim"    -> Trimmed
                  [] OTHER          -> history
  /\ thread'  = IF pc = "thread" THEN put.id ELSE thread
  /\ index'   = IF pc = "index" THEN index \cup {put.id} ELSE index

(* One command of put takes effect. *)
Execute(pc) ==
  /\ record'  = IF pc = "record" THEN record \cup {put.id} ELSE record
  /\ latest'  = IF pc = "latest" THEN put.id ELSE latest
  /\ history' = CASE pc = "history" -> history \cup {put.id}
                  [] pc = "trim"    -> Trimmed
                  [] OTHER          -> history
  /\ thread'  = IF pc = "thread" THEN put.id ELSE thread
  /\ index'   = IF pc = "index" THEN index \cup {put.id} ELSE index

PutCommand ==
  /\ PutActive
  /\ Execute(put.pc)
  /\ put' = Advanced
  /\ Meets(put.id)
  /\ UNCHANGED <<writes, memory, made>>

(* One command fails; nobody reads the errors in the pipeline's results.   *)
PutCommandFails ==
  /\ PutActive
  /\ put' = Advanced
  /\ Strays(put.id)
  /\ UNCHANGED <<record, writes, latest, history, thread, index, memory, made>>

(* Faulty variant: the attempts are not counted. *)
PutAgainUncounted ==
  /\ PutActive
  /\ put' = [pc |-> "record", id |-> put.id, tries |-> put.tries + 1]
  /\ Meets(put.id)
  /\ UNCHANGED <<record, writes, latest, history, thread, index, memory, made>>

(* The pipeline is rejected for a transient reason and sent again.         *)
PutAgain ==
  /\ PutActive
  /\ put.tries < Retries
  /\ put' = [pc |-> "record", id |-> put.id, tries |-> put.tries + 1]
  /\ Meets(put.id)
  /\ UNCHANGED <<record, writes, latest, history, thread, index, memory, made>>

(* The pipeline is rejected for good, or the process stops: the commands   *)
(* that are left are lost.                                                 *)
PutStops ==
  /\ PutActive
  /\ put' = NoPut
  /\ Strays(put.id)
  /\ UNCHANGED <<record, writes, latest, history, thread, index, memory, made>>

(* putWrites for the tasks of the checkpoint made last.  Its hash is lost  *)
(* to deleteThread if no index knows the checkpoint any more.              *)
PutWrites ==
  /\ made # 0
  /\ writes' = writes \cup {made}
  /\ IF PutActive \/ made \in index THEN Meets(made) ELSE Strays(made)
  /\ UNCHANGED <<record, latest, history, thread, index, memory, put, made>>

(* setThreadMemory: persist and addEntry. *)
SetMemory ==
  /\ memory' = TRUE
  /\ Disturbed
  /\ UNCHANGED <<record, writes, latest, history, thread, index, put, made,
                 astray>>

(* getTuple: the checkpoint a run is resumed from. *)
Tuple ==
  LET id == IF latest # None THEN latest ELSE thread
  IN  IF id \in record THEN id ELSE None

-----------------------------------------------------------------------------
(* deleteThread. *)

Found(ids, pc) ==
  /\ del' = [pc |-> pc, ids |-> del.ids \cup ids, quiet |-> del.quiet,
             tries |-> 0]
  /\ UNCHANGED <<record, writes, latest, history, thread, index, memory, put,
                 made, astray>>

BeginDelete ==
  /\ ~DelActive
  /\ del' = [pc |-> "readHistory", ids |-> {}, quiet |-> ~PutActive,
             tries |-> 0]
  /\ astray' = IF PutActive THEN astray \cup {put.id} ELSE astray
  /\ UNCHANGED <<record, writes, latest, history, thread, index, memory, put,
                 made>>

ReadHistory == del.pc = "readHistory" /\ Found(history, "readLatest")

ReadLatest == del.pc = "readLatest" /\ Found({latest} \ {None}, "readIndex")

(* Faulty variant: the legacy set is left out, so only the checkpoints of  *)
(* the trimmed history are found.                                          *)
ReadNoIndex == del.pc = "readIndex" /\ Found({}, "readThread")

ReadIndex == del.pc = "readIndex" /\ Found(index, "readThread")

(* A thread without checkpoints is "not found", also one with a memory.    *)
ReadThread ==
  /\ del.pc = "readThread"
  /\ LET ids == del.ids \cup ({thread} \ {None})
     IN  IF ids = {} THEN /\ del' = NoDelete
                          /\ UNCHANGED <<record, writes, latest, history, thread,
                                         index, memory, put, made, astray>>
         ELSE Found(ids, "records")

(* The commands of the pipeline, one key or one group of keys at a time.   *)
DelKeys(pc, next) ==
  /\ del.pc = pc
  /\ record'  = IF pc = "records" THEN record \ del.ids ELSE record
  /\ writes'  = IF pc = "records" THEN writes \ del.ids ELSE writes
  /\ latest'  = IF pc = "keys" THEN None ELSE latest
  /\ history' = IF pc = "keys" THEN {} ELSE history
  /\ thread'  = IF pc = "thread" THEN None ELSE thread
  /\ index'   = IF pc = "index" THEN {} ELSE index
  /\ memory'  = (memory /\ pc # "memory")
  /\ del' = IF next = "idle" THEN NoDelete ELSE [del EXCEPT !.pc = next]
  /\ UNCHANGED <<put, made, astray>>

DeleteCommand ==
  \/ DelKeys("records", "keys")
  \/ DelKeys("keys", "thread")
  \/ DelKeys("thread", "index")
  \/ DelKeys("index", "memory")
  \/ DelKeys("memory", "idle")

(* The pipeline is rejected for a transient reason and sent again.         *)
DeleteAgain ==
  /\ del.pc \in {"keys", "thread", "index", "memory"}
  /\ del.tries < Retries
  /\ del' = [pc |-> "records", ids |-> del.ids, quiet |-> del.quiet,
             tries |-> del.tries + 1]
  /\ UNCHANGED <<record, writes, latest, history, thread, index, memory, put,
                 made, astray>>

(* A read fails, or the rest of the pipeline is lost.                      *)
DeleteStops ==
  /\ DelActive
  /\ \E gone \in SUBSET del.ids :
       /\ del.pc = "records" \/ gone = {}
       /\ record' = record \ gone
       /\ writes' = writes \ gone
       /\ astray' = astray \cup (del.ids \ record')
  /\ del' = NoDelete
  /\ UNCHANGED <<latest, history, thread, index, memory, put, made>>

-----------------------------------------------------------------------------
(* Keys whose time is over: the records of old checkpoints, and all keys   *)
(* of a thread that was left alone for as long.                            *)

ExpireRecord ==
  /\ \E i \in (record \cup writes) \ {latest, made} :
       /\ \A j \in record \cup writes : i <= j
       /\ record' = record \ {i}
       /\ writes' = writes \ {i}
  /\ UNCHANGED <<latest, history, thread, index, memory, put, del, made,
                 astray>>

ExpireThread ==
  /\ ~PutActive /\ ~DelActive
  /\ record' = {} /\ writes' = {} /\ history' = {} /\ index' = {}
  /\ latest' = None /\ thread' = None
  /\ memory' \in {memory, FALSE}
  /\ UNCHANGED <<put, del, made, astray>>

Init ==
  /\ record = {} /\ writes = {} /\ history = {} /\ index = {}
  /\ latest = None /\ thread = None
  /\ memory = FALSE
  /\ put = NoPut
  /\ del = NoDelete
  /\ made = 0
  /\ astray = {}

Run == BeginPut \/ PutCommand \/ PutCommandFails \/ PutAgain \/ PutStops
       \/ PutWrites \/ SetMemory

Delete == BeginDelete \/ ReadHistory \/ ReadLatest \/ ReadIndex \/ ReadThread
          \/ DeleteCommand \/ DeleteAgain \/ DeleteStops

Next == Run \/ Delete \/ ExpireRecord \/ ExpireThread

Spec == Init /\ [][Next]_vars

-----------------------------------------------------------------------------
(* Properties. *)

(* The keys hold checkpoints of the thread; put, deleteThread and the      *)
(* trimming keep their shapes (redis-saver.ts).                            *)
TypeOK ==
  /\ record \in SUBSET Ids /\ writes \in SUBSET Ids
  /\ history \in SUBSET Ids /\ index \in SUBSET Ids
  /\ latest \in Ids \cup {None} /\ thread \in Ids \cup {None}
  /\ memory \in BOOLEAN
  /\ put \in [pc : PutPc, id : Ids \cup {None}, tries : 0..Retries]
  /\ del \in [pc : DelPc, ids : SUBSET Ids, quiet : BOOLEAN,
             tries : 0..Retries]
  /\ made \in 0..MaxId
  /\ astray \in SUBSET Ids

(* The id a run is resumed from always has its record, also when put stops *)
(* between two commands, is sent again, or is followed by expiry.          *)
LatestReadable ==
  latest # None /\ latest \notin astray /\ ~DelActive => latest \in record

(* list: the ids that the history or the older set names and that can be   *)
(* read.                                                                   *)
Listed == (history \cup index) \cap record

(* The history of a thread at rest is its newest checkpoints, Limit at     *)
(* most, whatever befell earlier puts; and list still shows all that can   *)
(* be read, so that no record is kept out of anyone's reach.               *)
HistoryIsNewest ==
  ~PutActive /\ ~DelActive /\ latest # None /\ made \notin astray =>
    /\ record \subseteq Listed \cup astray
    /\ made \in history
    /\ Cardinality(history) <= Limit
    /\ \A i \in index \ (history \cup astray), j \in history : i < j

(* A deletion that meets nobody and loses nothing leaves nothing of the    *)
(* thread, the checkpoints that were trimmed from its history included.    *)
DeleteForgets ==
  [][DeleteCommand /\ del'.pc = "idle" /\ del.quiet =>
       /\ record' \cup writes' \subseteq astray
       /\ latest' = None /\ thread' = None /\ history' = {} /\ index' = {}
       /\ ~memory']_vars
=============================================================================
