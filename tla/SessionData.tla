---------------------------- MODULE SessionData ----------------------------
(***************************************************************************)
(* What requests leave in Redis and in the vector store, and what later    *)
(* requests read of it: the memory of a session                            *)
(* (services/session-memory.service.ts), the cached answers                *)
(* (agents.service.ts), the ids of the vector points a run has used        *)
(* (utils/redis-saver.ts), and the rating of a session with the salience   *)
(* of those points (services/feedback.service.ts).                         *)
(*                                                                         *)
(* SessionAccess models the lock and the graph loops.  Here a graph is one *)
(* step that ends with an answer or without one; an await between a read   *)
(* and a write is a point between two actions.  Texts are abstract: an     *)
(* entry is known by the request that made it or by the note it is.        *)
(*                                                                         *)
(* A definition whose comment says "faulty variant" is not the code: it is *)
(* what the definition after it would be with a plausible bug, kept to     *)
(* show that a property tells the two apart.                               *)
(***************************************************************************)
EXTENDS Naturals, Sequences

CONSTANTS
  Sessions,
  Callers,      \* requests, each made at most once
  None,         \* no session, no caller, no text
  Prompts,
  Notes,        \* texts that POST .../memory is given
  Fragment,     \* an entry that was cut, with "...[truncated]" after it
  Points,       \* vector points
  KeptEntries,  \* entries a memory keeps: 3
  MaxHead       \* bound: commits of the repository

Ratings == {"positive", "negative"}

ASSUME SessionDataAssumption ==
  /\ None \notin Sessions \cup Callers \cup Prompts \cup Notes \cup Ratings
  /\ Callers \cap Notes = {}
  /\ Fragment \notin Callers \cup Notes
  /\ KeptEntries \in Nat \ {0}
  /\ MaxHead \in Nat \ {0}

VARIABLES
  lock,      \* session:<id>:lock
  memory,    \* agent:thread:<id>:memory, newest entry first
  ids,       \* agent:thread:<id>:vector_ids
  stats,     \* agent:feedback:<id>:stats
  cache,     \* agent:cache:<key>: the answers
  salience,  \* of the points; "stored" is what an upsert leaves
  head,      \* the commit that is checked out
  fp,        \* _repoFingerprintCache; 0 is not yet known
  call,      \* the requests
  crossed,   \* history: requests whose memory others wrote beside them
  muddled    \* history: sessions whose ratings were disturbed

vars == <<lock, memory, ids, stats, cache, salience, head, fp, call, crossed,
          muddled>>

Entry == Callers \cup Notes \cup {Fragment}

Memory == {m \in Seq(Entry) : Len(m) <= KeptEntries}

(* What a cached answer answers and the commit its graph looked at, and    *)
(* what its key is made of: md5 of the memory, sha256 of it all.           *)
Answer == [prompt : Prompts, mem : Memory, head : 1..MaxHead]

Key == [fp : 1..MaxHead, prompt : Prompts, mem : Memory]

(* stream is here for approve and replan as well: they have no cache.       *)
Locking == {"run", "stream"}

Ops == Locking \cup {"add", "rate"}

(* The stored rating; of the points it has updated the code keeps only how *)
(* many there were.                                                        *)
Stats == [rating : Ratings \cup {None}, points : SUBSET Points]

(***************************************************************************)
(* A request: its kind, its session, where it is, its prompt, note or      *)
(* rating, the memory it read, the points it has to update and those it    *)
(* has updated, and the cached answer it found.                            *)
(***************************************************************************)
Call == [op   : Ops,
         s    : Sessions \cup {None},
         pc   : {"idle", "locked", "loaded", "graph", "answered",
                 "persisting", "keeping", "served", "releasing",
                 "adding", "rating", "updating", "done"},
         what : Prompts \cup Notes \cup Ratings \cup {None},
         mem  : Memory,
         todo : SUBSET Points,
         done : SUBSET Points,
         got  : SUBSET Answer]

Request(op, s, pc, what, mem, got) ==
  [op |-> op, s |-> s, pc |-> pc, what |-> what, mem |-> mem,
   todo |-> {}, done |-> {}, got |-> got]

Quiet(pc) == Request("run", None, pc, None, <<>>, {})

At(c, pc) == call[c].pc = pc

Begin(c, op, s, pc, what, mem) ==
  /\ At(c, "idle")
  /\ call' = [call EXCEPT ![c] = Request(op, s, pc, what, mem, {})]

GoTo(c, pc) == call' = [call EXCEPT ![c].pc = pc]

Leave(c) == call' = [call EXCEPT ![c] = Quiet("done")]

(* c has read the memory of s and may still write it. *)
InWindow(c, s) ==
  /\ call[c].s = s
  /\ call[c].pc \in {"loaded", "graph", "answered", "persisting", "adding"}

Rating(c, s) == call[c].s = s /\ call[c].pc \in {"rating", "updating"}

(* Sessions other than s that have rated p, or are rating. *)
Raters(p, s) ==
  {t \in Sessions \ {s} :
     p \in stats[t].points \/ \E c \in Callers : Rating(c, t)}

-----------------------------------------------------------------------------
(* merge: the new entry first, the others after it, the first KeptEntries  *)
(* of them.  A memory names no entry twice, so filter removes one at most. *)

Without(m, e) ==
  IF \E i \in DOMAIN m : m[i] = e
  THEN LET i == CHOOSE i \in DOMAIN m : m[i] = e
       IN  SubSeq(m, 1, i - 1) \o SubSeq(m, i + 1, Len(m))
  ELSE m

First(m, n) == IF Len(m) <= n THEN m ELSE SubSeq(m, 1, n)

(* Faulty variant: the entry is not looked for among the others. *)
MergedUnfiltered(m, e) == First(<<e>> \o m, KeptEntries)

(* Faulty variant: nothing is left out of a full memory. *)
MergedAll(m, e) == <<e>> \o Without(m, e)

Merged(m, e) == First(<<e>> \o Without(m, e), KeptEntries)

(* A memory of more than max(PROMPT_MAX_SUMMARY_CHARS, 1200) characters is *)
(* cut, somewhere in one of its entries.                                   *)
Cuts(m) ==
  {m} \cup {Append(SubSeq(m, 1, k), Fragment) : k \in 0..(Len(m) - 1)}

(* Who writes a memory without the lock, or after the lock has expired,    *)
(* crosses every request that has read it and may still write.             *)
Crossing(c, s) ==
  {d \in Callers \ {c} :
     /\ InWindow(d, s)
     /\ \/ call[c].op \notin Locking
        \/ call[d].op \notin Locking
        \/ c \in crossed}

(* The entry of a run is its own, that of addEntry is the note. *)
EntryOf(c) == IF call[c].op = "add" THEN call[c].what ELSE c

(* setThreadMemory of merge; those in done are over with it. *)
WriteMemory(c, done) ==
  /\ \E w \in Cuts(Merged(call[c].mem, EntryOf(c))) :
       memory' = [memory EXCEPT ![call[c].s] = w]
  /\ crossed' = (crossed \cup Crossing(c, call[c].s)) \ done

-----------------------------------------------------------------------------
(* run, streamRun, approve and replan: under the lock of the session. *)

(* Faulty variant: SET without NX. *)
AcquireAnyway(c, op, s, p) ==
  /\ Begin(c, op, s, "locked", p, <<>>)
  /\ lock' = [lock EXCEPT ![s] = c]
  /\ UNCHANGED <<memory, ids, stats, cache, salience, head, fp, crossed, muddled>>

(* acquireSessionLock: the lock is free, or its 120 seconds are over, and  *)
(* its holder goes on if it still works.  A request that is refused (409)  *)
(* changes nothing.                                                        *)
Acquire(c, op, s, p) ==
  /\ Begin(c, op, s, "locked", p, <<>>)
  /\ lock' = [lock EXCEPT ![s] = c]
  /\ crossed' = crossed \cup {d \in Callers : lock[s] = d /\ ~At(d, "done")}
  /\ UNCHANGED <<memory, ids, stats, cache, salience, head, fp, muddled>>

(* tryLoad: a failed read counts as an empty memory. *)
Load(c) ==
  /\ At(c, "locked")
  /\ LET Loaded(m) == Request(call[c].op, call[c].s, "loaded", call[c].what,
                              m, {})
     IN  \/ /\ call' = [call EXCEPT ![c] = Loaded(memory[call[c].s])]
            /\ UNCHANGED crossed
         \/ /\ call' = [call EXCEPT ![c] = Loaded(<<>>)]
            /\ crossed' = crossed \cup {c}
  /\ UNCHANGED <<lock, memory, ids, stats, cache, salience, head, fp, muddled>>

(* _getRepoFingerprint: asked of git once per process. *)
Fingerprint == IF fp = 0 THEN head ELSE fp

(* Faulty variant: the commit is left out of the key. *)
KeyAnyCommit(f, c) == [fp |-> 1, prompt |-> call[c].what, mem |-> call[c].mem]

(* Faulty variant: the memory is left out of the key. *)
KeyAnyMemory(f, c) == [fp |-> f, prompt |-> call[c].what, mem |-> <<>>]

(* _buildCacheKey: the session is not a part of it. *)
KeyOf(f, c) == [fp |-> f, prompt |-> call[c].what, mem |-> call[c].mem]

(* run looks for an answer to its prompt before it starts the graph.  One  *)
(* that is CACHE_TTL_SECONDS old is gone.                                  *)
Lookup(c) ==
  /\ At(c, "loaded") /\ call[c].op = "run"
  /\ fp' = Fingerprint
  /\ LET hits == {x \in cache : x.key = KeyOf(fp', c)}
     IN  \/ /\ hits # {}
            /\ call' = [call EXCEPT ![c] =
                 Request("run", call[c].s, "served", call[c].what,
                         call[c].mem, {x.answer : x \in hits})]
            /\ UNCHANGED cache
         \/ /\ cache' = cache \ hits
            /\ GoTo(c, "graph")
  /\ UNCHANGED <<lock, memory, ids, stats, salience, head, crossed, muddled>>

(* The graph ends with an answer, or with a preview of a tool result that  *)
(* counts as one.  memory_persist may have stored a point again that was   *)
(* stored before: its payload is replaced.                                 *)
GraphAnswers(c) ==
  /\ \/ At(c, "graph")
     \/ At(c, "loaded") /\ call[c].op # "run"
  /\ GoTo(c, IF call[c].op = "run" THEN "answered" ELSE "persisting")
  /\ \/ \E p \in Points :
          /\ salience' = [salience EXCEPT ![p] = "stored"]
          /\ muddled' = muddled \cup Raters(p, None)
     \/ UNCHANGED <<salience, muddled>>
  /\ UNCHANGED <<lock, memory, ids, stats, cache, head, fp, crossed>>

(* A run that pauses for a review has nothing to answer with: 500.  So has *)
(* one whose graph throws or takes too long; a stream ends with an error.  *)
NoAnswer(c) ==
  /\ call[c].pc \in {"loaded", "graph"}
  /\ GoTo(c, "releasing")
  /\ UNCHANGED <<lock, memory, ids, stats, cache, salience, head, fp, crossed,
                 muddled>>

(* setex; a failure of Redis here loses the entry and the ids as well. *)
Store(c) ==
  /\ At(c, "answered")
  /\ \/ /\ cache' = {x \in cache : x.key # KeyOf(fp, c)} \cup
             {[key |-> KeyOf(fp, c),
               answer |-> [prompt |-> call[c].what, mem |-> call[c].mem,
                           head |-> head]]}
        /\ GoTo(c, "persisting")
     \/ /\ GoTo(c, "releasing")
        /\ UNCHANGED cache
  /\ UNCHANGED <<lock, memory, ids, stats, salience, head, fp, crossed, muddled>>

(* persist merges with what was loaded at the start.  A failed write is    *)
(* swallowed, and a stream that paused without an answer writes nothing.   *)
Persist(c) ==
  /\ At(c, "persisting")
  /\ GoTo(c, "keeping")
  /\ \/ WriteMemory(c, {})
     \/ UNCHANGED <<memory, crossed>>
  /\ UNCHANGED <<lock, ids, stats, cache, salience, head, fp, muddled>>

(* setVectorMemoryIds: the points that research has found in this run, or  *)
(* those of an earlier run of the thread if this one did no research; an   *)
(* empty list is not written.  A run that is complete, not one of approve   *)
(* or replan, then asks for the fingerprint, to store a new point.         *)
KeepIds(c) ==
  /\ At(c, "keeping")
  /\ GoTo(c, "releasing")
  /\ \/ \E P \in SUBSET Points \ {{}} :
          ids' = [ids EXCEPT ![call[c].s] = P]
     \/ UNCHANGED ids
  /\ fp' \in {fp, Fingerprint}
  /\ UNCHANGED <<lock, memory, stats, cache, salience, head, crossed, muddled>>

(* Compare and delete, in finally. *)
Release(c) ==
  /\ call[c].pc \in {"served", "releasing"}
  /\ lock' = [lock EXCEPT ![call[c].s] = IF @ = c THEN None ELSE @]
  /\ Leave(c)
  /\ crossed' = crossed \ {c}
  /\ UNCHANGED <<memory, ids, stats, cache, salience, head, fp, muddled>>

-----------------------------------------------------------------------------
(* The memory endpoints and DELETE .../session, which take no lock. *)

(* addEntry reads the memory, *)
AddEntry(c, s, n) ==
  /\ \/ /\ Begin(c, "add", s, "adding", n, memory[s])
        /\ UNCHANGED crossed
     \/ /\ Begin(c, "add", s, "adding", n, <<>>)
        /\ crossed' = crossed \cup {c}
  /\ UNCHANGED <<lock, memory, ids, stats, cache, salience, head, fp, muddled>>

(* and writes it; a failure is answered (500). *)
WriteEntry(c) ==
  /\ At(c, "adding")
  /\ \/ WriteMemory(c, {c})
     \/ /\ crossed' = crossed \ {c}
        /\ UNCHANGED memory
  /\ Leave(c)
  /\ UNCHANGED <<lock, ids, stats, cache, salience, head, fp, muddled>>

Clear(c, s) ==
  /\ At(c, "idle") /\ Leave(c)
  /\ memory' = [memory EXCEPT ![s] = <<>>]
  /\ crossed' = crossed \cup {d \in Callers : InWindow(d, s)}
  /\ UNCHANGED <<lock, ids, stats, cache, salience, head, fp, muddled>>

(* deleteThread, as far as memory and ids go; CheckpointStore has the rest. *)
(* The rating of the session stays.                                        *)
DeleteSession(c, s) ==
  /\ At(c, "idle") /\ Leave(c)
  /\ memory' = [memory EXCEPT ![s] = <<>>]
  /\ ids' = [ids EXCEPT ![s] = {}]
  /\ crossed' = crossed \cup {d \in Callers : InWindow(d, s)}
  /\ UNCHANGED <<lock, stats, cache, salience, head, fp, muddled>>

-----------------------------------------------------------------------------
(* submitFeedback, which takes no lock either. *)

(* Faulty variant: the rating is stored before the points are updated. *)
SubmitStoringFirst(c, s, r) ==
  /\ stats[s].rating # r
  /\ Begin(c, "rate", s, "rating", r, <<>>)
  /\ stats' = [stats EXCEPT ![s] = [rating |-> r, points |-> ids[s]]]
  /\ UNCHANGED <<lock, memory, ids, cache, salience, head, fp, crossed, muddled>>

(* The stored rating is looked at first.  The same rating again is answered *)
(* with it, whatever points the session has got since, and changes nothing. *)
Submit(c, s, r) ==
  /\ stats[s].rating # r
  /\ Begin(c, "rate", s, "rating", r, <<>>)
  /\ muddled' = IF \E d \in Callers : Rating(d, s) THEN muddled \cup {s}
                ELSE muddled
  /\ UNCHANGED <<lock, memory, ids, stats, cache, salience, head, fp, crossed>>

(* getVectorMemoryIds *)
ReadIds(c) ==
  /\ At(c, "rating")
  /\ call' = [call EXCEPT ![c].pc = "updating", ![c].todo = ids[call[c].s]]
  /\ UNCHANGED <<lock, memory, ids, stats, cache, salience, head, fp, crossed,
                 muddled>>

(* updatePointSalience, one point after the other; a failure is swallowed  *)
(* and the point is not counted.                                           *)
UpdatePoint(c, p) ==
  /\ At(c, "updating") /\ p \in call[c].todo
  /\ \/ /\ salience' = [salience EXCEPT ![p] = call[c].what]
        /\ call' = [call EXCEPT ![c].todo = @ \ {p}, ![c].done = @ \cup {p}]
        /\ muddled' = muddled \cup Raters(p, call[c].s)
     \/ /\ call' = [call EXCEPT ![c].todo = @ \ {p}]
        /\ UNCHANGED <<salience, muddled>>
  /\ UNCHANGED <<lock, memory, ids, stats, cache, head, fp, crossed>>

StoreRating(c) ==
  /\ At(c, "updating") /\ call[c].todo = {}
  /\ \/ /\ stats' = [stats EXCEPT ![call[c].s] =
                     [rating |-> call[c].what, points |-> call[c].done]]
        /\ UNCHANGED muddled
     \/ /\ muddled' = muddled \cup {call[c].s}
        /\ UNCHANGED stats
  /\ Leave(c)
  /\ UNCHANGED <<lock, memory, ids, cache, salience, head, fp, crossed>>

-----------------------------------------------------------------------------
(* What happens without a request. *)

(* Someone commits: a user, or a tool of a run. *)
Commit ==
  /\ head < MaxHead
  /\ head' = head + 1
  /\ UNCHANGED <<lock, memory, ids, stats, cache, salience, fp, call, crossed,
                 muddled>>

(* The process stops and starts again; Redis and Qdrant keep what they have. *)
Restart ==
  /\ fp # 0 \/ \E c \in Callers : call[c].pc \notin {"idle", "done"}
  /\ fp' = 0
  /\ call' = [c \in Callers |-> IF At(c, "idle") THEN call[c] ELSE Quiet("done")]
  /\ muddled' = muddled \cup
       {s \in Sessions : \E c \in Callers : Rating(c, s)}
  /\ crossed' = {}
  /\ UNCHANGED <<lock, memory, ids, stats, cache, salience, head>>

Init ==
  /\ lock = [s \in Sessions |-> None]
  /\ memory = [s \in Sessions |-> <<>>]
  /\ ids = [s \in Sessions |-> {}]
  /\ stats = [s \in Sessions |-> [rating |-> None, points |-> {}]]
  /\ cache = {}
  /\ salience = [p \in Points |-> "stored"]
  /\ head = 1
  /\ fp = 0
  /\ call = [c \in Callers |-> Quiet("idle")]
  /\ crossed = {}
  /\ muddled = {}

LockedRequest(c) ==
  \/ \E s \in Sessions, p \in Prompts, op \in Locking : Acquire(c, op, s, p)
  \/ Load(c) \/ Lookup(c) \/ GraphAnswers(c) \/ NoAnswer(c)
  \/ Store(c) \/ Persist(c) \/ KeepIds(c) \/ Release(c)

MemoryRequest(c) ==
  \/ \E s \in Sessions, n \in Notes : AddEntry(c, s, n)
  \/ WriteEntry(c)
  \/ \E s \in Sessions : Clear(c, s) \/ DeleteSession(c, s)

RatingRequest(c) ==
  \/ \E s \in Sessions, r \in Ratings : Submit(c, s, r)
  \/ ReadIds(c)
  \/ \E p \in Points : UpdatePoint(c, p)
  \/ StoreRating(c)

Next ==
  \/ \E c \in Callers : LockedRequest(c) \/ MemoryRequest(c) \/ RatingRequest(c)
  \/ Commit
  \/ Restart

Spec == Init /\ [][Next]_vars

-----------------------------------------------------------------------------
(* Properties. *)

(* Everything keeps its type; a memory holds three entries at most         *)
(* (session-memory.service.ts merge, agents.dto.ts "max 3").               *)
TypeOK ==
  /\ lock \in [Sessions -> Callers \cup {None}]
  /\ memory \in [Sessions -> Memory]
  /\ ids \in [Sessions -> SUBSET Points]
  /\ stats \in [Sessions -> Stats]
  /\ cache \in SUBSET [key : Key, answer : Answer]
  /\ salience \in [Points -> Ratings \cup {"stored"}]
  /\ head \in 1..MaxHead
  /\ fp \in 0..MaxHead
  /\ call \in [Callers -> Call]
  /\ crossed \in SUBSET Callers
  /\ muddled \in SUBSET Sessions

(* No memory names an entry twice, whatever requests overlap and wherever  *)
(* it was cut (merge's filter sees only the memory it was given).          *)
EachEntryOnce ==
  \A s \in Sessions : \A i, j \in DOMAIN memory[s] :
    memory[s][i] = memory[s][j] => i = j

(* A request that nobody crossed puts its entry before the memory as it is *)
(* at that moment: read and write, minutes apart, lose nobody's entry.     *)
(* Who is crossed: a request beside an unlocked addEntry, clear or delete, *)
(* one whose lock expired, one that could not read.                        *)
WritesAreSerial ==
  [][\A s \in Sessions :
       memory'[s] # memory[s] =>
         \/ memory'[s] = <<>>
         \/ \E c \in Callers :
              /\ call[c].s = s /\ call'[c] # call[c]
              /\ \/ c \in crossed
                 \/ /\ memory'[s] \in Cuts(Merged(memory[s], EntryOf(c)))
                    /\ memory'[s][1] \in {EntryOf(c), Fragment}]_vars

(* An answer is served from the cache only to the prompt it was given for, *)
(* asked with the same session memory, and if it was worked out no earlier *)
(* than at the commit this process knows: across sessions, commits and     *)
(* restarts.                                                               *)
ServedAnswerFits ==
  \A c \in Callers : At(c, "served") => \A a \in call[c].got :
    a.prompt = call[c].what /\ a.mem = call[c].mem /\ a.head >= fp

(* While nobody rates a session, the points its stored rating has updated  *)
(* have that salience, unless something disturbed it: two ratings of the   *)
(* session at a time, a rating broken off by a restart or a failed write,  *)
(* another session's rating of the same point, or a run that stored the    *)
(* point again.                                                            *)
RatingsReachPoints ==
  \A s \in Sessions \ muddled :
    (\A c \in Callers : ~Rating(c, s)) =>
      \A p \in stats[s].points : salience[p] = stats[s].rating
=============================================================================
