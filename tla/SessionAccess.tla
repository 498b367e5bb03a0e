--------------------------- MODULE SessionAccess ---------------------------
(***************************************************************************)
(* Requests on one session: run, stream, and the plan-review calls         *)
(* approve, reject and replan (agents.service.ts,                          *)
(* services/plan-review.service.ts), with the Redis lock that keeps them   *)
(* apart, the graph loops they start, the checkpoint these share and the   *)
(* session memory every request reads first and writes last.               *)
(*                                                                         *)
(* AgentGraph models what a loop does in detail.  Here a loop plans, waits *)
(* for the review of its plan or executes it, and ends; plan review is on  *)
(* and every plan needs one.  An await is a point between two actions.     *)
(*                                                                         *)
(* The lock may expire at any time: it lasts 120 seconds, a run may last   *)
(* 300, an approved plan any time.                                         *)
(*                                                                         *)
(* A definition whose comment says "faulty variant" is not the code: it is *)
(* what the definition after it would be with a plausible bug, kept to     *)
(* show that a property tells the two apart.                               *)
(***************************************************************************)
EXTENDS Naturals

CONSTANTS
  Callers,   \* requests, each made at most once
  NoCaller,  \* the lock is free
  Parallel,  \* the plans whose first step is in a parallel group
  MaxPlans   \* bound: plans the loops make

ASSUME SessionAccessAssumption ==
  /\ NoCaller \notin Callers
  /\ Parallel \subseteq Nat
  /\ MaxPlans \in Nat

VARIABLES
  lock,        \* session:<id>:lock
  saved,       \* the latest checkpoint of the thread
  memory,      \* the session memory: whose entries it holds
  call,        \* the requests
  loop,        \* the graph loop each request started
  plans,       \* plans made so far; they are numbered from 1
  approved,    \* history: the plans that were pending when approve looked
  overstayed,  \* history: who worked on when its lock was gone
  kept         \* history: whose entry was written, unless unreadable since

vars == <<lock, saved, memory, call, loop, plans, approved, overstayed, kept>>

(***************************************************************************)
(* What a checkpoint says of a run; plan 0 is no plan.  A review request   *)
(* is always about a plan, so "Session has an empty plan." is never said.  *)
(* In phase "execute" the first step is next: the tool and parameters in   *)
(* the channels are those of the plan first.  In phase "steps" what is     *)
(* next comes from the plan channel: a group, or the steps after the first. *)
(***************************************************************************)
State == {st \in [phase  : {"none", "plan", "review", "execute", "steps",
                            "failed", "ended"},
                  plan   : 0..MaxPlans,
                  first  : 0..MaxPlans,
                  review : BOOLEAN] : st.review => st.plan # 0}

(* stream is a run whose answer comes in pieces: it has no cache and no    *)
(* timeout, but its client may go away.                                    *)
Ops == {"run", "approve", "reject", "replan"}

(* Where a request is, the plan approve has read and the memory it loaded. *)
Call == [op   : Ops,
         pc   : {"idle", "asked", "locked", "loaded", "updated", "looping",
                 "persisting", "releasing", "done"},
         seen : 0..MaxPlans,
         mem  : SUBSET Callers]

Loop == [on : BOOLEAN, st : State]

NewRun == [phase |-> "plan", plan |-> 0, first |-> 0, review |-> FALSE]

At(c, pc) == call[c].pc = pc

Asking(op, pc, seen, mem) ==
  [op |-> op, pc |-> pc, seen |-> seen, mem |-> mem]

GoTo(c, pc) == call' = [call EXCEPT ![c].pc = pc]

(* A request that is over, and a loop that is. *)
Gone == Asking("run", "done", 0, {})

Off == [on |-> FALSE, st |-> NewRun]

Leave(c) == call' = [call EXCEPT ![c] = Gone]

-----------------------------------------------------------------------------
(* Requests. *)

(* approve, reject and replan look at the checkpoint before any lock. *)
ReadReview(c, op) ==
  /\ At(c, "idle")
  /\ op \in {"approve", "reject", "replan"}
  /\ IF saved.review
     THEN IF op = "approve"
          THEN /\ call' = [call EXCEPT
                             ![c] = Asking(op, "asked", saved.plan, {})]
               /\ approved' = approved \cup {saved.plan}
          ELSE /\ call' = [call EXCEPT ![c] = Asking(op, "asked", 0, {})]
               /\ UNCHANGED approved
     ELSE /\ Leave(c)
          /\ UNCHANGED approved
  /\ UNCHANGED <<lock, saved, memory, loop, plans, overstayed, kept>>

WantsLock(c, op) ==
  \/ At(c, "idle") /\ op = "run"
  \/ At(c, "asked") /\ op = call[c].op /\ op \in {"approve", "replan"}

(* Faulty variant: SET without NX. *)
AcquireAnyway(c, op) ==
  /\ WantsLock(c, op)
  /\ lock' = c
  /\ call' = [call EXCEPT ![c] = Asking(op, "locked", call[c].seen, {})]
  /\ UNCHANGED <<saved, memory, loop, plans, approved, overstayed,
                 kept>>

(* SET NX EX.  A request that finds the lock taken is refused (409), and   *)
(* one whose reply is lost leaves a lock behind that nobody will release.  *)
Acquire(c, op) ==
  /\ WantsLock(c, op)
  /\ \/ /\ lock = NoCaller
        /\ lock' = c
        /\ call' = [call EXCEPT ![c] = Asking(op, "locked", call[c].seen, {})]
     \/ /\ lock = NoCaller
        /\ lock' = c
        /\ Leave(c)
     \/ /\ lock # NoCaller
        /\ UNCHANGED lock
        /\ Leave(c)
  /\ UNCHANGED <<saved, memory, loop, plans, approved, overstayed,
                 kept>>

(* tryLoad.  A failure to read counts as an empty memory: what was kept so *)
(* far is promised to nobody any more.                                     *)
LoadMemory(c) ==
  /\ At(c, "locked")
  /\ \/ /\ call' = [call EXCEPT ![c].pc = "loaded", ![c].mem = memory]
        /\ UNCHANGED kept
     \/ /\ call' = [call EXCEPT ![c].pc = "loaded", ![c].mem = {}]
        /\ kept' = {}
  /\ UNCHANGED <<lock, saved, memory, loop, plans, approved, overstayed>>

(* A call of Redis throws before the graph is started: finally releases.   *)
Fail(c) ==
  /\ call[c].pc \in {"loaded", "updated"}
  /\ GoTo(c, "releasing")
  /\ UNCHANGED <<lock, saved, memory, loop, plans, approved, overstayed, kept>>

(* run answers a prompt it has answered before from the cache. *)
AnswerFromCache(c) ==
  /\ At(c, "loaded") /\ call[c].op = "run"
  /\ GoTo(c, "releasing")
  /\ UNCHANGED <<lock, saved, memory, loop, plans, approved, overstayed, kept>>

(* invoke or stream with a new input: the input is checkpointed. *)
BeginRun(c) ==
  /\ At(c, "loaded") /\ call[c].op = "run"
  /\ saved' = NewRun
  /\ loop' = [loop EXCEPT ![c] = [on |-> TRUE, st |-> NewRun]]
  /\ GoTo(c, "looping")
  /\ UNCHANGED <<lock, memory, plans, approved, overstayed, kept>>

(* Faulty variant: the request for the dropped plan stays pending. *)
ReplanKeepingRequest == [saved EXCEPT !.phase = "plan", !.plan = 0]

Replanned == [saved EXCEPT !.phase = "plan", !.plan = 0, !.review = FALSE]

(* The first step is that of the plan which was read before the lock: its  *)
(* tool and parameters, or the parallel executor when it is in a group.    *)
(* The plan channel keeps the plan of the latest checkpoint.               *)
Approved(seen) ==
  IF seen \in Parallel
  THEN [saved EXCEPT !.phase = "steps", !.review = FALSE]
  ELSE [saved EXCEPT !.phase = "execute", !.first = seen, !.review = FALSE]

(* updateState works on the latest checkpoint.                             *)
Update(c) ==
  /\ At(c, "loaded") /\ call[c].op \in {"approve", "replan"}
  /\ saved' = IF call[c].op = "approve" THEN Approved(call[c].seen)
              ELSE Replanned
  /\ GoTo(c, "updated")
  /\ UNCHANGED <<lock, memory, loop, plans, approved, overstayed,
                 kept>>

(* reject takes no lock. *)
Reject(c) ==
  /\ At(c, "asked") /\ call[c].op = "reject"
  /\ saved' = [saved EXCEPT !.phase = "failed"]
  /\ Leave(c)
  /\ UNCHANGED <<lock, memory, loop, plans, approved, overstayed,
                 kept>>

(* invoke(null) continues from the latest checkpoint. *)
Resume(c) ==
  /\ At(c, "updated")
  /\ loop' = [loop EXCEPT ![c] = [on |-> TRUE, st |-> saved]]
  /\ GoTo(c, "looping")
  /\ UNCHANGED <<lock, saved, memory, plans, approved, overstayed,
                 kept>>

(* run gives up on its graph, which nothing stops. *)
GraphTimeout(c) ==
  /\ At(c, "looping") /\ call[c].op = "run" /\ loop[c].on
  /\ GoTo(c, "releasing")
  /\ overstayed' = overstayed \cup {c}
  /\ UNCHANGED <<lock, saved, memory, loop, plans, approved, kept>>

(* The client of a stream goes away: the generator is returned, and with it *)
(* the stream of the graph, whose step under way may still go on.          *)
Disconnect(c) ==
  /\ At(c, "looping") /\ call[c].op = "run" /\ loop[c].on
  /\ GoTo(c, "releasing")
  /\ \/ /\ loop' = [loop EXCEPT ![c] = Off]
        /\ UNCHANGED overstayed
     \/ /\ overstayed' = overstayed \cup {c}
        /\ UNCHANGED loop
  /\ UNCHANGED <<lock, saved, memory, plans, approved, kept>>

(* Faulty variant: the lock is released before the memory is written. *)
FinishReleasingFirst(c) ==
  /\ At(c, "looping") /\ ~loop[c].on
  /\ GoTo(c, "persisting")
  /\ lock' = IF lock = c THEN NoCaller ELSE lock
  /\ UNCHANGED <<saved, memory, loop, plans, approved, overstayed,
                 kept>>

(* The loop is over.  A run without an answer, or one that threw, leaves   *)
(* no entry in the memory.                                                 *)
Finish(c) ==
  /\ At(c, "looping") /\ ~loop[c].on
  /\ GoTo(c, "persisting") \/ GoTo(c, "releasing")
  /\ UNCHANGED <<lock, saved, memory, loop, plans, approved, overstayed, kept>>

(* persist merges the new entry with the memory loaded at the start; a     *)
(* failure to write is swallowed.                                          *)
PersistMemory(c) ==
  /\ At(c, "persisting")
  /\ GoTo(c, "releasing")
  /\ \/ /\ memory' = call[c].mem \cup {c}
        /\ kept' = kept \cup {c}
     \/ UNCHANGED <<memory, kept>>
  /\ UNCHANGED <<lock, saved, loop, plans, approved, overstayed>>

(* Faulty variant: DEL without comparing the value. *)
ReleaseBlindly(c) ==
  /\ At(c, "releasing")
  /\ lock' = NoCaller
  /\ Leave(c)
  /\ UNCHANGED <<saved, memory, loop, plans, approved, overstayed,
                 kept>>

(* Compare and delete; a failure is logged and leaves the lock to expire.  *)
Release(c) ==
  /\ At(c, "releasing")
  /\ \/ lock' = IF lock = c THEN NoCaller ELSE lock
     \/ UNCHANGED lock
  /\ Leave(c)
  /\ UNCHANGED <<saved, memory, loop, plans, approved, overstayed,
                 kept>>

-----------------------------------------------------------------------------
(* Loops: every step ends with a checkpoint. *)

(* The loop goes on with the checkpointed state, or it is over. *)
Continue(c, st) ==
  /\ loop' = [loop EXCEPT ![c].st = st]
  /\ saved' = st

Stop(c, st) ==
  /\ loop' = [loop EXCEPT ![c] = Off]
  /\ saved' = st

(* The loop makes a plan and pauses for its review, or needs none (chat, a *)
(* failure).                                                               *)
LoopPlans(c) ==
  /\ loop[c].on /\ loop[c].st.phase = "plan"
  /\ \/ /\ plans < MaxPlans
        /\ plans' = plans + 1
        /\ Stop(c, [phase |-> "review", plan |-> plans + 1,
                    first |-> 0, review |-> TRUE])
     \/ /\ Stop(c, [loop[c].st EXCEPT !.phase = "ended"])
        /\ UNCHANGED plans
  /\ UNCHANGED <<lock, memory, call, approved, overstayed, kept>>

(* The tool that approve has chosen is run as the first step, and may be   *)
(* tried again.  Then come the other steps of the plan in the channel, or  *)
(* there are none and the run ends, or the critic asks for another plan.   *)
LoopExecutes(c) ==
  /\ loop[c].on /\ loop[c].st.phase = "execute"
  /\ LET ran == [loop[c].st EXCEPT !.first = 0] IN
     \/ Continue(c, loop[c].st)
     \/ /\ ran.plan # 0
        /\ Continue(c, [ran EXCEPT !.phase = "steps"])
     \/ Continue(c, [ran EXCEPT !.phase = "plan"])
     \/ Stop(c, [ran EXCEPT !.phase = "ended"])
  /\ UNCHANGED <<lock, memory, call, plans, approved, overstayed, kept>>

(* Steps of the plan in the loop's own state are run. *)
LoopRunsSteps(c) ==
  /\ loop[c].on /\ loop[c].st.phase = "steps"
  /\ \/ Continue(c, loop[c].st)
     \/ Continue(c, [loop[c].st EXCEPT !.phase = "plan"])
     \/ Stop(c, [loop[c].st EXCEPT !.phase = "ended"])
  /\ UNCHANGED <<lock, memory, call, plans, approved, overstayed, kept>>

(* A loop resumed where there is nothing to execute or plan. *)
LoopEnds(c) ==
  /\ loop[c].on /\ loop[c].st.phase \notin {"plan", "execute", "steps"}
  /\ \/ Stop(c, [loop[c].st EXCEPT !.phase = "ended"])
     \/ /\ loop' = [loop EXCEPT ![c] = Off]
        /\ UNCHANGED saved
  /\ UNCHANGED <<lock, memory, call, plans, approved, overstayed,
                 kept>>

(* The loop throws: no checkpoint could be written, or the recursion limit. *)
LoopThrows(c) ==
  /\ loop[c].on
  /\ loop' = [loop EXCEPT ![c] = Off]
  /\ UNCHANGED <<lock, saved, memory, call, plans, approved, overstayed, kept>>

-----------------------------------------------------------------------------
(* The lock's time is over, whatever its holder does. *)

Working(c) ==
  \/ loop[c].on
  \/ call[c].pc \in {"locked", "loaded", "updated", "looping", "persisting"}

Expire ==
  /\ lock # NoCaller
  /\ lock' = NoCaller
  /\ overstayed' = overstayed \cup {c \in Callers : lock = c /\ Working(c)}
  /\ UNCHANGED <<saved, memory, call, loop, plans, approved, kept>>

(* The process stops and is started again; Redis keeps what it has. *)
Restart ==
  /\ \E c \in Callers : Working(c) \/ At(c, "asked") \/ At(c, "releasing")
  /\ call' = [c \in Callers |->
                IF At(c, "idle") THEN call[c]
                ELSE Gone]
  /\ loop' = [c \in Callers |-> Off]
  /\ UNCHANGED <<lock, saved, memory, plans, approved, overstayed,
                 kept>>

Init ==
  /\ lock = NoCaller
  /\ saved = [phase |-> "none", plan |-> 0, first |-> 0, review |-> FALSE]
  /\ memory = {}
  /\ call = [c \in Callers |-> Asking("run", "idle", 0, {})]
  /\ loop = [c \in Callers |-> Off]
  /\ plans = 0
  /\ approved = {}
  /\ overstayed = {}
  /\ kept = {}

Request(c) ==
  \/ \E op \in Ops : ReadReview(c, op) \/ Acquire(c, op)
  \/ LoadMemory(c) \/ AnswerFromCache(c) \/ BeginRun(c)
  \/ Update(c) \/ Reject(c) \/ Resume(c)
  \/ Fail(c) \/ GraphTimeout(c) \/ Disconnect(c)
  \/ Finish(c) \/ PersistMemory(c) \/ Release(c)

LoopStep(c) ==
  \/ LoopPlans(c) \/ LoopExecutes(c) \/ LoopRunsSteps(c)
  \/ LoopEnds(c) \/ LoopThrows(c)

Next ==
  \/ \E c \in Callers : Request(c) \/ LoopStep(c)
  \/ Expire
  \/ Restart

Spec == Init /\ [][Next]_vars

-----------------------------------------------------------------------------
(* Properties. *)

(* Requests, loops and checkpoints keep their types; a pending review is   *)
(* about a plan (plan-review.service.ts checks for an empty one).          *)
TypeOK ==
  /\ lock \in Callers \cup {NoCaller}
  /\ saved \in State
  /\ memory \in SUBSET Callers
  /\ call \in [Callers -> Call]
  /\ loop \in [Callers -> Loop]
  /\ plans \in 0..MaxPlans
  /\ approved \in SUBSET (0..MaxPlans)
  /\ overstayed \in SUBSET Callers
  /\ kept \in SUBSET Callers

(* Two requests work on the session at a time only if one of them had lost *)
(* its lock, by the lock's expiry or by leaving its graph running.         *)
WorksAlone ==
  \A c, d \in Callers :
    c # d /\ Working(c) /\ Working(d) => c \in overstayed \/ d \in overstayed

(* A request loses its lock by its own release or by expiry, never by the  *)
(* late release of a request whose lock had expired before.                *)
OwnLockOnly ==
  [][\A c \in Callers :
       lock = c /\ lock' # c =>
         At(c, "releasing") \/ c \in overstayed' \/ ~Working(c)]_vars

(* The read at the start of a request and the write at its end lose no     *)
(* entry of another request, as long as every request keeps its lock.      *)
EntriesSurvive == overstayed = {} => kept \subseteq memory

(* SESSION_LOCK_TTL "prevents concurrent mutations on same session".       *)
OneLoopAtATime ==
  \A c, d \in Callers : loop[c].on /\ loop[d].on => c = d

(* REQUIRE_PLAN_REVIEW pauses "for human plan approval before execution":  *)
(* the steps of a plan are run only if it was the one pending when approve *)
(* looked, as long as every request keeps its lock.                        *)
OnlyApprovedPlansRun ==
  overstayed = {} =>
    \A c \in Callers :
      loop[c].on /\ loop[c].st.phase = "steps" /\ loop[c].st.plan # 0 =>
        loop[c].st.plan \in approved
=============================================================================
