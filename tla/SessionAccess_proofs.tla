------------------------ MODULE SessionAccess_proofs ------------------------
(***************************************************************************)
(* Proofs about the requests on a session, for any number of requests and  *)
(* of plans: a request that still has its lock works alone, no release     *)
(* takes the lock of another request, and the read of the memory at the    *)
(* start of a request and the write at its end lose nothing.               *)
(***************************************************************************)
EXTENDS SessionAccess, TLAPS

(* A request that works has the lock, unless it is known to have lost it.  *)
WorkNeedsLock ==
  \A c \in Callers : Working(c) => lock = c \/ c \in overstayed

(* A loop has a request that waits for it, unless the request left it.     *)
LoopHasRequest ==
  \A c \in Callers : loop[c].on => At(c, "looping") \/ c \in overstayed

(* From its read to its write a request knows every entry kept so far.     *)
ReadIsCurrent ==
  overstayed = {} =>
    /\ kept \subseteq memory
    /\ \A c \in Callers :
         call[c].pc \in {"loaded", "updated", "looping", "persisting"} =>
           kept \subseteq call[c].mem

IInv == TypeOK /\ WorkNeedsLock /\ LoopHasRequest /\ ReadIsCurrent

-----------------------------------------------------------------------------
(* The types of what requests and loops become. *)

LEMMA GoToType ==
  ASSUME TypeOK, NEW c \in Callers, NEW pc, GoTo(c, pc),
         pc \in {"idle", "asked", "locked", "loaded", "updated", "looping",
                 "persisting", "releasing", "done"}
  PROVE  /\ call' \in [Callers -> Call]
         /\ call'[c].pc = pc
         /\ call'[c].mem = call[c].mem
         /\ \A d \in Callers \ {c} : call'[d] = call[d]
<1>1. call[c] \in Call /\ call \in [Callers -> Call]
  BY DEF TypeOK
<1>2. call' = [call EXCEPT ![c] = [call[c] EXCEPT !.pc = pc]]
  BY DEF GoTo
<1>3. [call[c] EXCEPT !.pc = pc] \in Call
  BY <1>1 DEF Call
<1> QED BY <1>1, <1>2, <1>3 DEF Call

LEMMA AskingType ==
  ASSUME TypeOK, NEW c \in Callers, NEW op \in Ops, NEW pc,
         NEW seen \in 0..MaxPlans, NEW mem \in SUBSET Callers,
         call' = [call EXCEPT ![c] = Asking(op, pc, seen, mem)],
         pc \in {"idle", "asked", "locked", "loaded", "updated", "looping",
                 "persisting", "releasing", "done"}
  PROVE  /\ call' \in [Callers -> Call]
         /\ call'[c].pc = pc
         /\ call'[c].mem = mem
         /\ \A d \in Callers \ {c} : call'[d] = call[d]
<1>1. call \in [Callers -> Call]
  BY DEF TypeOK
<1>2. Asking(op, pc, seen, mem) \in Call
  BY DEF Asking, Call
<1> QED BY <1>1, <1>2 DEF Asking

LEMMA LeaveType ==
  ASSUME TypeOK, NEW c \in Callers, Leave(c)
  PROVE  /\ call' \in [Callers -> Call]
         /\ call'[c].pc = "done"
         /\ \A d \in Callers \ {c} : call'[d] = call[d]
<1>1. call' = [call EXCEPT ![c] = Asking("run", "done", 0, {})]
  BY DEF Leave, Gone
<1>2. "run" \in Ops /\ {} \in SUBSET Callers /\ 0 \in 0..MaxPlans
  BY SessionAccessAssumption DEF Ops
<1> QED BY <1>1, <1>2, AskingType

LEMMA OffType ==
  ASSUME TypeOK, NEW c \in Callers, loop' = [loop EXCEPT ![c] = Off]
  PROVE  /\ loop' \in [Callers -> Loop]
         /\ ~loop'[c].on
         /\ \A d \in Callers \ {c} : loop'[d] = loop[d]
<1>1. NewRun \in State
  BY SessionAccessAssumption DEF NewRun, State
<1>2. Off \in Loop /\ ~Off.on
  BY <1>1 DEF Off, Loop
<1> QED BY <1>2 DEF TypeOK

LEMMA OnType ==
  ASSUME TypeOK, NEW c \in Callers, NEW st \in State,
         loop' = [loop EXCEPT ![c] = [on |-> TRUE, st |-> st]]
  PROVE  /\ loop' \in [Callers -> Loop]
         /\ \A d \in Callers \ {c} : loop'[d] = loop[d]
<1>1. [on |-> TRUE, st |-> st] \in Loop
  BY DEF Loop
<1> QED BY <1>1 DEF TypeOK

LEMMA PhaseType ==
  ASSUME NEW st \in State, NEW phase \in {"none", "plan", "review", "execute",
                                          "steps", "failed", "ended"}
  PROVE  [st EXCEPT !.phase = phase] \in State
BY DEF State

LEMMA ReplannedType ==
  ASSUME TypeOK
  PROVE  Replanned \in State
<1>1. saved \in State
  BY DEF TypeOK
<1> DEFINE unasked   == [saved EXCEPT !.review = FALSE]
           unplanned == [unasked EXCEPT !.plan = 0]
<1>2. unasked \in State /\ ~unasked.review
  BY <1>1 DEF State
<1> HIDE DEF unasked
<1>3. unplanned \in State
  BY <1>2, SessionAccessAssumption DEF State
<1> HIDE DEF unplanned
<1>4. [unplanned EXCEPT !.phase = "plan"] \in State
  BY <1>3, PhaseType
<1>5. Replanned = [unplanned EXCEPT !.phase = "plan"]
  BY <1>1 DEF Replanned, State, unasked, unplanned
<1> QED BY <1>4, <1>5

LEMMA LoopState ==
  ASSUME TypeOK, NEW c \in Callers
  PROVE  loop[c] \in Loop /\ loop[c].st \in State
BY DEF TypeOK, Loop

-----------------------------------------------------------------------------
(* Every action keeps the invariant. *)

LEMMA AnswerFromCacheStep ==
  ASSUME IInv, NEW c \in Callers, AnswerFromCache(c)
  PROVE  IInv'
<1> USE SessionAccessAssumption DEF IInv
<1>1. /\ call' \in [Callers -> Call]
      /\ call'[c].pc = "releasing"
      /\ call'[c].mem = call[c].mem
      /\ \A d \in Callers \ {c} : call'[d] = call[d]
  BY GoToType DEF AnswerFromCache
<1>a. TypeOK'
  BY <1>1 DEF AnswerFromCache, TypeOK
<1>b. WorkNeedsLock'
  BY <1>1
  DEF AnswerFromCache, TypeOK, WorkNeedsLock, LoopHasRequest, Working, At
<1>c. LoopHasRequest'
  BY <1>1 DEF AnswerFromCache, TypeOK, LoopHasRequest, At
<1>d. ReadIsCurrent'
  BY <1>1
  DEF AnswerFromCache, TypeOK, ReadIsCurrent, WorkNeedsLock, Working, At
<1> QED BY <1>a, <1>b, <1>c, <1>d

LEMMA FailStep ==
  ASSUME IInv, NEW c \in Callers, Fail(c)
  PROVE  IInv'
<1> USE SessionAccessAssumption DEF IInv
<1>1. /\ call' \in [Callers -> Call]
      /\ call'[c].pc = "releasing"
      /\ call'[c].mem = call[c].mem
      /\ \A d \in Callers \ {c} : call'[d] = call[d]
  BY GoToType DEF Fail
<1>a. TypeOK'
  BY <1>1 DEF Fail, TypeOK
<1>b. WorkNeedsLock'
  BY <1>1 DEF Fail, TypeOK, WorkNeedsLock, LoopHasRequest, Working, At
<1>c. LoopHasRequest'
  BY <1>1 DEF Fail, TypeOK, LoopHasRequest, At
<1>d. ReadIsCurrent'
  BY <1>1 DEF Fail, TypeOK, ReadIsCurrent, WorkNeedsLock, Working, At
<1> QED BY <1>a, <1>b, <1>c, <1>d

LEMMA GraphTimeoutStep ==
  ASSUME IInv, NEW c \in Callers, GraphTimeout(c)
  PROVE  IInv'
<1> USE SessionAccessAssumption DEF IInv
<1>1. /\ call' \in [Callers -> Call]
      /\ call'[c].pc = "releasing"
      /\ call'[c].mem = call[c].mem
      /\ \A d \in Callers \ {c} : call'[d] = call[d]
  BY GoToType DEF GraphTimeout
<1>a. TypeOK'
  BY <1>1 DEF GraphTimeout, TypeOK
<1>b. WorkNeedsLock'
  BY <1>1 DEF GraphTimeout, TypeOK, WorkNeedsLock, LoopHasRequest, Working, At
<1>c. LoopHasRequest'
  BY <1>1 DEF GraphTimeout, TypeOK, LoopHasRequest, At
<1>d. ReadIsCurrent'
  BY <1>1 DEF GraphTimeout, TypeOK, ReadIsCurrent, WorkNeedsLock, Working, At
<1> QED BY <1>a, <1>b, <1>c, <1>d

LEMMA PersistMemoryStep ==
  ASSUME IInv, NEW c \in Callers, PersistMemory(c)
  PROVE  IInv'
<1> USE SessionAccessAssumption DEF IInv
<1>1. /\ call' \in [Callers -> Call]
      /\ call'[c].pc = "releasing"
      /\ call'[c].mem = call[c].mem
      /\ \A d \in Callers \ {c} : call'[d] = call[d]
  BY GoToType DEF PersistMemory
<1>2. call[c].mem \in SUBSET Callers
  BY DEF TypeOK, Call
<1>a. TypeOK'
  BY <1>1, <1>2 DEF PersistMemory, TypeOK
<1>b. WorkNeedsLock'
  BY <1>1, <1>2
  DEF PersistMemory, TypeOK, WorkNeedsLock, LoopHasRequest, Working, At
<1>c. LoopHasRequest'
  BY <1>1, <1>2 DEF PersistMemory, TypeOK, LoopHasRequest, At
<1>d. ReadIsCurrent'
  BY <1>1, <1>2
  DEF PersistMemory, TypeOK, ReadIsCurrent, WorkNeedsLock, Working, At
<1> QED BY <1>a, <1>b, <1>c, <1>d

LEMMA UpdateStep ==
  ASSUME IInv, NEW c \in Callers, Update(c)
  PROVE  IInv'
<1> USE SessionAccessAssumption DEF IInv
<1>1. /\ call' \in [Callers -> Call]
      /\ call'[c].pc = "updated"
      /\ call'[c].mem = call[c].mem
      /\ \A d \in Callers \ {c} : call'[d] = call[d]
  BY GoToType DEF Update
<1>2. saved' \in State
  <2>1. saved \in State /\ call[c].seen \in 0..MaxPlans
    BY DEF TypeOK, Call
  <2>2. Replanned \in State
    BY ReplannedType
  <2>3. ASSUME NEW seen \in 0..MaxPlans PROVE Approved(seen) \in State
    <3>1. /\ [saved EXCEPT !.phase = "steps", !.review = FALSE] \in State
          /\ [saved EXCEPT !.phase = "execute", !.first = seen,
                           !.review = FALSE] \in State
      BY <2>1 DEF State
    <3> QED BY <3>1 DEF Approved
  <2> QED BY <2>1, <2>2, <2>3 DEF Update
<1>a. TypeOK'
  BY <1>1, <1>2 DEF Update, TypeOK
<1>b. WorkNeedsLock'
  BY <1>1, <1>2 DEF Update, TypeOK, WorkNeedsLock, LoopHasRequest, Working, At
<1>c. LoopHasRequest'
  BY <1>1, <1>2 DEF Update, TypeOK, LoopHasRequest, At
<1>d. ReadIsCurrent'
  BY <1>1, <1>2 DEF Update, TypeOK, ReadIsCurrent, WorkNeedsLock, Working, At
<1> QED BY <1>a, <1>b, <1>c, <1>d

LEMMA RejectStep ==
  ASSUME IInv, NEW c \in Callers, Reject(c)
  PROVE  IInv'
<1> USE SessionAccessAssumption DEF IInv
<1>1. /\ call' \in [Callers -> Call]
      /\ call'[c].pc = "done"
      /\ \A d \in Callers \ {c} : call'[d] = call[d]
  BY LeaveType DEF Reject
<1>2. saved' \in State
  BY PhaseType DEF TypeOK, Reject
<1>a. TypeOK'
  BY <1>1, <1>2 DEF Reject, TypeOK
<1>b. WorkNeedsLock'
  BY <1>1, <1>2 DEF Reject, TypeOK, WorkNeedsLock, LoopHasRequest, Working, At
<1>c. LoopHasRequest'
  BY <1>1, <1>2 DEF Reject, TypeOK, LoopHasRequest, At
<1>d. ReadIsCurrent'
  BY <1>1, <1>2 DEF Reject, TypeOK, ReadIsCurrent, WorkNeedsLock, Working, At
<1> QED BY <1>a, <1>b, <1>c, <1>d

LEMMA BeginRunStep ==
  ASSUME IInv, NEW c \in Callers, BeginRun(c)
  PROVE  IInv'
<1> USE SessionAccessAssumption DEF IInv
<1>1. /\ call' \in [Callers -> Call]
      /\ call'[c].pc = "looping"
      /\ call'[c].mem = call[c].mem
      /\ \A d \in Callers \ {c} : call'[d] = call[d]
  BY GoToType DEF BeginRun
<1>2. NewRun \in State
  BY DEF NewRun, State
<1>3. /\ loop' \in [Callers -> Loop]
      /\ \A d \in Callers \ {c} : loop'[d] = loop[d]
  BY <1>2, OnType DEF BeginRun
<1>a. TypeOK'
  BY <1>1, <1>2, <1>3 DEF BeginRun, TypeOK
<1>b. WorkNeedsLock'
  BY <1>1, <1>2, <1>3
  DEF BeginRun, TypeOK, WorkNeedsLock, LoopHasRequest, Working, At
<1>c. LoopHasRequest'
  BY <1>1, <1>2, <1>3 DEF BeginRun, TypeOK, LoopHasRequest, At
<1>d. ReadIsCurrent'
  BY <1>1, <1>2, <1>3
  DEF BeginRun, TypeOK, ReadIsCurrent, WorkNeedsLock, Working, At
<1> QED BY <1>a, <1>b, <1>c, <1>d

LEMMA ResumeStep ==
  ASSUME IInv, NEW c \in Callers, Resume(c)
  PROVE  IInv'
<1> USE SessionAccessAssumption DEF IInv
<1>1. /\ call' \in [Callers -> Call]
      /\ call'[c].pc = "looping"
      /\ call'[c].mem = call[c].mem
      /\ \A d \in Callers \ {c} : call'[d] = call[d]
  BY GoToType DEF Resume
<1>2. saved \in State
  BY DEF TypeOK
<1>3. /\ loop' \in [Callers -> Loop]
      /\ \A d \in Callers \ {c} : loop'[d] = loop[d]
  BY <1>2, OnType DEF Resume
<1>a. TypeOK'
  BY <1>1, <1>2, <1>3 DEF Resume, TypeOK
<1>b. WorkNeedsLock'
  BY <1>1, <1>2, <1>3
  DEF Resume, TypeOK, WorkNeedsLock, LoopHasRequest, Working, At
<1>c. LoopHasRequest'
  BY <1>1, <1>2, <1>3 DEF Resume, TypeOK, LoopHasRequest, At
<1>d. ReadIsCurrent'
  BY <1>1, <1>2, <1>3
  DEF Resume, TypeOK, ReadIsCurrent, WorkNeedsLock, Working, At
<1> QED BY <1>a, <1>b, <1>c, <1>d

LEMMA DisconnectStep ==
  ASSUME IInv, NEW c \in Callers, Disconnect(c)
  PROVE  IInv'
<1> USE SessionAccessAssumption DEF IInv
<1>1. /\ call' \in [Callers -> Call]
      /\ call'[c].pc = "releasing"
      /\ call'[c].mem = call[c].mem
      /\ \A d \in Callers \ {c} : call'[d] = call[d]
  BY GoToType DEF Disconnect
<1>2. \/ /\ loop' \in [Callers -> Loop]
         /\ ~loop'[c].on
         /\ \A d \in Callers \ {c} : loop'[d] = loop[d]
         /\ UNCHANGED overstayed
      \/ /\ overstayed' = overstayed \cup {c}
         /\ UNCHANGED loop
  BY OffType DEF Disconnect
<1>a. TypeOK'
  BY <1>1, <1>2 DEF Disconnect, TypeOK
<1>b. WorkNeedsLock'
  BY <1>1, <1>2
  DEF Disconnect, TypeOK, WorkNeedsLock, LoopHasRequest, Working, At
<1>c. LoopHasRequest'
  BY <1>1, <1>2 DEF Disconnect, TypeOK, LoopHasRequest, At
<1>d. ReadIsCurrent'
  BY <1>1, <1>2
  DEF Disconnect, TypeOK, ReadIsCurrent, WorkNeedsLock, Working, At
<1> QED BY <1>a, <1>b, <1>c, <1>d

LEMMA FinishStep ==
  ASSUME IInv, NEW c \in Callers, Finish(c)
  PROVE  IInv'
<1> USE SessionAccessAssumption DEF IInv
<1>1. /\ call' \in [Callers -> Call]
      /\ call'[c].pc \in {"persisting", "releasing"}
      /\ call'[c].mem = call[c].mem
      /\ \A d \in Callers \ {c} : call'[d] = call[d]
  BY GoToType DEF Finish
<1>a. TypeOK'
  BY <1>1 DEF Finish, TypeOK
<1>b. WorkNeedsLock'
  BY <1>1 DEF Finish, TypeOK, WorkNeedsLock, LoopHasRequest, Working, At
<1>c. LoopHasRequest'
  BY <1>1 DEF Finish, TypeOK, LoopHasRequest, At
<1>d. ReadIsCurrent'
  BY <1>1 DEF Finish, TypeOK, ReadIsCurrent, WorkNeedsLock, Working, At
<1> QED BY <1>a, <1>b, <1>c, <1>d

LEMMA ReleaseStep ==
  ASSUME IInv, NEW c \in Callers, Release(c)
  PROVE  IInv'
<1> USE SessionAccessAssumption DEF IInv
<1>1. /\ call' \in [Callers -> Call]
      /\ call'[c].pc = "done"
      /\ \A d \in Callers \ {c} : call'[d] = call[d]
  BY LeaveType DEF Release
<1>a. TypeOK'
  BY <1>1 DEF Release, TypeOK
<1>b. WorkNeedsLock'
  BY <1>1 DEF Release, TypeOK, WorkNeedsLock, LoopHasRequest, Working, At
<1>c. LoopHasRequest'
  BY <1>1 DEF Release, TypeOK, LoopHasRequest, At
<1>d. ReadIsCurrent'
  BY <1>1 DEF Release, TypeOK, ReadIsCurrent, WorkNeedsLock, Working, At
<1> QED BY <1>a, <1>b, <1>c, <1>d

LEMMA ReadReviewStep ==
  ASSUME IInv, NEW c \in Callers, NEW op \in Ops, ReadReview(c, op)
  PROVE  IInv'
<1> USE SessionAccessAssumption DEF IInv
<1>1. /\ call' \in [Callers -> Call]
      /\ call'[c].pc \in {"asked", "done"}
      /\ \A d \in Callers \ {c} : call'[d] = call[d]
  <2>1. TypeOK /\ {} \in SUBSET Callers
    OBVIOUS
  <2>2. CASE Leave(c)
    BY <2>1, <2>2, LeaveType
  <2>3. ASSUME NEW seen \in {0, saved.plan},
               call' = [call EXCEPT ![c] = Asking(op, "asked", seen, {})]
        PROVE  /\ call' \in [Callers -> Call]
               /\ call'[c].pc = "asked"
               /\ \A d \in Callers \ {c} : call'[d] = call[d]
    <3>1. seen \in 0..MaxPlans
      BY DEF TypeOK, State
    <3> QED BY <2>1, <2>3, <3>1, AskingType
  <2> QED BY <2>2, <2>3 DEF ReadReview
<1>2. saved.plan \in 0..MaxPlans
  BY DEF TypeOK, State
<1>a. TypeOK'
  BY <1>1, <1>2 DEF ReadReview, TypeOK
<1>b. WorkNeedsLock'
  BY <1>1, <1>2
  DEF ReadReview, TypeOK, WorkNeedsLock, LoopHasRequest, Working, At
<1>c. LoopHasRequest'
  BY <1>1, <1>2 DEF ReadReview, TypeOK, LoopHasRequest, At
<1>d. ReadIsCurrent'
  BY <1>1, <1>2
  DEF ReadReview, TypeOK, ReadIsCurrent, WorkNeedsLock, Working, At
<1> QED BY <1>a, <1>b, <1>c, <1>d

LEMMA AcquireStep ==
  ASSUME IInv, NEW c \in Callers, NEW op \in Ops, Acquire(c, op)
  PROVE  IInv'
<1> USE SessionAccessAssumption DEF IInv
<1>1. /\ call' \in [Callers -> Call]
      /\ call'[c].pc \in {"locked", "done"}
      /\ \A d \in Callers \ {c} : call'[d] = call[d]
  <2>1. TypeOK /\ {} \in SUBSET Callers /\ call[c].seen \in 0..MaxPlans
    BY DEF TypeOK, Call
  <2>2. CASE Leave(c)
    BY <2>1, <2>2, LeaveType
  <2>3. CASE call' = [call EXCEPT ![c] =
                        Asking(op, "locked", call[c].seen, {})]
    BY <2>1, <2>3, AskingType
  <2> QED BY <2>2, <2>3 DEF Acquire
<1>2. call'[c].pc = "locked" => lock = NoCaller /\ lock' = c
  BY LeaveType DEF Acquire
<1>3. ~At(c, "looping")
  BY DEF Acquire, WantsLock, At
<1>a. TypeOK'
  BY <1>1, <1>2, <1>3 DEF Acquire, TypeOK, WantsLock
<1>b. WorkNeedsLock'
  BY <1>1, <1>2, <1>3
  DEF Acquire, TypeOK, WorkNeedsLock, LoopHasRequest, Working, At
<1>c. LoopHasRequest'
  BY <1>1, <1>2, <1>3 DEF Acquire, TypeOK, LoopHasRequest, At
<1>d. ReadIsCurrent'
  BY <1>1, <1>2, <1>3
  DEF Acquire, TypeOK, ReadIsCurrent, WorkNeedsLock, Working, At
<1> QED BY <1>a, <1>b, <1>c, <1>d

LEMMA LoadMemoryStep ==
  ASSUME IInv, NEW c \in Callers, LoadMemory(c)
  PROVE  IInv'
<1> USE SessionAccessAssumption DEF IInv
<1>1. /\ call[c] \in Call /\ call \in [Callers -> Call]
      /\ {} \in SUBSET Callers /\ memory \in SUBSET Callers
  BY DEF TypeOK
<1>2. /\ call' \in [Callers -> Call]
      /\ call'[c].pc = "loaded"
      /\ \/ call'[c].mem = memory /\ UNCHANGED kept
         \/ kept' = {}
      /\ \A d \in Callers \ {c} : call'[d] = call[d]
  <2>1. ASSUME NEW mem \in SUBSET Callers,
               call' = [call EXCEPT ![c].pc = "loaded", ![c].mem = mem]
        PROVE  /\ call' \in [Callers -> Call]
               /\ call'[c].pc = "loaded"
               /\ call'[c].mem = mem
               /\ \A d \in Callers \ {c} : call'[d] = call[d]
    <3>1. [[call[c] EXCEPT !.pc = "loaded"] EXCEPT !.mem = mem] \in Call
      BY <1>1 DEF Call
    <3> QED BY <1>1, <2>1, <3>1 DEF Call
  <2> QED BY <1>1, <2>1 DEF LoadMemory
<1>a. TypeOK'
  BY <1>1, <1>2 DEF LoadMemory, TypeOK
<1>b. WorkNeedsLock'
  BY <1>1, <1>2
  DEF LoadMemory, TypeOK, WorkNeedsLock, LoopHasRequest, Working, At
<1>c. LoopHasRequest'
  BY <1>1, <1>2 DEF LoadMemory, TypeOK, LoopHasRequest, At
<1>d. ReadIsCurrent'
  BY <1>1, <1>2
  DEF LoadMemory, TypeOK, ReadIsCurrent, WorkNeedsLock, Working, At
<1> QED BY <1>a, <1>b, <1>c, <1>d

LEMMA LoopPlansStep ==
  ASSUME IInv, NEW c \in Callers, LoopPlans(c)
  PROVE  IInv'
<1> USE SessionAccessAssumption DEF IInv
<1>1. loop[c] \in Loop /\ loop[c].st \in State /\ loop \in [Callers -> Loop]
  BY LoopState DEF TypeOK
<1>2. [loop[c].st EXCEPT !.phase = "ended"] \in State
  BY <1>1, PhaseType
<1>3. plans' = plans + 1 /\ plans < MaxPlans =>
        [phase |-> "review", plan |-> plans + 1, first |-> 0,
         review |-> TRUE] \in State
  BY DEF TypeOK, State
<1>4. /\ loop' \in [Callers -> Loop]
      /\ loop'[c].on => loop[c].on
      /\ \A d \in Callers \ {c} : loop'[d] = loop[d]
      /\ saved' \in State
  BY <1>1, <1>2, <1>3, OffType DEF LoopPlans, Stop
<1>a. TypeOK'
  BY <1>1, <1>2, <1>3, <1>4 DEF LoopPlans, TypeOK
<1>b. WorkNeedsLock'
  BY <1>1, <1>2, <1>3, <1>4
  DEF LoopPlans, TypeOK, WorkNeedsLock, LoopHasRequest, Working, At
<1>c. LoopHasRequest'
  BY <1>1, <1>2, <1>3, <1>4 DEF LoopPlans, TypeOK, LoopHasRequest, At
<1>d. ReadIsCurrent'
  BY <1>1, <1>2, <1>3, <1>4
  DEF LoopPlans, TypeOK, ReadIsCurrent, WorkNeedsLock, Working, At
<1> QED BY <1>a, <1>b, <1>c, <1>d

LEMMA LoopExecutesStep ==
  ASSUME IInv, NEW c \in Callers, LoopExecutes(c)
  PROVE  IInv'
<1> USE SessionAccessAssumption DEF IInv
<1>1. loop[c] \in Loop /\ loop[c].st \in State /\ loop \in [Callers -> Loop]
  BY LoopState DEF TypeOK
<1> DEFINE ran == [loop[c].st EXCEPT !.first = 0]
<1>2. /\ [ran EXCEPT !.phase = "ended"] \in State
      /\ [ran EXCEPT !.phase = "plan"] \in State
      /\ [ran EXCEPT !.phase = "steps"] \in State
  <2>1. ran \in State
    BY <1>1 DEF State
  <2> QED BY <2>1, PhaseType
<1>3. \A st \in State : /\ [loop[c] EXCEPT !.st = st] \in Loop
                        /\ [loop[c] EXCEPT !.st = st].on = loop[c].on
  BY <1>1 DEF Loop
<1>4. /\ loop' \in [Callers -> Loop]
      /\ loop'[c].on => loop[c].on
      /\ \A d \in Callers \ {c} : loop'[d] = loop[d]
      /\ saved' \in State
  BY <1>1, <1>2, <1>3, OffType DEF LoopExecutes, Stop, Continue
<1>5. loop[c].st.plan \in 0..MaxPlans
  BY <1>1 DEF State
<1>a. TypeOK'
  BY <1>1, <1>2, <1>3, <1>4, <1>5 DEF LoopExecutes, TypeOK
<1>b. WorkNeedsLock'
  BY <1>1, <1>2, <1>3, <1>4, <1>5
  DEF LoopExecutes, TypeOK, WorkNeedsLock, LoopHasRequest, Working, At
<1>c. LoopHasRequest'
  BY <1>1, <1>2, <1>3, <1>4, <1>5 DEF LoopExecutes, TypeOK, LoopHasRequest, At
<1>d. ReadIsCurrent'
  BY <1>1, <1>2, <1>3, <1>4, <1>5
  DEF LoopExecutes, TypeOK, ReadIsCurrent, WorkNeedsLock, Working, At
<1> QED BY <1>a, <1>b, <1>c, <1>d

LEMMA LoopRunsStepsStep ==
  ASSUME IInv, NEW c \in Callers, LoopRunsSteps(c)
  PROVE  IInv'
<1> USE SessionAccessAssumption DEF IInv
<1>1. loop[c] \in Loop /\ loop[c].st \in State /\ loop \in [Callers -> Loop]
  BY LoopState DEF TypeOK
<1>2. /\ [loop[c].st EXCEPT !.phase = "ended"] \in State
      /\ [loop[c].st EXCEPT !.phase = "plan"] \in State
  BY <1>1, PhaseType
<1>3. \A st \in State : /\ [loop[c] EXCEPT !.st = st] \in Loop
                        /\ [loop[c] EXCEPT !.st = st].on = loop[c].on
  BY <1>1 DEF Loop
<1>4. /\ loop' \in [Callers -> Loop]
      /\ loop'[c].on => loop[c].on
      /\ \A d \in Callers \ {c} : loop'[d] = loop[d]
      /\ saved' \in State
  BY <1>1, <1>2, <1>3, OffType DEF LoopRunsSteps, Stop, Continue
<1>5. loop[c].st.plan \in 0..MaxPlans
  BY <1>1 DEF State
<1>a. TypeOK'
  BY <1>1, <1>2, <1>3, <1>4, <1>5 DEF LoopRunsSteps, TypeOK
<1>b. WorkNeedsLock'
  BY <1>1, <1>2, <1>3, <1>4, <1>5
  DEF LoopRunsSteps, TypeOK, WorkNeedsLock, LoopHasRequest, Working, At
<1>c. LoopHasRequest'
  BY <1>1, <1>2, <1>3, <1>4, <1>5 DEF LoopRunsSteps, TypeOK, LoopHasRequest, At
<1>d. ReadIsCurrent'
  BY <1>1, <1>2, <1>3, <1>4, <1>5
  DEF LoopRunsSteps, TypeOK, ReadIsCurrent, WorkNeedsLock, Working, At
<1> QED BY <1>a, <1>b, <1>c, <1>d

LEMMA LoopEndsStep ==
  ASSUME IInv, NEW c \in Callers, LoopEnds(c)
  PROVE  IInv'
<1> USE SessionAccessAssumption DEF IInv
<1>1. loop[c] \in Loop /\ loop[c].st \in State /\ loop \in [Callers -> Loop]
  BY LoopState DEF TypeOK
<1>2. [loop[c].st EXCEPT !.phase = "ended"] \in State /\ saved \in State
  BY <1>1, PhaseType DEF TypeOK
<1>3. /\ loop' \in [Callers -> Loop]
      /\ loop'[c].on => loop[c].on
      /\ \A d \in Callers \ {c} : loop'[d] = loop[d]
      /\ saved' \in State
  BY <1>2, OffType DEF LoopEnds, Stop
<1>a. TypeOK'
  BY <1>1, <1>2, <1>3 DEF LoopEnds, TypeOK
<1>b. WorkNeedsLock'
  BY <1>1, <1>2, <1>3
  DEF LoopEnds, TypeOK, WorkNeedsLock, LoopHasRequest, Working, At
<1>c. LoopHasRequest'
  BY <1>1, <1>2, <1>3 DEF LoopEnds, TypeOK, LoopHasRequest, At
<1>d. ReadIsCurrent'
  BY <1>1, <1>2, <1>3
  DEF LoopEnds, TypeOK, ReadIsCurrent, WorkNeedsLock, Working, At
<1> QED BY <1>a, <1>b, <1>c, <1>d

LEMMA LoopThrowsStep ==
  ASSUME IInv, NEW c \in Callers, LoopThrows(c)
  PROVE  IInv'
<1> USE SessionAccessAssumption DEF IInv
<1>1. loop[c] \in Loop /\ loop[c].st \in State /\ loop \in [Callers -> Loop]
  BY LoopState DEF TypeOK
<1>2. saved' \in State
  BY DEF TypeOK, LoopThrows
<1>3. /\ loop' \in [Callers -> Loop]
      /\ loop'[c].on => loop[c].on
      /\ \A d \in Callers \ {c} : loop'[d] = loop[d]
      /\ saved' \in State
  BY <1>2, OffType DEF LoopThrows
<1>a. TypeOK'
  BY <1>1, <1>2, <1>3 DEF LoopThrows, TypeOK
<1>b. WorkNeedsLock'
  BY <1>1, <1>2, <1>3
  DEF LoopThrows, TypeOK, WorkNeedsLock, LoopHasRequest, Working, At
<1>c. LoopHasRequest'
  BY <1>1, <1>2, <1>3 DEF LoopThrows, TypeOK, LoopHasRequest, At
<1>d. ReadIsCurrent'
  BY <1>1, <1>2, <1>3
  DEF LoopThrows, TypeOK, ReadIsCurrent, WorkNeedsLock, Working, At
<1> QED BY <1>a, <1>b, <1>c, <1>d
LEMMA ExpireStep ==
  ASSUME IInv, Expire
  PROVE  IInv'
<1> USE SessionAccessAssumption DEF IInv
<1>1. TypeOK'
  BY DEF Expire, TypeOK
<1>2. WorkNeedsLock'
  BY DEF Expire, TypeOK, WorkNeedsLock, Working
<1>3. LoopHasRequest'
  BY DEF Expire, LoopHasRequest, At
<1>4. ReadIsCurrent'
  BY DEF Expire, TypeOK, ReadIsCurrent
<1> QED BY <1>1, <1>2, <1>3, <1>4

LEMMA RestartStep ==
  ASSUME IInv, Restart
  PROVE  IInv'
<1> USE SessionAccessAssumption DEF IInv
<1>1. NewRun \in State /\ Gone \in Call /\ Gone.pc = "done"
  BY DEF NewRun, State, Gone, Asking, Call, Ops
<1>2. Off \in Loop /\ ~Off.on
  BY <1>1 DEF Off, Loop
<1>3. /\ call' \in [Callers -> Call]
      /\ \A c \in Callers : \/ call'[c].pc = "done"
                            \/ call'[c] = call[c] /\ call[c].pc = "idle"
  BY <1>1 DEF Restart, TypeOK, At
<1>4. loop' \in [Callers -> Loop] /\ \A c \in Callers : ~loop'[c].on
  BY <1>2 DEF Restart
<1>5. TypeOK'
  BY <1>3, <1>4 DEF Restart, TypeOK
<1>6. WorkNeedsLock'
  BY <1>3, <1>4 DEF WorkNeedsLock, Working
<1>7. LoopHasRequest'
  BY <1>4 DEF LoopHasRequest
<1>8. ReadIsCurrent'
  BY <1>3 DEF Restart, ReadIsCurrent
<1> QED BY <1>5, <1>6, <1>7, <1>8

-----------------------------------------------------------------------------
LEMMA InitHolds ==
  ASSUME Init
  PROVE  IInv
<1> USE SessionAccessAssumption DEF Init
<1>1. NewRun \in State /\ saved \in State
  BY DEF NewRun, State
<1>2. Off \in Loop /\ ~Off.on
  BY <1>1 DEF Off, Loop
<1>3. /\ call \in [Callers -> Call]
      /\ \A c \in Callers : call[c].pc = "idle"
  BY DEF Asking, Call, Ops
<1>4. TypeOK
  BY <1>1, <1>2, <1>3 DEF TypeOK
<1>5. \A c \in Callers : ~Working(c) /\ ~loop[c].on
  BY <1>2, <1>3 DEF Working
<1> QED BY <1>3, <1>4, <1>5 DEF IInv, WorkNeedsLock, LoopHasRequest,
                                ReadIsCurrent

LEMMA NextHolds ==
  ASSUME IInv, [Next]_vars
  PROVE  IInv'
<1>1. ASSUME NEW c \in Callers, Request(c) PROVE IInv'
  <2>1. ASSUME NEW op \in Ops, ReadReview(c, op) \/ Acquire(c, op) PROVE IInv'
    BY <2>1, ReadReviewStep, AcquireStep
  <2>2. CASE LoadMemory(c)
    BY <2>2, LoadMemoryStep
  <2>3. CASE AnswerFromCache(c) \/ Fail(c)
    BY <2>3, AnswerFromCacheStep, FailStep
  <2>4. CASE BeginRun(c)
    BY <2>4, BeginRunStep
  <2>5. CASE Update(c) \/ Reject(c) \/ Resume(c)
    BY <2>5, UpdateStep, RejectStep, ResumeStep
  <2>6. CASE GraphTimeout(c) \/ Disconnect(c)
    BY <2>6, GraphTimeoutStep, DisconnectStep
  <2>7. CASE Finish(c) \/ PersistMemory(c) \/ Release(c)
    BY <2>7, FinishStep, PersistMemoryStep, ReleaseStep
  <2> QED BY <1>1, <2>1, <2>2, <2>3, <2>4, <2>5, <2>6, <2>7 DEF Request
<1>2. ASSUME NEW c \in Callers, LoopStep(c) PROVE IInv'
  BY <1>2, LoopPlansStep, LoopExecutesStep, LoopRunsStepsStep, LoopEndsStep,
     LoopThrowsStep
  DEF LoopStep
<1>3. CASE UNCHANGED vars
  BY <1>3 DEF vars, IInv, TypeOK, WorkNeedsLock, LoopHasRequest,
              ReadIsCurrent, Working, At
<1> QED BY <1>1, <1>2, <1>3, ExpireStep, RestartStep DEF Next

(* What every request and every loop keeps true. *)
THEOREM Invariance == Spec => []IInv
BY InitHolds, NextHolds, PTL DEF Spec

(* The requests, loops, checkpoints and histories keep their types, and a  *)
(* pending review is always about a plan.                                  *)
THEOREM TypeCorrect == Spec => []TypeOK
<1>1. IInv => TypeOK
  BY DEF IInv
<1> QED BY <1>1, Invariance, PTL

(* Of two requests that work on the session at the same time, one has lost *)
(* its lock or has left its graph running: SET NX and the compare in the   *)
(* release let nothing else happen.                                        *)
THEOREM LockExcludes == Spec => []WorksAlone
<1>1. IInv => WorksAlone
  BY DEF IInv, WorkNeedsLock, WorksAlone
<1> QED BY <1>1, Invariance, PTL

(* As long as no request loses its lock, the write of the memory at the    *)
(* end of a request, merged with what it read at the start, drops no entry *)
(* that another request wrote.                                             *)
THEOREM MemoryKept == Spec => []EntriesSurvive
<1>1. IInv => EntriesSurvive
  BY DEF IInv, ReadIsCurrent, EntriesSurvive
<1> QED BY <1>1, Invariance, PTL

(* What one step may do to the lock of a request that works with it. *)
LockStays(c) ==
  lock = c /\ lock' # c =>
    At(c, "releasing") \/ c \in overstayed' \/ ~Working(c)

LEMMA LockStep ==
  ASSUME TypeOK, [Next]_vars
  PROVE  \A c \in Callers : LockStays(c)
<1> SUFFICES ASSUME NEW c \in Callers PROVE LockStays(c)
  OBVIOUS
<1> USE SessionAccessAssumption
<1>1. ASSUME NEW d \in Callers, Request(d) PROVE LockStays(c)
  <2>1. ASSUME NEW op \in Ops, Acquire(d, op) PROVE LockStays(c)
    BY <2>1 DEF Acquire, LockStays
  <2>2. CASE Release(d)
    BY <2>2 DEF Release, LockStays
  <2>3. CASE UNCHANGED lock
    BY <2>3 DEF LockStays
  <2> QED
    BY <1>1, <2>1, <2>2, <2>3
    DEF Request, ReadReview, LoadMemory, AnswerFromCache, BeginRun, Fail,
        Update, Reject, Resume, GraphTimeout, Disconnect, Finish,
        PersistMemory
<1>2. ASSUME NEW d \in Callers, LoopStep(d) PROVE LockStays(c)
  BY <1>2 DEF LoopStep, LoopPlans, LoopExecutes, LoopRunsSteps, LoopEnds,
              LoopThrows, LockStays
<1>3. CASE Expire
  BY <1>3 DEF Expire, LockStays
<1>4. CASE Restart \/ UNCHANGED vars
  BY <1>4 DEF Restart, vars, LockStays
<1> QED BY <1>1, <1>2, <1>3, <1>4 DEF Next

(* Nobody takes the lock of a request that works: the release of a request *)
(* whose lock expired and was taken by another leaves it alone.            *)
THEOREM LocksAreNotStolen == Spec => OwnLockOnly
<1>1. TypeOK /\ [Next]_vars =>
        [\A c \in Callers :
           lock = c /\ lock' # c =>
             At(c, "releasing") \/ c \in overstayed' \/ ~Working(c)]_vars
  BY LockStep DEF LockStays
<1> QED BY <1>1, TypeCorrect, PTL DEF Spec, OwnLockOnly
=============================================================================
