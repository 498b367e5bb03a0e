-------------------------- MODULE LlmCalls_proofs --------------------------
(***************************************************************************)
(* Proofs about the model calls, for any sessions, callers, timings and    *)
(* thresholds: the breakers keep their types, count only failures of their *)
(* own scope, and are not swept away while they are open.                  *)
(***************************************************************************)
EXTENDS LlmCalls, TLAPS

(* Why the sweep spares an open breaker: it was used when it opened, and   *)
(* has been open for less than Cooldown, which is at most Cleanup.         *)
OpenIsRecent ==
  \A x \in Sessions :
    breaker[x].cooldown > 0 => breaker[x].idle <= Cooldown - breaker[x].cooldown

IInv == TypeOK /\ TripsOnOwnFailures /\ OpenIsRecent

(* What an access to the breaker of x makes of every breaker: nothing new  *)
(* is counted, and an open one stays as it is.                             *)
LEMMA TouchedFacts ==
  ASSUME IInv, NEW x \in Scopes
  PROVE  LET bs == Touched(breaker, x) IN
         /\ bs \in [Scopes -> Breaker]
         /\ \A y \in Scopes :
              /\ bs[y].failures <= breaker[y].failures
              /\ breaker[y].cooldown > 0 =>
                   /\ bs[y].failures = breaker[y].failures
                   /\ bs[y].cooldown = breaker[y].cooldown
              /\ y \in Sessions /\ bs[y].cooldown > 0 =>
                   bs[y].idle <= Cooldown - bs[y].cooldown
         /\ x \in Sessions => bs[x].idle = 0
<1> USE LlmCallsAssumption
<1> DEFINE sw == Swept(breaker)
<1>1. /\ breaker \in [Scopes -> Breaker]
      /\ \A y \in Scopes : /\ breaker[y] \in Breaker
                           /\ breaker[y].failures \in 0..Threshold
                           /\ breaker[y].cooldown \in 0..Cooldown
                           /\ breaker[y].idle \in 0..(Cleanup + 1)
  BY DEF IInv, TypeOK, Breaker
<1>2. Fresh \in Breaker
  BY DEF Fresh, Breaker
<1>3. /\ sw \in [Scopes -> Breaker]
      /\ \A y \in Scopes : sw[y] = breaker[y] \/
           (y # NoSession /\ breaker[y].idle > Cleanup /\ sw[y] = Fresh)
  BY <1>1, <1>2 DEF Swept
<1>4. \A y \in Scopes : y # NoSession /\ breaker[y].idle > Cleanup =>
        breaker[y].cooldown = 0
  BY <1>1 DEF IInv, OpenIsRecent, Scopes
<1>5. \A y \in Scopes :
        /\ sw[y] \in Breaker
        /\ sw[y].failures <= breaker[y].failures
        /\ breaker[y].cooldown > 0 => /\ sw[y].failures = breaker[y].failures
                                      /\ sw[y].cooldown = breaker[y].cooldown
        /\ y \in Sessions /\ sw[y].cooldown > 0 =>
             sw[y].idle <= Cooldown - sw[y].cooldown
  <2> TAKE y \in Scopes
  <2>1. CASE sw[y] = breaker[y]
    BY <1>1, <2>1 DEF IInv, OpenIsRecent
  <2>2. CASE y # NoSession /\ breaker[y].idle > Cleanup /\ sw[y] = Fresh
    BY <1>1, <1>2, <1>4, <2>2 DEF Fresh
  <2> QED BY <1>3, <2>1, <2>2
<1> DEFINE bs == Touched(breaker, x)
<1>6. bs = [sw EXCEPT ![x] = [sw[x] EXCEPT
                                !.idle = IF x = NoSession THEN @ ELSE 0]]
  BY DEF Touched
<1>7. \A y \in Scopes : y # x => bs[y] = sw[y]
  BY <1>3, <1>6
<1>8. bs[x] = [sw[x] EXCEPT !.idle = IF x = NoSession THEN @ ELSE 0]
  BY <1>3, <1>6
<1>9. /\ bs[x] \in Breaker
      /\ bs[x].failures = sw[x].failures
      /\ bs[x].cooldown = sw[x].cooldown
      /\ x \in Sessions => bs[x].idle = 0
  BY <1>5, <1>8 DEF Breaker
<1>10. bs \in [Scopes -> Breaker]
  BY <1>3, <1>6, <1>8, <1>9
<1>11. \A y \in Scopes :
         /\ bs[y].failures <= breaker[y].failures
         /\ breaker[y].cooldown > 0 => /\ bs[y].failures = breaker[y].failures
                                       /\ bs[y].cooldown = breaker[y].cooldown
         /\ y \in Sessions /\ bs[y].cooldown > 0 =>
              bs[y].idle <= Cooldown - bs[y].cooldown
  <2> TAKE y \in Scopes
  <2>1. CASE y = x
    BY <1>5, <1>9, <2>1 DEF Breaker
  <2>2. CASE y # x
    BY <1>5, <1>7, <2>2
  <2> QED BY <2>1, <2>2
<1> QED BY <1>9, <1>10, <1>11
-----------------------------------------------------------------------------
(* What the sweep may do to an open breaker, as a predicate of one step. *)
SparesOpen(x) ==
  IsOpen(breaker[x]) /\ ~IsOpen(breaker'[x]) =>
    breaker'[x].failures = Threshold \/ streak'[x] = 0

(* The part of the invariant that is about the breakers. *)
BreakersOK ==
  /\ breaker \in [Scopes -> Breaker]
  /\ sinceCleanup \in 0..Cleanup
  /\ streak \in [Scopes -> 0..Threshold]
  /\ TripsOnOwnFailures
  /\ OpenIsRecent

LEMMA CleanupTimerType ==
  ASSUME IInv, CleanupTimer
  PROVE  sinceCleanup' \in 0..Cleanup
BY LlmCallsAssumption DEF IInv, TypeOK, CleanupTimer

(* A call that is let in or refused only touches its breaker. *)
LEMMA TouchStep ==
  ASSUME IInv, NEW x \in Scopes, breaker' = Touched(breaker, x),
         CleanupTimer, UNCHANGED streak
  PROVE  BreakersOK' /\ \A y \in Scopes : SparesOpen(y)
<1> USE LlmCallsAssumption
<1>1. streak \in [Scopes -> 0..Threshold] /\ breaker \in [Scopes -> Breaker]
  BY DEF IInv, TypeOK
<1>2. breaker' \in [Scopes -> Breaker] /\ sinceCleanup' \in 0..Cleanup
  BY TouchedFacts, CleanupTimerType
<1>3. TripsOnOwnFailures'
  <2> SUFFICES ASSUME NEW y \in Scopes
               PROVE  breaker'[y].failures <= streak[y]
    BY DEF TripsOnOwnFailures
  <2>1. breaker'[y].failures <= breaker[y].failures
    BY TouchedFacts
  <2>2. breaker[y].failures <= streak[y]
    BY DEF IInv, TripsOnOwnFailures
  <2> QED BY <1>1, <1>2, <2>1, <2>2 DEF Breaker
<1>4. OpenIsRecent'
  BY TouchedFacts DEF OpenIsRecent, Scopes
<1>5. \A y \in Scopes : SparesOpen(y)
  BY TouchedFacts DEF SparesOpen, IsOpen
<1> QED BY <1>1, <1>2, <1>3, <1>4, <1>5 DEF BreakersOK

LEMMA FailedFacts ==
  ASSUME NEW b \in Breaker
  PROVE  /\ Failed(b) \in Breaker
         /\ Failed(b).failures = LeastOf(b.failures + 1, Threshold)
         /\ Failed(b).cooldown = IF Failed(b).failures = Threshold
                                 THEN Cooldown ELSE b.cooldown
         /\ Failed(b).idle = b.idle
BY LlmCallsAssumption DEF Failed, LeastOf, Breaker

LEMMA SuccessStep ==
  ASSUME IInv, NEW x \in Scopes, RecordSuccess(x)
  PROVE  BreakersOK' /\ \A y \in Scopes : SparesOpen(y)
<1> USE LlmCallsAssumption
<1> DEFINE bs == Touched(breaker, x)
<1>1. streak \in [Scopes -> 0..Threshold] /\ breaker \in [Scopes -> Breaker]
  BY DEF IInv, TypeOK
<1>2. bs \in [Scopes -> Breaker]
  BY TouchedFacts
<1> DEFINE good == Reset(bs[x])
<1>3. /\ breaker' = [bs EXCEPT ![x] = good]
      /\ streak' = [streak EXCEPT ![x] = 0]
  BY <1>2 DEF RecordSuccess
<1>a. bs[x] \in Breaker
  BY <1>2
<1>b. good \in Breaker /\ good.failures = 0 /\ good.cooldown = 0
  BY <1>a DEF Reset, Breaker
<1>c. sinceCleanup' \in 0..Cleanup
  BY CleanupTimerType DEF RecordSuccess
<1> HIDE DEF good
<1>4. /\ breaker' \in [Scopes -> Breaker]
      /\ sinceCleanup' \in 0..Cleanup
      /\ streak' \in [Scopes -> 0..Threshold]
  BY <1>1, <1>2, <1>3, <1>b, <1>c
<1>5. ASSUME NEW y \in Scopes
      PROVE  /\ breaker'[y].failures <= streak'[y]
             /\ y \in Sessions /\ breaker'[y].cooldown > 0 =>
                  breaker'[y].idle <= Cooldown - breaker'[y].cooldown
             /\ SparesOpen(y)
  <2>1. CASE y = x
    <3>1. breaker'[y] = good /\ streak'[y] = 0
      BY <1>1, <1>2, <1>3, <2>1
    <3> QED BY <1>b, <3>1 DEF SparesOpen
  <2>2. CASE y # x
    <3>1. breaker'[y] = bs[y] /\ streak'[y] = streak[y]
      BY <1>1, <1>2, <1>3, <2>2
    <3>2. breaker[y].failures <= streak[y]
      BY DEF IInv, TripsOnOwnFailures
    <3>3. bs[y].failures <= breaker[y].failures
      BY TouchedFacts
    <3>4. SparesOpen(y)
      BY <3>1, TouchedFacts DEF SparesOpen, IsOpen
    <3>5. /\ bs[y].failures \in Int /\ streak[y] \in Int
          /\ breaker[y].failures \in Int
      BY <1>1, <1>2 DEF Breaker
    <3>6. breaker'[y].failures <= streak'[y]
      BY <3>1, <3>2, <3>3, <3>5
    <3> QED BY <3>1, <3>4, <3>6, TouchedFacts
  <2> QED BY <2>1, <2>2
<1> QED BY <1>4, <1>5 DEF BreakersOK, TripsOnOwnFailures, OpenIsRecent, Scopes

LEMMA FailureStep ==
  ASSUME IInv, NEW x \in Scopes, RecordFailure(x)
  PROVE  BreakersOK' /\ \A y \in Scopes : SparesOpen(y)
<1> USE LlmCallsAssumption
<1> DEFINE bs  == Touched(breaker, x)
           n   == LeastOf(bs[x].failures + 1, Threshold)
           bad == Failed(bs[x])
<1>1. streak \in [Scopes -> 0..Threshold] /\ breaker \in [Scopes -> Breaker]
  BY DEF IInv, TypeOK
<1>2. bs \in [Scopes -> Breaker]
  BY TouchedFacts
<1>3. /\ breaker' = [bs EXCEPT ![x] = bad]
      /\ streak' = [streak EXCEPT ![x] = LeastOf(streak[x] + 1, Threshold)]
  BY <1>1, <1>2 DEF RecordFailure, CountFailure
<1>4. /\ bad \in Breaker
      /\ bad.failures = n
      /\ bad.cooldown = IF n = Threshold THEN Cooldown ELSE bs[x].cooldown
      /\ bad.idle = bs[x].idle
      /\ LeastOf(streak[x] + 1, Threshold) \in 0..Threshold
  <2>1. bs[x] \in Breaker
    BY <1>2
  <2> QED BY <1>1, <2>1, FailedFacts DEF LeastOf
<1>a. sinceCleanup' \in 0..Cleanup
  BY CleanupTimerType DEF RecordFailure
<1> HIDE DEF bad
<1>5. /\ breaker' \in [Scopes -> Breaker]
      /\ sinceCleanup' \in 0..Cleanup
      /\ streak' \in [Scopes -> 0..Threshold]
  BY <1>1, <1>2, <1>3, <1>4, <1>a
<1>6. ASSUME NEW y \in Scopes
      PROVE  /\ breaker'[y].failures <= streak'[y]
             /\ y \in Sessions /\ breaker'[y].cooldown > 0 =>
                  breaker'[y].idle <= Cooldown - breaker'[y].cooldown
             /\ SparesOpen(y)
  <2>1. breaker[y].failures <= streak[y]
    BY DEF IInv, TripsOnOwnFailures
  <2>2. bs[y].failures <= breaker[y].failures
    BY TouchedFacts
  <2>3. /\ bs[y].failures \in 0..Threshold /\ streak[y] \in 0..Threshold
        /\ breaker[y].failures \in 0..Threshold
        /\ bs[y].cooldown \in 0..Cooldown /\ breaker[y].cooldown \in 0..Cooldown
    BY <1>1, <1>2 DEF Breaker
  <2>4. y \in Sessions /\ bs[y].cooldown > 0 =>
          bs[y].idle <= Cooldown - bs[y].cooldown
    BY TouchedFacts
  <2>5. breaker[y].cooldown > 0 => bs[y].failures = breaker[y].failures
                                   /\ bs[y].cooldown = breaker[y].cooldown
    BY TouchedFacts
  <2>6. CASE y = x
    <3>1. /\ breaker'[y].failures = n
          /\ breaker'[y].idle = bs[y].idle
          /\ breaker'[y].cooldown =
               IF n = Threshold THEN Cooldown ELSE bs[x].cooldown
          /\ streak'[y] = LeastOf(streak[x] + 1, Threshold)
      BY <1>1, <1>2, <1>3, <1>4, <2>6
    <3>2. breaker'[y].failures <= streak'[y]
      BY <2>1, <2>2, <2>3, <2>6, <3>1 DEF LeastOf
    <3>3. y \in Sessions => bs[y].idle = 0
      BY <2>6, TouchedFacts
    <3>4. y \in Sessions /\ breaker'[y].cooldown > 0 =>
            breaker'[y].idle <= Cooldown - breaker'[y].cooldown
      BY <2>3, <2>6, <3>1, <3>3
    <3>5. SparesOpen(y)
      BY <2>3, <2>5, <2>6, <3>1 DEF SparesOpen, IsOpen, LeastOf
    <3> QED BY <3>2, <3>4, <3>5
  <2>7. CASE y # x
    <3>1. breaker'[y] = bs[y] /\ streak'[y] = streak[y]
      BY <1>1, <1>2, <1>3, <2>7
    <3>2. SparesOpen(y)
      BY <2>5, <3>1 DEF SparesOpen, IsOpen
    <3>3. breaker'[y].failures <= streak'[y]
      BY <2>1, <2>2, <2>3, <3>1
    <3> QED BY <2>4, <3>1, <3>2, <3>3
  <2> QED BY <2>6, <2>7
<1> QED BY <1>5, <1>6 DEF BreakersOK, TripsOnOwnFailures, OpenIsRecent, Scopes

LEMMA TickStep ==
  ASSUME IInv, Tick
  PROVE  BreakersOK' /\ \A y \in Scopes : SparesOpen(y)
<1> USE LlmCallsAssumption
<1>1. streak \in [Scopes -> 0..Threshold] /\ breaker \in [Scopes -> Breaker]
  BY DEF IInv, TypeOK
<1>2. ASSUME NEW y \in Scopes
      PROVE  /\ breaker'[y] \in Breaker
             /\ breaker'[y].failures = breaker[y].failures
             /\ y \in Sessions /\ breaker'[y].cooldown > 0 =>
                  breaker'[y].idle <= Cooldown - breaker'[y].cooldown
  <2>1. breaker'[y] = [failures |-> breaker[y].failures,
                       cooldown |-> Less(breaker[y].cooldown),
                       idle |-> IF y = NoSession THEN breaker[y].idle
                                ELSE LeastOf(breaker[y].idle + 1, Cleanup + 1)]
    BY <1>1 DEF Tick, Breaker
  <2>2. /\ breaker[y].failures \in 0..Threshold
        /\ breaker[y].cooldown \in 0..Cooldown
        /\ breaker[y].idle \in 0..(Cleanup + 1)
    BY <1>1 DEF Breaker
  <2>3. breaker'[y] \in Breaker
    BY <2>1, <2>2 DEF Breaker, Less, LeastOf
  <2>4. y \in Sessions /\ breaker'[y].cooldown > 0 =>
          breaker'[y].idle <= Cooldown - breaker'[y].cooldown
    BY <2>1, <2>2 DEF IInv, OpenIsRecent, Less, LeastOf
  <2> QED BY <2>1, <2>3, <2>4
<1>3. breaker' = [y \in Scopes |-> breaker'[y]]
  BY DEF Tick
<1>4. breaker' \in [Scopes -> Breaker]
  BY <1>2, <1>3
<1>5. sinceCleanup' \in 0..Cleanup /\ streak' = streak
  <2>1. sinceCleanup \in 0..Cleanup
    BY DEF IInv, TypeOK
  <2>2. sinceCleanup' = LeastOf(sinceCleanup + 1, Cleanup) /\ streak' = streak
    BY DEF Tick
  <2> QED BY <2>1, <2>2 DEF LeastOf
<1> QED BY <1>1, <1>2, <1>4, <1>5
        DEF BreakersOK, TripsOnOwnFailures, OpenIsRecent, SparesOpen, IsOpen,
            IInv, Scopes
-----------------------------------------------------------------------------
(* Types of the calls. *)

LEMMA NoCallType == NoCall \in Call
BY LlmCallsAssumption DEF NoCall, Call, Scopes

LEMMA CallTyped ==
  ASSUME TypeOK, NEW c \in Callers, NEW k \in Call,
         call' = [call EXCEPT ![c] = k]
  PROVE  call' \in [Callers -> Call]
BY DEF TypeOK

(* A step of the calls keeps the invariant and spares open breakers. *)
LEMMA StartStep ==
  ASSUME IInv, NEW c \in Callers, Start(c)
  PROVE  IInv' /\ \A y \in Scopes : SparesOpen(y)
<1> USE LlmCallsAssumption
<1>1. PICK x \in Scopes :
        /\ breaker' = Touched(breaker, x)
        /\ call' = [call EXCEPT ![c] =
                     IF IsOpen(Touched(breaker, x)[x]) THEN NoCall
                     ELSE FirstAttempt(x)]
  BY DEF Start
<1>2. FirstAttempt(x) \in Call
  BY DEF FirstAttempt, Call
<1>3. call' \in [Callers -> Call]
  BY <1>1, <1>2, NoCallType, CallTyped DEF IInv
<1>4. BreakersOK' /\ \A y \in Scopes : SparesOpen(y)
  BY <1>1, TouchStep DEF Start
<1> QED BY <1>3, <1>4 DEF IInv, TypeOK, BreakersOK

(* Steps that leave the breakers alone. *)
LEMMA QuietStep ==
  ASSUME IInv, call' \in [Callers -> Call],
         UNCHANGED <<breaker, sinceCleanup, streak>>
  PROVE  IInv' /\ \A y \in Scopes : SparesOpen(y)
BY DEF IInv, TypeOK, TripsOnOwnFailures, OpenIsRecent, SparesOpen

LEMMA YieldStep ==
  ASSUME IInv, NEW c \in Callers, Yield(c)
  PROVE  IInv' /\ \A y \in Scopes : SparesOpen(y)
<1>1. call[c] \in Call
  BY DEF IInv, TypeOK
<1>2. [call[c] EXCEPT !.yielded = TRUE] \in Call
  BY <1>1 DEF Call
<1>3. call' = [call EXCEPT ![c] = [call[c] EXCEPT !.yielded = TRUE]]
  BY DEF Yield
<1>4. call' \in [Callers -> Call]
  BY <1>2, <1>3, CallTyped DEF IInv
<1> QED BY <1>4, QuietStep DEF Yield

LEMMA SucceedStep ==
  ASSUME IInv, NEW c \in Callers, Succeed(c)
  PROVE  IInv' /\ \A y \in Scopes : SparesOpen(y)
<1>1. call[c] \in Call
  BY DEF IInv, TypeOK
<1>2. call[c].partial \in BOOLEAN /\ call[c].scope \in Scopes
  BY <1>1 DEF Call
<1>3. [NoCall EXCEPT !.garbled = call[c].partial] \in Call
  BY <1>2, NoCallType DEF NoCall, Call
<1>4. call' = [call EXCEPT ![c] = [NoCall EXCEPT !.garbled = call[c].partial]]
  BY DEF Succeed
<1>5. call' \in [Callers -> Call]
  BY <1>3, <1>4, CallTyped DEF IInv
<1>6. BreakersOK' /\ \A y \in Scopes : SparesOpen(y)
  BY <1>2, SuccessStep DEF Succeed
<1> QED BY <1>5, <1>6 DEF IInv, TypeOK, BreakersOK

LEMMA FailAttemptStep ==
  ASSUME IInv, NEW c \in Callers, FailAttempt(c)
  PROVE  IInv' /\ \A y \in Scopes : SparesOpen(y)
<1> USE LlmCallsAssumption
<1>1. call[c] \in Call
  BY DEF IInv, TypeOK
<1>2. call[c].scope \in Scopes /\ call[c].attempt \in 0..MaxRetries
  BY <1>1 DEF Call
<1>3. BreakersOK' /\ \A y \in Scopes : SparesOpen(y)
  BY <1>2, FailureStep DEF FailAttempt
<1>4. CASE call[c].attempt = MaxRetries
  <2>1. call' \in [Callers -> Call]
    BY <1>4, NoCallType, CallTyped DEF FailAttempt, IInv
  <2> QED BY <1>3, <2>1 DEF IInv, TypeOK, BreakersOK
<1>5. CASE call[c].attempt # MaxRetries
  <2>1. PICK d \in Backoffs :
          call' = [call EXCEPT ![c] = NextAttempt(call[c], d)]
    BY <1>5 DEF FailAttempt
  <2>2. call[c].attempt + 1 \in 0..MaxRetries /\ d \in Nat
    BY <1>2, <1>5
  <2>3. (call[c].partial \/ call[c].yielded) \in BOOLEAN
    OBVIOUS
  <2>4. NextAttempt(call[c], d) \in Call
    BY <1>2, <2>2, <2>3 DEF NextAttempt, Retrying, Call
  <2>5. call' \in [Callers -> Call]
    BY <2>1, <2>4, CallTyped DEF IInv
  <2> QED BY <1>3, <2>5 DEF IInv, TypeOK, BreakersOK
<1> QED BY <1>4, <1>5

LEMMA FailFatallyStep ==
  ASSUME IInv, NEW c \in Callers, FailFatally(c)
  PROVE  IInv' /\ \A y \in Scopes : SparesOpen(y)
<1>1. call' \in [Callers -> Call]
  BY NoCallType, CallTyped DEF FailFatally, IInv
<1> QED BY <1>1, QuietStep DEF FailFatally

LEMMA WakeStep ==
  ASSUME IInv, NEW c \in Callers, Wake(c)
  PROVE  IInv' /\ \A y \in Scopes : SparesOpen(y)
<1>1. call[c] \in Call
  BY DEF IInv, TypeOK
<1>2. [call[c] EXCEPT !.pc = "awaiting"] \in Call
  BY <1>1 DEF Call
<1>3. call' = [call EXCEPT ![c] = [call[c] EXCEPT !.pc = "awaiting"]]
  BY DEF Wake
<1>4. call' \in [Callers -> Call]
  BY <1>2, <1>3, CallTyped DEF IInv
<1> QED BY <1>4, QuietStep DEF Wake

LEMMA TickTyped ==
  ASSUME IInv, Tick
  PROVE  call' \in [Callers -> Call]
<1> USE LlmCallsAssumption
<1>1. ASSUME NEW c \in Callers
      PROVE  call'[c] \in Call
  <2> DEFINE k == call[c]
  <2>1. k \in Call
    BY DEF IInv, TypeOK
  <2>2. k.left \in 0..Timeout /\ k.sleep \in Nat
    BY <2>1 DEF Call
  <2>3. Less(k.left) \in 0..Timeout /\ Less(k.sleep) \in Nat
    BY <2>2 DEF Less
  <2>4. [k EXCEPT !.left = Less(k.left), !.sleep = Less(k.sleep)] \in Call
    <3> DEFINE m == [k EXCEPT !.left = Less(k.left)]
    <3>1. m \in Call /\ m.sleep = k.sleep
      BY <2>1, <2>3 DEF Call
    <3>2. [m EXCEPT !.sleep = Less(k.sleep)] \in Call
      <4> HIDE DEF m
      <4> QED BY <2>3, <3>1 DEF Call
    <3>3. [k EXCEPT !.left = Less(k.left), !.sleep = Less(k.sleep)]
            = [m EXCEPT !.sleep = Less(k.sleep)]
      BY Zenon
    <3> QED BY <3>2, <3>3
  <2>5. call'[c] = IF k.pc = "idle" THEN k
                   ELSE [k EXCEPT !.left = Less(k.left),
                                  !.sleep = Less(k.sleep)]
    BY DEF Tick
  <2> QED BY <2>1, <2>4, <2>5
<1>2. call' = [c \in Callers |-> call'[c]]
  BY DEF Tick
<1> QED BY <1>1, <1>2
-----------------------------------------------------------------------------
(* The invariant is inductive, and no step closes an open breaker for want *)
(* of use.                                                                 *)

LEMMA InitInvariant == Init => IInv
<1> SUFFICES ASSUME Init PROVE IInv
  OBVIOUS
<1>1. Fresh \in Breaker
  BY LlmCallsAssumption DEF Fresh, Breaker
<1>2. TypeOK
  BY <1>1, NoCallType, LlmCallsAssumption DEF Init, TypeOK
<1>3. TripsOnOwnFailures /\ OpenIsRecent
  BY DEF Init, TripsOnOwnFailures, OpenIsRecent, Fresh, Scopes
<1> QED BY <1>2, <1>3 DEF IInv

LEMMA StepInvariant ==
  IInv /\ [Next]_vars => IInv' /\ \A y \in Scopes : SparesOpen(y)
<1> SUFFICES ASSUME IInv, [Next]_vars
             PROVE  IInv' /\ \A y \in Scopes : SparesOpen(y)
  OBVIOUS
<1>1. ASSUME NEW c \in Callers, Start(c)
      PROVE  IInv' /\ \A y \in Scopes : SparesOpen(y)
  BY <1>1, StartStep
<1>2. ASSUME NEW c \in Callers, Yield(c)
      PROVE  IInv' /\ \A y \in Scopes : SparesOpen(y)
  BY <1>2, YieldStep
<1>3. ASSUME NEW c \in Callers, Succeed(c)
      PROVE  IInv' /\ \A y \in Scopes : SparesOpen(y)
  BY <1>3, SucceedStep
<1>4. ASSUME NEW c \in Callers, FailAttempt(c)
      PROVE  IInv' /\ \A y \in Scopes : SparesOpen(y)
  BY <1>4, FailAttemptStep
<1>5. ASSUME NEW c \in Callers, FailFatally(c)
      PROVE  IInv' /\ \A y \in Scopes : SparesOpen(y)
  BY <1>5, FailFatallyStep
<1>6. ASSUME NEW c \in Callers, Wake(c)
      PROVE  IInv' /\ \A y \in Scopes : SparesOpen(y)
  BY <1>6, WakeStep
<1>7. CASE Tick
  BY <1>7, TickStep, TickTyped DEF IInv, TypeOK, BreakersOK
<1>8. CASE UNCHANGED vars
  <2>1. call' \in [Callers -> Call]
    BY <1>8 DEF vars, IInv, TypeOK
  <2> QED BY <1>8, <2>1, QuietStep DEF vars
<1> QED BY <1>1, <1>2, <1>3, <1>4, <1>5, <1>6, <1>7, <1>8 DEF Next

(* The inductive invariant of the model calls. *)
THEOREM Invariance == Spec => []IInv
<1>1. IInv /\ [Next]_vars => IInv'
  BY StepInvariant
<1> QED BY <1>1, InitInvariant, PTL DEF Spec

(* Breakers, timers and calls keep their types, so no call makes more      *)
(* attempts than its retries allow (resolveOpts, withRetryAndTimeout).     *)
THEOREM TypeCorrect == Spec => []TypeOK
<1>1. IInv => TypeOK
  BY DEF IInv
<1> QED BY <1>1, Invariance, PTL

(* A scope is refused only for failures of its own calls. *)
THEOREM TripsOnlyOnOwnFailures == Spec => []TripsOnOwnFailures
<1>1. IInv => TripsOnOwnFailures
  BY DEF IInv
<1> QED BY <1>1, Invariance, PTL

(* cleanupStaleBreakers never closes a breaker that is open. *)
THEOREM OpenBreakersAreNotSwept == Spec => SweepSparesOpen
<1> DEFINE Spares ==
      \A x \in Scopes :
        IsOpen(breaker[x]) /\ ~IsOpen(breaker'[x]) =>
          breaker'[x].failures = Threshold \/ streak'[x] = 0
<1>1. IInv /\ [Next]_vars => [Spares]_vars
  BY StepInvariant DEF SparesOpen
<1>2. SweepSparesOpen <=> [][Spares]_vars
  BY DEF SweepSparesOpen
<1> QED BY <1>1, <1>2, Invariance, PTL DEF Spec
=============================================================================
