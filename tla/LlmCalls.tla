------------------------------ MODULE LlmCalls ------------------------------
(***************************************************************************)
(* The model calls of llm/llm.provider.ts: retry, timeout and the circuit  *)
(* breakers, one for each session and one for the calls that name no       *)
(* session (prompt enhancement, summaries, repairs, tools).                *)
(*                                                                         *)
(* Every entry of the API (invokeLlm, streamLlm and their image variants)  *)
(* runs withRetryAndTimeout or withStreamRetryAndTimeout; the two differ   *)
(* in the chunks a streaming attempt hands on before it ends.              *)
(*                                                                         *)
(* Time passes in ticks.  Instants of the code are kept as the time that   *)
(* is left (openUntil, the timers) or has passed (lastActivity,            *)
(* lastCleanup), and no longer than a comparison can tell.  Timers are     *)
(* prompt: time does not pass while one is due.                            *)
(*                                                                         *)
(* A definition whose comment says "faulty variant" is not the code: it is *)
(* what the definition after it would be with a plausible bug, kept to     *)
(* show that a property tells the two apart.                               *)
(***************************************************************************)
EXTENDS Integers

CONSTANTS
  Callers,    \* concurrent users of the provider
  Streaming,  \* those that use its streaming functions
  Sessions,   \* session identifiers
  NoSession,  \* sessionId is undefined: the global breaker
  Threshold,  \* CIRCUIT_BREAKER_CONFIG.threshold
  Cooldown,   \* CIRCUIT_BREAKER_CONFIG.cooldownMs, in ticks
  Cleanup,    \* CIRCUIT_BREAKER_CONFIG.cleanupMs, in ticks
  Timeout,    \* the timeout of an attempt, in ticks
  Backoffs,   \* the delays backoffWithJitter may answer, in ticks
  MaxRetries  \* retries after the first attempt

ASSUME LlmCallsAssumption ==
  /\ Streaming \subseteq Callers
  /\ NoSession \notin Sessions
  /\ Threshold \in Nat \ {0}
  /\ Cooldown \in Nat \ {0}
  /\ Cleanup \in Nat /\ Cooldown <= Cleanup   \* 30 s and 120 s in the code
  /\ Timeout \in Nat \ {0}
  /\ Backoffs \subseteq Nat /\ Backoffs # {}
  /\ MaxRetries \in Nat

VARIABLES
  breaker,       \* the circuit breakers
  sinceCleanup,  \* time since lastCleanup
  call,          \* the call each caller is in
  streak         \* history: failed attempts since the last good one

vars == <<breaker, sinceCleanup, call, streak>>

Scopes == Sessions \cup {NoSession}

LeastOf(a, b) == IF a <= b THEN a ELSE b

-----------------------------------------------------------------------------
(* Circuit breakers. *)

(***************************************************************************)
(* consecutiveFailures is counted up to Threshold, beyond which nothing    *)
(* compares it.  cooldown is the time left until openUntil.  A breaker     *)
(* that was deleted, or never created, is a fresh one.                     *)
(***************************************************************************)
Breaker == [failures : 0..Threshold, cooldown : 0..Cooldown,
            idle : 0..(Cleanup + 1)]

Fresh == [failures |-> 0, cooldown |-> 0, idle |-> 0]

IsOpen(b) == b.failures = Threshold /\ b.cooldown > 0

(* Faulty variant: a sweep drops the breakers whatever their last use. *)
SweepAll(bs) ==
  IF sinceCleanup < Cleanup THEN bs
  ELSE [x \in Scopes |-> IF x # NoSession THEN Fresh ELSE bs[x]]

(* cleanupStaleBreakers, part of every access to a breaker. *)
Swept(bs) ==
  IF sinceCleanup < Cleanup THEN bs
  ELSE [x \in Scopes |-> IF x # NoSession /\ bs[x].idle > Cleanup
                         THEN Fresh ELSE bs[x]]

(* getBreaker: the global breaker keeps no lastActivity. *)
Touched(bs, x) ==
  [Swept(bs) EXCEPT ![x].idle = IF x = NoSession THEN @ ELSE 0]

CleanupTimer == sinceCleanup' = IF sinceCleanup < Cleanup
                                THEN sinceCleanup ELSE 0

Failed(b) ==
  LET n == LeastOf(b.failures + 1, Threshold)
  IN  [failures |-> n,
       cooldown |-> IF n = Threshold THEN Cooldown ELSE b.cooldown,
       idle     |-> b.idle]

Reset(b) == [failures |-> 0, cooldown |-> 0, idle |-> b.idle]

(* Faulty variant: every failure counts against the global breaker. *)
CountFailureGlobally(bs, x) == [bs EXCEPT ![NoSession] = Failed(@)]

CountFailure(bs, x) == [bs EXCEPT ![x] = Failed(@)]

RecordFailure(x) ==
  /\ breaker' = CountFailure(Touched(breaker, x), x)
  /\ CleanupTimer
  /\ streak' = [streak EXCEPT ![x] = LeastOf(@ + 1, Threshold)]

RecordSuccess(x) ==
  /\ breaker' = [Touched(breaker, x) EXCEPT ![x] = Reset(@)]
  /\ CleanupTimer
  /\ streak' = [streak EXCEPT ![x] = 0]

-----------------------------------------------------------------------------
(* Calls. *)

(***************************************************************************)
(* A caller is idle, sleeps between two attempts, or awaits the model.     *)
(* left is the time on the timer that aborts the attempt; it runs during   *)
(* the sleep already.  partial says that chunks of a failed attempt were   *)
(* handed on, yielded that chunks of this attempt were; garbled that the   *)
(* last stream ended well and had handed on both.                          *)
(***************************************************************************)
Call == [pc : {"idle", "sleeping", "awaiting"}, scope : Scopes,
         attempt : 0..MaxRetries, left : 0..Timeout,
         sleep : Nat,
         yielded : BOOLEAN, partial : BOOLEAN, garbled : BOOLEAN]

NoCall ==
  [pc |-> "idle", scope |-> NoSession, attempt |-> 0, left |-> 0,
   sleep |-> 0, yielded |-> FALSE, partial |-> FALSE, garbled |-> FALSE]

FirstAttempt(x) ==
  [pc |-> "awaiting", scope |-> x, attempt |-> 0, left |-> Timeout,
   sleep |-> 0, yielded |-> FALSE, partial |-> FALSE, garbled |-> FALSE]

(* Faulty variant: a refused call is counted as a failure. *)
StartCountingRefusals(c) ==
  /\ call[c].pc = "idle"
  /\ \E x \in Scopes :
       LET bs == Touched(breaker, x) IN
       /\ breaker' = IF IsOpen(bs[x]) THEN CountFailure(bs, x) ELSE bs
       /\ call' = [call EXCEPT ![c] =
                     IF IsOpen(bs[x]) THEN NoCall
                     ELSE FirstAttempt(x)]
  /\ CleanupTimer
  /\ UNCHANGED streak

(* checkCircuitBreaker and, in the same turn, the first attempt. *)
Start(c) ==
  /\ call[c].pc = "idle"
  /\ \E x \in Scopes :
       LET bs == Touched(breaker, x) IN
       /\ breaker' = bs
       /\ call' = [call EXCEPT ![c] =
                     IF IsOpen(bs[x]) THEN NoCall
                     ELSE FirstAttempt(x)]
  /\ CleanupTimer
  /\ UNCHANGED streak

(* A chunk is yielded to the consumer at once. *)
Yield(c) ==
  /\ c \in Streaming /\ ~call[c].yielded
  /\ call[c].pc = "awaiting" /\ call[c].left > 0
  /\ call' = [call EXCEPT ![c].yielded = TRUE]
  /\ UNCHANGED <<breaker, sinceCleanup, streak>>

Succeed(c) ==
  /\ call[c].pc = "awaiting" /\ call[c].left > 0
  /\ call' = [call EXCEPT ![c] =
                [NoCall EXCEPT !.garbled = call[c].partial]]
  /\ RecordSuccess(call[c].scope)

(* The next turn of the retry loop, attempt n: a new timer, then the sleep. *)
Retrying(k, n, d) ==
  [pc |-> "sleeping", scope |-> k.scope, attempt |-> n, left |-> Timeout,
   sleep |-> d, yielded |-> FALSE, partial |-> k.partial \/ k.yielded,
   garbled |-> FALSE]

(* Faulty variant: the loop forgets to count the attempt. *)
SameAttemptAgain(k, d) == Retrying(k, k.attempt, d)

NextAttempt(k, d) == Retrying(k, k.attempt + 1, d)

(* Faulty variant: one retry too many (attempt <= maxRetries + 1). *)
FailAttemptOnceMore(c) ==
  /\ call[c].pc = "awaiting"
  /\ RecordFailure(call[c].scope)
  /\ IF call[c].attempt > MaxRetries
     THEN call' = [call EXCEPT ![c] = NoCall]
     ELSE \E d \in Backoffs : call' = [call EXCEPT ![c] = NextAttempt(@, d)]

(* The attempt fails or its timer aborts it.  The breaker is not looked at *)
(* again before the next attempt.                                          *)
FailAttempt(c) ==
  /\ call[c].pc = "awaiting"
  /\ RecordFailure(call[c].scope)
  /\ IF call[c].attempt = MaxRetries
     THEN call' = [call EXCEPT ![c] = NoCall]
     ELSE \E d \in Backoffs : call' = [call EXCEPT ![c] = NextAttempt(@, d)]

(* A bad request or key: thrown at once and not held against the model. *)
FailFatally(c) ==
  /\ call[c].pc = "awaiting" /\ call[c].left > 0
  /\ call' = [call EXCEPT ![c] = NoCall]
  /\ UNCHANGED <<breaker, sinceCleanup, streak>>

Wake(c) ==
  /\ call[c].pc = "sleeping" /\ call[c].sleep = 0
  /\ call' = [call EXCEPT ![c].pc = "awaiting"]
  /\ UNCHANGED <<breaker, sinceCleanup, streak>>

(* The client aborts a request whose signal fired, so an attempt does not  *)
(* outlive its timer.                                                      *)
Due(k) == \/ k.pc = "awaiting" /\ k.left = 0
          \/ k.pc = "sleeping" /\ k.sleep = 0

Less(n) == IF n = 0 THEN 0 ELSE n - 1

Tick ==
  /\ \A c \in Callers : ~Due(call[c])
  /\ breaker' = [x \in Scopes |->
       [breaker[x] EXCEPT !.cooldown = Less(@),
                          !.idle = IF x = NoSession THEN @
                                   ELSE LeastOf(@ + 1, Cleanup + 1)]]
  /\ sinceCleanup' = LeastOf(sinceCleanup + 1, Cleanup)
  /\ call' = [c \in Callers |->
       IF call[c].pc = "idle" THEN call[c]
       ELSE [call[c] EXCEPT !.left = Less(@), !.sleep = Less(@)]]
  /\ UNCHANGED streak

-----------------------------------------------------------------------------
Init ==
  /\ breaker = [x \in Scopes |-> Fresh]
  /\ sinceCleanup = 0
  /\ call = [c \in Callers |-> NoCall]
  /\ streak = [x \in Scopes |-> 0]

Settle(c) == Succeed(c) \/ FailAttempt(c) \/ FailFatally(c) \/ Wake(c)

Next ==
  \/ \E c \in Callers :
       \/ Start(c) \/ Yield(c) \/ Succeed(c) \/ FailAttempt(c)
       \/ FailFatally(c) \/ Wake(c)
  \/ Tick

Spec == Init /\ [][Next]_vars

(* Fairness: time passes, and what a timer or the client settles, settles. *)
FairSpec == Spec /\ WF_vars(Tick) /\ \A c \in Callers : WF_vars(Settle(c))

-----------------------------------------------------------------------------
(* Properties. *)

(* The breakers, timers and calls keep their types: no timer runs past its *)
(* start and no attempt is made beyond the retries.                        *)
TypeOK ==
  /\ breaker \in [Scopes -> Breaker]
  /\ sinceCleanup \in 0..Cleanup
  /\ call \in [Callers -> Call]
  /\ streak \in [Scopes -> 0..Threshold]

(* "One bad session can't block all others": a breaker counts no failure   *)
(* that a call of its own scope did not suffer since its last success, so  *)
(* a session is refused only for its own failures.                         *)
TripsOnOwnFailures == \A x \in Scopes : breaker[x].failures <= streak[x]

(* The sweep of stale breakers never closes one that is open: unless a     *)
(* call of its scope succeeds it closes with its failures remembered, so   *)
(* that the next failure opens it again.                                   *)
SweepSparesOpen ==
  [][\A x \in Scopes :
       IsOpen(breaker[x]) /\ ~IsOpen(breaker'[x]) =>
         breaker'[x].failures = Threshold \/ streak'[x] = 0]_vars

(* An open breaker lets calls through again: those in flight when it       *)
(* opened cannot prolong the cooldown for ever, nor can those it refuses.  *)
OpenEnds ==
  \A x \in Scopes : IsOpen(breaker[x]) ~> ~IsOpen(breaker[x])

(* Every call returns or throws, whatever the model does. *)
CallEnds == \A c \in Callers : call[c].pc # "idle" ~> call[c].pc = "idle"

(* The comment on streamLlm says it streams "the LLM response": what a     *)
(* consumer was given when the stream ends is one response.                *)
StreamIsOneResponse == \A c \in Callers : ~call[c].garbled
=============================================================================
