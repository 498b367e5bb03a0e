----------------------- MODULE AgentGraph_limits_proofs -----------------------
(***************************************************************************)
(* More proofs about AgentGraph, on top of its invariant IInv: how often a *)
(* step is executed, what a run may spend, how it ends, that the graph     *)
(* implements RunLifecycle, and how many supersteps a loop can take.  Each *)
(* part has an inductive invariant of its own, which uses those proved     *)
(* before it.  Like IInv, they hold until a review call comes late.        *)
(***************************************************************************)
EXTENDS AgentGraph_proofs, FiniteSetTheorems

(* What a step is before a call comes late.                                *)
LEMMA StillInTime ==
  ASSUME TypeOK, InTime => IInv, [Next]_vars, InTime'
  PROVE  InTime /\ IInv /\ [NextInTime]_threadVars
BY LateStays, StepInTime

-----------------------------------------------------------------------------
(* A pass of the parallel executor over a validated plan.                  *)

(* No group continues from step k of the plan to the next.                 *)
GroupEndsAt(plan, k) ==
  k \in 1..(Len(plan) - 1) /\ Grouped(plan[k]) =>
    plan[k + 1].parallel_group # plan[k].parallel_group

(* A pass that starts where a group starts runs the whole group: the cap   *)
(* on parallel tools never cuts one, since the validator refuses a group   *)
(* larger than the cap, and no member of the group lies elsewhere.         *)
LEMMA PassIsGroup ==
  ASSUME NEW plan \in Seq(Step), GroupsAdjacent(plan), GroupsFit(plan),
         NEW first \in 1..Len(plan), Grouped(plan[first]),
         GroupEndsAt(plan, first - 1),
         NEW last \in first..Len(plan), IsGroupRun(plan, first, last)
  PROVE  /\ GroupMembers(plan, plan[first].parallel_group) = first..last
         /\ last - first + 1 <= GroupLimit
         /\ plan[last].parallel_group = plan[first].parallel_group
         /\ GroupEndsAt(plan, last)
<1> DEFINE n       == Len(plan)
           group(i) == plan[i].parallel_group
           g       == group(first)
           members == GroupMembers(plan, g)
<1>1. n \in Nat /\ first \in 1..n /\ last \in first..n
  BY LenProperties
<1>2. \A k \in first..last : group(k) = g
  BY DEF IsGroupRun
<1>3. members = {i \in 1..n : group(i) = g}
  BY DEF GroupMembers
<1>4. Cardinality(members) <= GroupLimit
  BY <1>1 DEF GroupsFit
<1>5. last < n /\ last - first + 1 < MaxParallelTools => group(last + 1) # g
  BY DEF IsGroupRun
<1>6. \A i, j \in 1..n :
        g # NoGroup /\ group(i) = g /\ group(j) = g =>
          \A k \in i..j : group(k) = g
  BY DEF GroupsAdjacent, Grouped
<1>7. g # NoGroup
  BY DEF Grouped
<1>8. first - 1 \in 1..n => group(first - 1) # g
  <2> SUFFICES ASSUME first - 1 \in 1..n, group(first - 1) = g PROVE FALSE
    OBVIOUS
  <2>1. first - 1 \in 1..(n - 1) /\ Grouped(plan[first - 1])
    BY <1>1, <1>7 DEF Grouped
  <2>2. plan[(first - 1) + 1].parallel_group # plan[first - 1].parallel_group
    BY <2>1 DEF GroupEndsAt
  <2> QED
    BY <1>1, <2>2
<1>9. /\ GroupLimit \in Nat
      /\ MaxParallelTools \in Nat
      /\ GroupLimit <= MaxParallelTools
  BY PlanRulesAssumption
<1> HIDE DEF n, group, g, members
<1>10. first..last \subseteq members
  BY <1>1, <1>2, <1>3
<1>11. /\ IsFiniteSet(members)
       /\ Cardinality(members) \in Nat
  <2>1. IsFiniteSet(1..n)
    BY <1>1, FS_Interval
  <2>2. members \in SUBSET (1..n)
    BY <1>3
  <2>3. IsFiniteSet(members)
    BY <2>1, <2>2, FS_Subset
  <2> QED
    BY <2>3, FS_CardinalityType
<1>12. Cardinality(first..last) = last - first + 1
  BY <1>1, FS_Interval
<1>13. /\ Cardinality(first..last) <= Cardinality(members)
       /\ Cardinality(first..last) = Cardinality(members) =>
            first..last = members
  BY <1>10, <1>11, FS_Subset
<1>14. last < n => group(last + 1) # g
  <2> SUFFICES ASSUME last < n, group(last + 1) = g PROVE FALSE
    OBVIOUS
  <2>1. ~(last - first + 1 < MaxParallelTools)
    BY <1>5
  <2>2. last - first + 1 = Cardinality(members)
    BY <1>1, <1>4, <1>9, <1>11, <1>12, <1>13, <2>1
  <2>3. last + 1 \in members
    BY <1>1, <1>3
  <2> QED
    BY <1>1, <1>12, <1>13, <2>2, <2>3
<1>15. ASSUME NEW i \in members PROVE i \in first..last
  <2>1. i \in 1..n /\ group(i) = g
    BY <1>3
  <2>2. ~(i < first)
    <3> SUFFICES ASSUME i < first PROVE FALSE
      OBVIOUS
    <3>1. first - 1 \in i..first /\ first - 1 \in 1..n
      BY <1>1, <2>1
    <3> QED
      BY <1>1, <1>2, <1>6, <1>7, <1>8, <2>1, <3>1
  <2>3. ~(i > last)
    <3> SUFFICES ASSUME i > last PROVE FALSE
      OBVIOUS
    <3>1. last + 1 \in first..i /\ last < n
      BY <1>1, <2>1
    <3>2. group(first) = g
      BY <1>1, <1>2
    <3> QED
      BY <1>1, <1>6, <1>7, <1>14, <2>1, <3>1, <3>2
  <2> QED
    BY <1>1, <2>1, <2>2, <2>3
<1>16. members = first..last
  BY <1>10, <1>15
<1>17. last - first + 1 <= GroupLimit
  BY <1>1, <1>4, <1>9, <1>12, <1>16
<1>18. group(last) = g
  BY <1>1, <1>2
<1>19. GroupEndsAt(plan, last)
  BY <1>1, <1>14, <1>18 DEF GroupEndsAt, group, n
<1> QED
  BY <1>16, <1>17, <1>18, <1>19 DEF members, g, group

(* The reducer of the attempts channel keeps the last two attempts.        *)
LEMMA LastAttemptsKept ==
  ASSUME NEW attempts \in Seq(Attempt), Len(attempts) <= AttemptsCap,
         NEW a \in Attempt
  PROVE  LET r == AppendAttempt(attempts, a) IN
         /\ r \in Seq(Attempt)
         /\ Len(r) \in Nat \ {0}
         /\ r[Len(r)] = a
         /\ Len(attempts) > 0 =>
              /\ Len(r) >= 2
              /\ r[Len(r) - 1] = attempts[Len(attempts)]
<1> DEFINE longer == Append(attempts, a)
           n == Len(attempts)
           m == Len(longer)
<1>1. /\ longer \in Seq(Attempt)
      /\ n \in Nat /\ m = n + 1
      /\ longer[m] = a
      /\ n > 0 => longer[n] = attempts[n]
  BY AppendProperties, LenProperties
<1>2. AttemptsCap \in Nat /\ AttemptsCap >= 2
  BY AgentGraphAssumption
<1>3. CASE m <= AttemptsCap
  <2>1. AppendAttempt(attempts, a) = longer
    BY <1>3 DEF AppendAttempt
  <2> HIDE DEF longer
  <2> QED
    BY <1>1, <2>1
<1>4. CASE ~(m <= AttemptsCap)
  <2> DEFINE from == m - AttemptsCap + 1
             r == SubSeq(longer, from, m)
  <2>0. n \in Nat /\ n <= AttemptsCap
    BY <1>1
  <2>1. from \in 1..m + 1 /\ from <= m /\ m - from + 1 = AttemptsCap
        /\ from + AttemptsCap - 1 = m /\ from + (AttemptsCap - 1) - 1 = n
    BY <1>1, <1>2, <1>4, <2>0
  <2>2. AppendAttempt(attempts, a) = r
    BY <1>4 DEF AppendAttempt
  <2> HIDE DEF longer, n, m, from
  <2>3. /\ r \in Seq(Attempt)
        /\ Len(r) = AttemptsCap
        /\ \A i \in 1..AttemptsCap : r[i] = longer[from + i - 1]
    BY <1>1, <2>1, SubSeqProperties DEF m
  <2>4. r[AttemptsCap] = longer[m] /\ r[AttemptsCap - 1] = longer[n]
    BY <1>2, <2>1, <2>3
  <2> HIDE DEF r
  <2> QED
    BY <1>1, <1>2, <2>2, <2>3, <2>4 DEF n
<1> QED
  BY <1>3, <1>4

-----------------------------------------------------------------------------
(***************************************************************************)
(* How often a step is executed.  A plan that can be executed passed the   *)
(* rules on groups (Validated); execution is always between two groups     *)
(* (BetweenGroups), with nothing behind it executed yet (LaterNotRun).     *)
(* The attempts on a failing step are the newest ones of the attempts      *)
(* channel, whatever earlier runs left in it (Retried).                    *)
(***************************************************************************)
Validated ==
  s.phase \in ToRun \cup HasRun \/ s.reviewRequest # <<>> =>
    GroupsAdjacent(s.plan) /\ GroupsFit(s.plan)

BetweenGroups ==
  /\ s.phase = "execute_parallel" => Grouped(s.plan[s.currentStep + 1])
  /\ s.phase \in ToRun  => GroupEndsAt(s.plan, s.currentStep)
  /\ s.phase \in HasRun => GroupEndsAt(s.plan, s.currentStep + 1)

LaterNotRun ==
  /\ s.phase \in ToRun \cup HasRun =>
       \A i \in 1..Len(s.plan) : i > s.currentStep + 1 => runs[i] = 0
  /\ s.phase = "execute_parallel" => runs[s.currentStep + 1] = 0

(* The newest n attempts of c are on its current step. *)
LastAttempts(c, n) ==
  /\ n <= Len(c.attempts)
  /\ \A k \in 1..Len(c.attempts) :
       k > Len(c.attempts) - n => SameAttempt(c, c.attempts[k])

Retried ==
  LET n == runs[s.currentStep + 1] IN
  /\ s.phase = "execute" => n \in 0..1 /\ LastAttempts(s, n)
  /\ s.phase = "normalize_tool_result" /\ ~NormalizedOk(s) =>
       n \in 1..2 /\ LastAttempts(s, n - 1)
  /\ s.phase \in {"judge", "route"} /\ s.toolResult # "ok" =>
       n \in 1..2 /\ LastAttempts(s, n)

GroupWhole ==
  LET g == s.plan[s.currentStep + 1].parallel_group IN
  s.phase = "normalize_tool_result" /\ g # NoGroup =>
    \A i \in GroupMembers(s.plan, g) : runs[i] = 1

RetriedOnce == \A i \in 1..Len(s.plan) : runs[i] <= 2

ExecutionInv ==
  /\ Validated
  /\ BetweenGroups
  /\ LaterNotRun
  /\ Retried
  /\ GroupWhole
  /\ RetriedOnce

(* A step that leaves the channels and the history alone keeps it.         *)
LEMMA ExecutionUntouched ==
  ASSUME ExecutionInv, UNCHANGED <<s, runs>>
  PROVE  ExecutionInv'
BY DEF ExecutionInv, Validated, BetweenGroups, LaterNotRun, Retried,
       LastAttempts, SameAttempt, NormalizedOk, GroupWhole, RetriedOnce

(* So does a step to a phase in which no step of the plan is current.      *)
LEMMA ExecutionLeft ==
  ASSUME ExecutionInv, runs' = runs, s'.plan = s.plan,
         s'.reviewRequest = s.reviewRequest,
         s'.phase \notin ToRun \cup HasRun
  PROVE  ExecutionInv'
<1> USE DEF ExecutionInv, ToRun, HasRun
<1>1. Validated'
  BY DEF Validated
<1>2. BetweenGroups' /\ LaterNotRun' /\ Retried'
  BY DEF BetweenGroups, LaterNotRun, Retried
<1>3. GroupWhole' /\ RetriedOnce'
  BY DEF GroupWhole, RetriedOnce
<1> QED
  BY <1>1, <1>2, <1>3

(* The first step of a validated plan begins, or the one after a step that *)
(* ends its group: it and what follows it are not executed yet.            *)
LEMMA ExecutionBegun ==
  ASSUME TypeOK, TypeOK', RetriedOnce, runs' = runs, s'.plan = s.plan,
         s'.phase \in ToRun,
         s'.phase = "execute_parallel" => Grouped(s.plan[s'.currentStep + 1]),
         s'.currentStep < Len(s.plan),
         GroupEndsAt(s.plan, s'.currentStep),
         GroupsAdjacent(s.plan), GroupsFit(s.plan),
         \A i \in 1..Len(s.plan) : i > s'.currentStep => runs[i] = 0
  PROVE  ExecutionInv'
<1>1. s'.currentStep \in Nat /\ Len(s.plan) \in Nat /\ Len(s'.attempts) \in Nat
  BY DEF TypeOK, Channels
<1>2. s'.currentStep + 1 \in 1..Len(s.plan)
  BY <1>1
<1>3. runs[s'.currentStep + 1] = 0
  BY <1>1, <1>2
<1>4. LastAttempts(s', 0)
  BY <1>1 DEF LastAttempts
<1>5. Validated' /\ BetweenGroups'
  BY DEF Validated, BetweenGroups, ToRun, HasRun
<1>6. LaterNotRun'
  BY <1>1, <1>3 DEF LaterNotRun
<1>7. Retried'
  BY <1>3, <1>4 DEF Retried, ToRun
<1>8. GroupWhole' /\ RetriedOnce'
  BY DEF GroupWhole, RetriedOnce, ToRun
<1> QED
  BY <1>5, <1>6, <1>7, <1>8 DEF ExecutionInv

(* Another plan, or none, takes the place of the one that was there.       *)
LEMMA ExecutionReplaced ==
  ASSUME s'.reviewRequest = <<>>, s'.phase \notin ToRun \cup HasRun, NothingRun'
  PROVE  ExecutionInv'
<1> USE DEF ToRun, HasRun
<1>1. Validated' /\ BetweenGroups' /\ LaterNotRun' /\ Retried'
  BY DEF Validated, BetweenGroups, LaterNotRun, Retried
<1>2. GroupWhole' /\ RetriedOnce'
  BY DEF GroupWhole, RetriedOnce, NothingRun
<1> QED
  BY <1>1, <1>2 DEF ExecutionInv

(* A second failed attempt is seen by the router.                          *)
LEMMA TwoLastAttempts ==
  ASSUME TypeOK, LastAttempts(s, 2)
  PROVE  AttemptedTwice(s)
<1> DEFINE n == Len(s.attempts)
<1>1. n \in Nat /\ n >= 2
  BY DEF TypeOK, Channels, LastAttempts
<1>2. /\ n - 1 \in 1..n /\ n \in 1..n /\ n - 1 < n
      /\ n - 1 > n - 2 /\ n > n - 2
  BY <1>1
<1>3. SameAttempt(s, s.attempts[n - 1]) /\ SameAttempt(s, s.attempts[n])
  BY <1>2 DEF LastAttempts
<1> QED
  BY <1>2, <1>3 DEF AttemptedTwice

(* The router.                                                             *)
LEMMA ExecutionRouted ==
  ASSUME TypeOK, TypeOK', IInv, ExecutionInv, Router
  PROVE  ExecutionInv'
<1>1. s' = Route(s) /\ runs' = runs
  BY DEF Router
<1>2. /\ s \in Channels /\ Len(s.plan) \in Nat /\ s.currentStep \in Nat
      /\ runs \in [1..Len(s.plan) -> Nat]
  BY DEF TypeOK, Channels
<1>3. DecisionAwaited /\ OnOneStep /\ ReviewUntouched
  BY DEF IInv
<1>4. CASE s' = s
  BY <1>1, <1>4, ExecutionUntouched
<1>5. CASE s' = Fail(s)
  <2>1. SameStep(s, s') /\ s'.phase = "fatal"
    BY <1>2, <1>5, EndingEffect
  <2> QED
    BY <1>1, <2>1, ExecutionLeft DEF SameStep, ToRun, HasRun
<1>6. CASE s' = Replan(s)
  <2>1. SameStep(s, s') /\ s'.phase = "research"
    BY <1>2, <1>6, RecoveryEffect
  <2> QED
    BY <1>1, <2>1, ExecutionLeft DEF SameStep, ToRun, HasRun
<1>7. ASSUME s.phase = "route"
      PROVE  /\ s.currentStep < Len(s.plan)
             /\ GroupEndsAt(s.plan, s.currentStep + 1)
             /\ GroupsAdjacent(s.plan) /\ GroupsFit(s.plan)
             /\ \A i \in 1..Len(s.plan) : i > s.currentStep + 1 => runs[i] = 0
             /\ s.toolResult # "ok" =>
                  /\ OnSingleStep
                  /\ runs[s.currentStep + 1] \in 1..2
                  /\ LastAttempts(s, runs[s.currentStep + 1])
  BY <1>3, <1>7 DEF ExecutionInv, Validated, BetweenGroups, LaterNotRun,
                    Retried, OnOneStep, HasRun
<1>8. CASE s.phase = "route" /\ s' = Advance(s)
  <2>1. /\ s'.plan = s.plan
        /\ s'.reviewRequest = s.reviewRequest
        /\ \/ s'.phase = "generate"
           \/ /\ s'.phase \in ToRun
              /\ s'.currentStep = s.currentStep + 1
              /\ s'.currentStep < Len(s.plan)
              /\ s'.phase = "execute_parallel" =>
                   Grouped(s.plan[s'.currentStep + 1])
    BY <1>2, <1>8, AdvanceEffect
  <2>2. CASE s'.phase = "generate"
    BY <1>1, <2>1, <2>2, ExecutionLeft DEF ToRun, HasRun
  <2>3. CASE s'.phase # "generate"
    <3>1. GroupEndsAt(s.plan, s'.currentStep)
      BY <1>7, <1>8, <2>1, <2>3
    <3>2. \A i \in 1..Len(s.plan) : i > s'.currentStep => runs[i] = 0
      BY <1>7, <1>8, <2>1, <2>3
    <3> QED
      BY <1>1, <1>7, <1>8, <2>1, <2>3, <3>1, <3>2, ExecutionBegun
      DEF ExecutionInv
  <2> QED
    BY <2>2, <2>3
<1>9. CASE /\ s.phase = "route" /\ s' = Retry(s)
           /\ s.toolResult # "ok" /\ ~AttemptedTwice(s)
  <2> DEFINE step == s.currentStep + 1
  <2>1. SameStep(s, s') /\ s'.phase = "execute"
    BY <1>2, <1>9, RecoveryEffect
  <2>2. /\ s'.attempts = s.attempts
        /\ s'.counters.replans = s.counters.replans
    BY <1>2, <1>9 DEF Retry, CountRetry, Channels, Counters
  <2>3. runs[step] = 1 /\ LastAttempts(s, 1)
    BY <1>7, <1>9, TwoLastAttempts
  <2>4. LastAttempts(s', 1)
    BY <2>1, <2>2, <2>3 DEF LastAttempts, SameAttempt, SameStep
  <2>5. Retried'
    BY <1>1, <2>1, <2>3, <2>4 DEF Retried, SameStep
  <2>6. GroupEndsAt(s.plan, s.currentStep)
    BY <1>7, <1>9 DEF GroupEndsAt, OnSingleStep, Grouped
  <2>7. Validated' /\ BetweenGroups'
    BY <1>7, <1>9, <2>1, <2>6
    DEF Validated, BetweenGroups, SameStep, HasRun
  <2>8. LaterNotRun'
    BY <1>1, <1>7, <1>9, <2>1 DEF LaterNotRun, SameStep
  <2>9. GroupWhole' /\ RetriedOnce'
    BY <1>1, <2>1 DEF ExecutionInv, GroupWhole, RetriedOnce, SameStep
  <2> QED
    BY <2>5, <2>7, <2>8, <2>9 DEF ExecutionInv
<1> QED
  BY <1>1, <1>3, <1>4, <1>5, <1>6, <1>8, <1>9, RouteOutcome

(* Every step of the graph and every call keeps the invariant.             *)
LEMMA ExecutionStep ==
  ASSUME TypeOK, TypeOK', IInv, ExecutionInv, [NextInTime]_threadVars
  PROVE  ExecutionInv'
<1>a. /\ s \in Channels /\ Len(s.plan) \in Nat /\ s.currentStep \in Nat
      /\ runs \in [1..Len(s.plan) -> Nat]
  BY DEF TypeOK, Channels
<1>b. Scheduled /\ OnOneStep /\ StepsDone /\ ReviewUntouched
  BY DEF IInv
<1>c. ASSUME s' = Fail(s), runs' = runs
      PROVE  ExecutionInv'
  <2>1. SameStep(s, s') /\ s'.phase = "fatal"
    BY <1>a, <1>c, EndingEffect
  <2> QED
    BY <1>c, <2>1, ExecutionLeft DEF SameStep, ToRun, HasRun
<1>d. ASSUME NEW answer \in {"none", "answer", "failure"},
             s' = Complete(s, answer), runs' = runs
      PROVE  ExecutionInv'
  <2>1. SameStep(s, s') /\ s'.phase = "complete"
    BY <1>a, <1>d, EndingEffect
  <2> QED
    BY <1>d, <2>1, ExecutionLeft DEF SameStep, ToRun, HasRun
<1>e. ASSUME s'.plan = s.plan, s'.reviewRequest = s.reviewRequest, runs' = runs,
             s'.phase \in {"chat", "research", "clarification", "plan"}
      PROVE  ExecutionInv'
  BY <1>e, ExecutionLeft DEF ToRun, HasRun
<1>1. CASE Supervisor
  <2>1. CASE \E p \in {"chat", "research", "clarification"} :
               s' = [s EXCEPT !.phase = p]
    BY <1>1, <1>a, <1>e, <2>1 DEF Supervisor, Channels
  <2> QED
    BY <1>1, <1>c, <2>1 DEF Supervisor
<1>2. CASE ResearcherCoordinator
  BY <1>2, ExecutionUntouched DEF ResearcherCoordinator
<1>3. CASE ResearchBranches
  <2>1. s.phase = "research"
    BY <1>3, <1>b, PhaseOfNode DEF ResearchBranches
  <2> QED
    BY <1>3, <1>a, <1>e, <2>1 DEF ResearchBranches, Channels
<1>4. CASE ResearchJoin
  BY <1>4, <1>a, <1>e DEF ResearchJoin, Channels
<1>5. CASE Planner
  <2>1. s.reviewRequest = <<>>
    <3>1. s.phase = "plan"
      BY <1>5, <1>b, PhaseOfNode DEF Planner, Running
    <3> QED
      BY <1>b, <3>1 DEF ReviewUntouched
  <2>2. CASE s' = Fail(s) /\ UNCHANGED <<runs, verdicts>>
    BY <1>c, <2>2
  <2>3. CASE \E p \in Plans :
               /\ s' = [s EXCEPT !.phase = "validate_plan", !.plan = p,
                                 !.currentStep = 0, !.selectedTool = p[1].tool,
                                 !.replanContext = FALSE]
               /\ runs' = NotRunYet(p)
               /\ verdicts' = {}
    <3>1. /\ s'.phase = "validate_plan"
          /\ s'.reviewRequest = <<>>
          /\ NothingRun'
      BY <1>a, <2>1, <2>3 DEF Channels, NothingRun, NotRunYet
    <3> QED
      BY <3>1, ExecutionReplaced DEF ToRun, HasRun
  <2> QED
    BY <1>5, <2>2, <2>3 DEF Planner
<1>f. ASSUME NEW c \in Channels, c = BeginStep(s, 0), NothingRun, runs' = runs,
             0 < Len(s.plan), GroupsAdjacent(s.plan), GroupsFit(s.plan),
             s'.plan = c.plan, s'.phase = c.phase,
             s'.currentStep = c.currentStep
      PROVE  ExecutionInv'
  <2>1. /\ s'.plan = s.plan
        /\ s'.currentStep = 0
        /\ s'.phase \in ToRun
        /\ s'.phase = "execute_parallel" => Grouped(s.plan[0 + 1])
    BY <1>a, <1>f, BeginStepEffect, 0 \in Nat
  <2>2. GroupEndsAt(s.plan, 0)
    BY DEF GroupEndsAt
  <2> QED
    BY <1>f, <2>1, <2>2, ExecutionBegun DEF ExecutionInv, NothingRun
<1>6. CASE PlanValidator
  <2>1. PICK anchorsFound \in BOOLEAN :
          s' = IF ~Acceptable(s.plan, anchorsFound) THEN Fail(s)
               ELSE IF ReviewRequired(s.plan)
               THEN [s EXCEPT !.phase = "await_plan_review",
                              !.reviewRequest = s.plan]
               ELSE BeginStep(s, 0)
    BY <1>6 DEF PlanValidator
  <2>2. runs' = runs
    BY <1>6 DEF PlanValidator
  <2>3. NothingRun
    BY <1>6, <1>b, PhaseOfNode DEF PlanValidator, Running, StepsDone
  <2>4. CASE s' = Fail(s)
    BY <1>c, <2>2, <2>4
  <2>5. Acceptable(s.plan, anchorsFound) =>
          0 < Len(s.plan) /\ GroupsAdjacent(s.plan) /\ GroupsFit(s.plan)
    BY <1>a, PlanRulesAssumption DEF Acceptable
  <2>6. CASE /\ Acceptable(s.plan, anchorsFound)
             /\ s' = [s EXCEPT !.phase = "await_plan_review",
                               !.reviewRequest = s.plan]
    <3>1. s'.phase = "await_plan_review" /\ s'.plan = s.plan
      BY <1>a, <2>6 DEF Channels
    <3>2. Validated'
      BY <2>5, <2>6, <3>1 DEF Validated
    <3>3. BetweenGroups' /\ LaterNotRun' /\ Retried'
      BY <3>1 DEF BetweenGroups, LaterNotRun, Retried, ToRun, HasRun
    <3>4. GroupWhole' /\ RetriedOnce'
      BY <2>2, <3>1 DEF ExecutionInv, GroupWhole, RetriedOnce
    <3> QED
      BY <3>2, <3>3, <3>4 DEF ExecutionInv
  <2>7. CASE Acceptable(s.plan, anchorsFound) /\ s' = BeginStep(s, 0)
    <3>1. s' \in Channels
      BY DEF TypeOK
    <3> QED
      BY <1>f, <2>2, <2>3, <2>5, <2>7, <3>1
  <2> QED
    BY <2>1, <2>4, <2>6, <2>7
<1>7. CASE AwaitPlanReview
  BY <1>7, ExecutionUntouched DEF AwaitPlanReview
(* What execution finds; execute and execute_parallel differ in what they  *)
(* add to the history.                                                     *)
<1>g. ASSUME s.phase \in ToRun
      PROVE  /\ s.currentStep + 1 \in 1..Len(s.plan)
             /\ GroupEndsAt(s.plan, s.currentStep)
             /\ GroupsAdjacent(s.plan) /\ GroupsFit(s.plan)
             /\ \A i \in 1..Len(s.plan) : i > s.currentStep + 1 => runs[i] = 0
  BY <1>a, <1>b, <1>g
  DEF ExecutionInv, Validated, BetweenGroups, LaterNotRun, OnOneStep
<1>8. CASE Execute
  <2> DEFINE step == s.currentStep + 1
  <2>1. s.phase = "execute"
    BY <1>8, <1>b, PhaseOfNode DEF Execute, Running
  <2>2. PICK raw \in {"text", "error", "list"} : s' = ToolsRan(s, raw, 1)
    BY <1>8 DEF Execute
  <2>3. /\ SameStep(s, s') /\ s'.phase = "normalize_tool_result"
        /\ s'.attempts = s.attempts
        /\ s'.counters.replans = s.counters.replans
    BY <1>a, <2>2 DEF ToolsRan, CountToolCalls, SameStep, Channels, Counters
  <2>4. step \in 1..Len(s.plan) /\ ~Grouped(s.plan[step])
    BY <1>b, <1>g, <2>1 DEF OnOneStep, OnSingleStep, ToRun
  <2>5. runs[step] \in 0..1 /\ LastAttempts(s, runs[step])
    BY <2>1 DEF ExecutionInv, Retried
  <2>6. /\ runs' \in [1..Len(s.plan) -> Nat]
        /\ runs'[step] = runs[step] + 1
        /\ \A i \in 1..Len(s.plan) : i # step => runs'[i] = runs[i]
    <3>1. runs' = [i \in 1..Len(s.plan) |->
                     IF i = step THEN runs[i] + 1 ELSE runs[i]]
      BY <1>8, <1>a DEF Execute
    <3> QED
      BY <1>a, <2>4, <3>1
  <2>7. Validated'
    BY <1>g, <2>1, <2>3 DEF Validated, SameStep, ToRun
  <2>8. BetweenGroups'
    BY <2>3, <2>4 DEF BetweenGroups, GroupEndsAt, SameStep, ToRun
  <2>9. LaterNotRun'
    BY <1>a, <1>g, <2>1, <2>3, <2>6 DEF LaterNotRun, SameStep, ToRun, HasRun
  <2>10. Retried'
    <3>1. runs'[step] \in 1..2 /\ runs'[step] - 1 = runs[step]
      BY <2>5, <2>6
    <3>2. LastAttempts(s', runs[step])
      BY <2>3, <2>5 DEF LastAttempts, SameAttempt, SameStep
    <3> QED
      BY <2>3, <3>1, <3>2 DEF Retried, SameStep
  <2>11. GroupWhole'
    BY <2>3, <2>4 DEF GroupWhole, Grouped, SameStep
  <2>12. RetriedOnce'
    BY <2>3, <2>5, <2>6 DEF ExecutionInv, RetriedOnce, SameStep
  <2> QED
    BY <2>7, <2>8, <2>9, <2>10, <2>11, <2>12 DEF ExecutionInv
<1>9. CASE ExecuteParallel
  <2> DEFINE first == s.currentStep + 1
             n     == Len(s.plan)
  <2>1. s.phase = "execute_parallel"
    BY <1>9, <1>b, PhaseOfNode DEF ExecuteParallel, Running
  <2>2. first \in 1..n /\ Grouped(s.plan[first])
    BY <1>g, <2>1 DEF ExecutionInv, BetweenGroups, ToRun
  <2>3. PICK last \in first..n :
          /\ IsGroupRun(s.plan, first, last)
          /\ s' = [ToolsRan(s, "list", last - first + 1) EXCEPT
                     !.parallelResult = TRUE, !.currentStep = last - 1]
          /\ runs' = [i \in 1..n |->
                        IF i \in first..last THEN runs[i] + 1 ELSE runs[i]]
    <3>1. ~(first > n)
      BY <1>a, <2>2
    <3> QED
      BY <1>9, <3>1 DEF ExecuteParallel
  <2>4. /\ s'.phase = "normalize_tool_result"
        /\ s'.toolResultRaw = "list"
        /\ s'.plan = s.plan
        /\ s'.currentStep = last - 1
    BY <1>a, <2>3 DEF ToolsRan, Channels
  <2>5. /\ GroupMembers(s.plan, s.plan[first].parallel_group) = first..last
        /\ s.plan[last].parallel_group = s.plan[first].parallel_group
        /\ GroupEndsAt(s.plan, last)
    <3>1. GroupEndsAt(s.plan, first - 1)
      BY <1>a, <1>g, <2>1 DEF ToRun
    <3>2. s.plan \in Seq(Step)
      BY <1>a DEF Channels
    <3>3. GroupsAdjacent(s.plan) /\ GroupsFit(s.plan)
      BY <1>g, <2>1 DEF ToRun
    <3> QED
      BY <2>2, <2>3, <3>1, <3>2, <3>3, PassIsGroup
  <2>6. last \in 1..n /\ s'.currentStep + 1 = last /\ first \in Nat
    BY <1>a, <2>2, <2>4
  <2>7. \A i \in 1..n : i >= first => runs[i] = 0
    BY <1>a, <1>g, <2>1 DEF ExecutionInv, LaterNotRun, ToRun
  <2>8. /\ \A i \in first..last : runs'[i] = 1
        /\ \A i \in 1..n : i > last => runs'[i] = 0
        /\ \A i \in 1..n : i < first => runs'[i] = runs[i]
    BY <1>a, <2>2, <2>3, <2>7
  <2> HIDE DEF first, n
  <2>9. Validated'
    BY <1>g, <2>1, <2>4 DEF Validated, ToRun
  <2>10. BetweenGroups'
    BY <2>4, <2>5, <2>6 DEF BetweenGroups, ToRun
  <2>11. LaterNotRun'
    BY <2>4, <2>6, <2>8 DEF LaterNotRun, n
  <2>12. Retried'
    BY <2>4 DEF Retried, NormalizedOk
  <2>13. GroupWhole'
    BY <2>4, <2>5, <2>6, <2>8 DEF GroupWhole
  <2>14. RetriedOnce'
    <3>1. \A i \in 1..n : runs'[i] <= 2
      <4> TAKE i \in 1..n
      <4>1. CASE i < first
        BY <2>8, <4>1 DEF ExecutionInv, RetriedOnce, n
      <4>2. CASE i \in first..last
        BY <2>8, <4>2
      <4>3. CASE i > last
        BY <2>8, <4>3
      <4> QED
        BY <1>a, <2>6, <4>1, <4>2, <4>3 DEF n
    <3> QED
      BY <2>4, <3>1 DEF RetriedOnce, n
  <2> QED
    BY <2>9, <2>10, <2>11, <2>12, <2>13, <2>14 DEF ExecutionInv
(* What the nodes after an execution find.                                 *)
<1>h. ASSUME s.phase \in HasRun
      PROVE  /\ s.currentStep + 1 \in 1..Len(s.plan)
             /\ GroupEndsAt(s.plan, s.currentStep + 1)
             /\ GroupsAdjacent(s.plan) /\ GroupsFit(s.plan)
             /\ \A i \in 1..Len(s.plan) : i > s.currentStep + 1 => runs[i] = 0
  BY <1>a, <1>b, <1>h
  DEF ExecutionInv, Validated, BetweenGroups, LaterNotRun, OnOneStep
<1>i. ASSUME s.phase \in HasRun, s'.phase \in {"judge", "route"},
             SameStep(s, s'), runs' = runs, Retried'
      PROVE  ExecutionInv'
  <2>1. Validated' /\ BetweenGroups' /\ LaterNotRun'
    BY <1>h, <1>i
    DEF Validated, BetweenGroups, LaterNotRun, SameStep, ToRun, HasRun
  <2>2. GroupWhole' /\ RetriedOnce'
    BY <1>i DEF ExecutionInv, GroupWhole, RetriedOnce, SameStep
  <2> QED
    BY <1>i, <2>1, <2>2 DEF ExecutionInv
<1>10. CASE ToolResultNormalizer
  <2>1. s.phase = "normalize_tool_result"
    BY <1>10, <1>b, PhaseOfNode DEF ToolResultNormalizer, Running
  <2> DEFINE a == [tool |-> AttemptTool(s), step |-> s.currentStep,
                   ok |-> NormalizedOk(s),
                   replanGeneration |-> s.counters.replans]
             n == runs[s.currentStep + 1]
  <2>2. /\ SameStep(s, s')
        /\ s'.phase = "judge"
        /\ s'.toolResult = IF NormalizedOk(s) THEN "ok" ELSE "error"
        /\ s'.counters.replans = s.counters.replans
        /\ s'.attempts = IF AttemptTool(s) = NoTool THEN s.attempts
                         ELSE AppendAttempt(s.attempts, a)
    BY <1>10, <1>a DEF ToolResultNormalizer, SameStep, Channels
  <2>3. ASSUME NormalizedOk(s) PROVE Retried'
    BY <2>2, <2>3 DEF Retried
  <2>4. ASSUME ~NormalizedOk(s) PROVE Retried'
    <3>1. /\ n \in 1..2 /\ LastAttempts(s, n - 1)
          /\ OnSingleStep
      BY <1>b, <2>1, <2>4 DEF ExecutionInv, Retried, OnOneStep
    <3>2. s.currentStep + 1 \in 1..Len(s.plan)
      BY <1>h, <2>1 DEF HasRun
    <3>3. s.selectedTool \in Tools
      <4>1. s.plan[s.currentStep + 1] \in Step
        BY <1>a, <3>2, ElementOfSeq DEF Channels
      <4> QED
        BY <3>1, <4>1 DEF OnSingleStep, Step
    <3>4. AttemptTool(s) = s.selectedTool
      BY <2>4 DEF AttemptTool, NormalizedOk
    <3>5. AttemptTool(s) # NoTool
      BY <3>3, <3>4, AgentGraphAssumption
    <3>6. a \in Attempt
      BY <1>a DEF Attempt, AttemptTool, NormalizedOk, Channels, Counters
    <3>7. SameAttempt(s', a)
      BY <2>2, <3>4 DEF SameAttempt, SameStep
    <3> DEFINE m == Len(s'.attempts)
               l == Len(s.attempts)
    <3> HIDE DEF a
    <3>8. /\ m \in Nat \ {0}
          /\ s'.attempts[m] = a
          /\ l > 0 => m >= 2 /\ s'.attempts[m - 1] = s.attempts[l]
      <4>1. s.attempts \in Seq(Attempt) /\ Len(s.attempts) <= AttemptsCap
        BY DEF TypeOK, Channels
      <4>2. s'.attempts = AppendAttempt(s.attempts, a)
        BY <2>2, <3>5
      <4> DEFINE r == AppendAttempt(s.attempts, a)
      <4>3. /\ Len(r) \in Nat \ {0}
            /\ r[Len(r)] = a
            /\ Len(s.attempts) > 0 =>
                 Len(r) >= 2 /\ r[Len(r) - 1] = s.attempts[Len(s.attempts)]
        BY <3>6, <4>1, LastAttemptsKept
      <4> QED
        BY <4>2, <4>3
    <3>9. l \in Nat
      BY DEF TypeOK, Channels
    <3>10. n = 2 => /\ m >= 2
                    /\ SameAttempt(s', s'.attempts[m - 1])
      <4> SUFFICES ASSUME n = 2
                   PROVE  m >= 2 /\ SameAttempt(s', s'.attempts[m - 1])
        OBVIOUS
      <4>1. l \in 1..l /\ l > l - 1
        BY <3>1, <3>9 DEF LastAttempts
      <4>2. SameAttempt(s, s.attempts[l])
        BY <3>1, <4>1 DEF LastAttempts
      <4> QED
        BY <2>2, <3>8, <4>1, <4>2 DEF SameAttempt, SameStep
    <3>11. LastAttempts(s', n)
      <4>1. n <= m
        BY <3>1, <3>8, <3>10
      <4>2. ASSUME NEW k \in 1..m, k > m - n
            PROVE  SameAttempt(s', s'.attempts[k])
        <5>1. k = m \/ (k = m - 1 /\ n = 2)
          BY <3>1, <3>8, <4>2
        <5> QED
          BY <3>7, <3>8, <3>10, <5>1
      <4> QED
        BY <4>1, <4>2 DEF LastAttempts
    <3>12. runs' = runs
      BY <1>10 DEF ToolResultNormalizer
    <3> QED
      BY <2>2, <3>1, <3>11, <3>12 DEF Retried, SameStep
  <2> QED
    BY <1>10, <1>i, <2>1, <2>2, <2>3, <2>4 DEF ToolResultNormalizer, HasRun
<1>11. CASE Critic
  <2>1. s.phase = "judge"
    BY <1>11, <1>b, PhaseOfNode DEF Critic, Running
  <2>2. CASE \E d \in Decisions :
               s' = [s EXCEPT !.phase = "route", !.criticDecision = d]
    <3>1. /\ SameStep(s, s')
          /\ s'.phase = "route"
          /\ s'.toolResult = s.toolResult
          /\ s'.attempts = s.attempts
          /\ s'.counters = s.counters
      BY <1>a, <2>2 DEF SameStep, Channels
    <3>2. runs' = runs
      BY <1>11 DEF Critic
    <3>3. Retried'
      BY <2>1, <3>1, <3>2
      DEF ExecutionInv, Retried, LastAttempts, SameAttempt, SameStep
    <3> QED
      BY <1>i, <2>1, <3>1, <3>2, <3>3 DEF HasRun
  <2> QED
    BY <1>11, <1>c, <2>2 DEF Critic
<1>12. CASE Router
  BY <1>12, ExecutionRouted
<1>13. CASE Generator
  BY <1>13, <1>c, <1>d DEF Generator
<1>14. CASE Chat
  BY <1>14, <1>c, <1>d DEF Chat
<1>15. CASE TerminalResponse
  BY <1>15, <1>d DEF TerminalResponse
<1>16. CASE StartRun
  <2>1. s'.phase = "supervisor" /\ s'.plan = <<>> /\ s'.reviewRequest = <<>>
    BY <1>16, <1>a DEF StartRun, InitialRunState, Channels
  <2>2. NothingRun'
    BY <2>1 DEF NothingRun
  <2> QED
    BY <2>1, <2>2, ExecutionReplaced DEF ToRun, HasRun
<1>17. CASE ApproveInTime
  <2> DEFINE begun == BeginStep(s, 0)
  <2>1. /\ s' = [begun EXCEPT !.reviewRequest = <<>>]
        /\ runs' = runs
        /\ s.reviewRequest # <<>>
    BY <1>17 DEF ApproveInTime, ReviewPending, ResumeInTime, UpdateInTime
  <2>2. 0 < Len(s.plan)
    BY <1>17, <1>a DEF ApproveInTime, Channels
  <2>3. begun \in Channels
    BY <1>a, <2>2, BeginStepType
  <2>4. NothingRun /\ GroupsAdjacent(s.plan) /\ GroupsFit(s.plan)
    BY <1>b, <2>1 DEF ReviewUntouched, ExecutionInv, Validated
  <2> HIDE DEF begun
  <2>5. /\ s'.plan = begun.plan
        /\ s'.phase = begun.phase
        /\ s'.currentStep = begun.currentStep
    BY <2>1, <2>3 DEF Channels
  <2> QED
    BY <1>f, <2>1, <2>2, <2>3, <2>4, <2>5 DEF begun
<1>18. CASE RejectInTime
  BY <1>18, <1>c DEF RejectInTime, ReviewPending, UpdateInTime
<1>19. CASE ReplanInTime
  <2>1. s'.phase = "research" /\ s'.plan = <<>> /\ s'.reviewRequest = <<>>
    BY <1>19, <1>a DEF ReplanInTime, ReviewPending, ResumeInTime, UpdateInTime, Channels
  <2>2. NothingRun'
    BY <2>1 DEF NothingRun
  <2> QED
    BY <2>1, <2>2, ExecutionReplaced DEF ToRun, HasRun
<1>20. CASE Abort
  BY <1>20, ExecutionUntouched DEF Abort
<1>21. CASE UNCHANGED threadVars
  BY <1>21, ExecutionUntouched DEF threadVars
<1> QED
  BY <1>1, <1>2, <1>3, <1>4, <1>5, <1>6, <1>7, <1>8, <1>9, <1>10, <1>11,
     <1>12, <1>13, <1>14, <1>15, <1>16, <1>17, <1>18, <1>19, <1>20, <1>21
  DEF NextInTime, NodeStep

(* How often steps were executed is as ExecutionInv says in every state    *)
(* the program reaches before a call comes late.                           *)
THEOREM ExecutionInvariance == Spec => [](InTime => ExecutionInv)
<1>1. Init => ExecutionInv
  <2> SUFFICES ASSUME Init PROVE ExecutionInv
    OBVIOUS
  <2>1. /\ s.phase = "supervisor" /\ s.plan = <<>> /\ s.reviewRequest = <<>>
        /\ Len(<<>>) = 0
    BY DEF Init
  <2> QED
    BY <2>1 DEF ExecutionInv, Validated, BetweenGroups, LaterNotRun, Retried,
                GroupWhole, RetriedOnce, ToRun, HasRun
<1>2. /\ TypeOK /\ TypeOK' /\ (InTime => IInv)
      /\ (InTime => ExecutionInv) /\ [Next]_vars
      => (InTime => ExecutionInv)'
  BY StillInTime, ExecutionStep
<1> QED
  BY <1>1, <1>2, TypeCorrect, Invariance, PTL DEF Spec

(* The parallel executor never splits a group over two passes.             *)
THEOREM GroupsRunWhole == Spec => []GroupRunWhole
<1>1. (InTime => ExecutionInv) => GroupRunWhole
  BY DEF ExecutionInv, GroupWhole, GroupRunWhole
<1> QED
  BY <1>1, ExecutionInvariance, PTL

(* The router never lets a step of a plan be executed a third time, also   *)
(* when attempts of earlier runs on the thread are still in the channel.   *)
THEOREM StepsAreRetriedOnce == Spec => []RetriedAtMostOnce
<1>1. (InTime => ExecutionInv) => RetriedAtMostOnce
  BY DEF ExecutionInv, RetriedOnce, RetriedAtMostOnce
<1> QED
  BY <1>1, ExecutionInvariance, PTL

-----------------------------------------------------------------------------
(***************************************************************************)
(* What a run may spend.  The limits are looked at by the router only, so  *)
(* the invariant says where a run can be that has used up its tool calls:  *)
(* at its end, or on the way from the executor to the router.  A pending   *)
(* review is never that of a run at a limit, since approving it starts the *)
(* executor without a pass of the router.                                  *)
(***************************************************************************)
LimitsChecked ==
  /\ tasks = {"plan_validator"} \/ s.reviewRequest # <<>> =>
       ~LimitReached(s.counters)
  /\ s.counters.toolCalls >= ToolCallLimit =>
       \/ s.phase \in {"fatal", "complete"}
       \/ s.phase = "normalize_tool_result" /\ tasks = {"router"}

WithinBudget ==
  /\ s.counters.turn <= Turns
  /\ s.counters.turn = s.counters.replans + s.counters.stepRetries
  /\ s.counters.stepRetries <= StepRetries
  /\ s.counters.toolCalls < ToolCallLimit + GroupLimit

BudgetInv == WithinBudget /\ LimitsChecked

(* The limits are natural numbers.                                         *)
LEMMA LimitsType ==
  /\ Turns \in Nat \ {0} /\ StepRetries \in Nat \ {0}
  /\ ToolCallLimit \in Nat \ {0} /\ GroupLimit \in Nat \ {0}
BY AgentGraphAssumption, PlanRulesAssumption DEF ToolCallLimit

(* Only a plan to validate schedules the validator.                        *)
LEMMA ValidatorTarget ==
  ASSUME NEW phase \in Phases, RouterTarget(phase) = {"plan_validator"}
  PROVE  phase = "validate_plan"
<1>1. phase # "complete" /\ NodeOfPhase(phase) = "plan_validator"
  BY DEF RouterTarget
<1> QED
  BY <1>1, ZenonT(60) DEF NodeOfPhase, Phases

(* A step that spends nothing keeps the invariant when it leads neither to *)
(* the validator nor to a new review, and a run out of tool calls nowhere  *)
(* but to its end.                                                         *)
LEMMA NothingSpent ==
  ASSUME BudgetInv, s'.counters = s.counters,
         tasks' = {"plan_validator"} => ~LimitReached(s.counters),
         s'.reviewRequest # <<>> => ~LimitReached(s.counters),
         s.counters.toolCalls >= ToolCallLimit =>
           \/ s'.phase \in {"fatal", "complete"}
           \/ s'.phase = "normalize_tool_result" /\ tasks' = {"router"}
  PROVE  BudgetInv'
<1>1. WithinBudget'
  BY DEF BudgetInv, WithinBudget, ToolCallLimit
<1>2. LimitsChecked'
  BY DEF LimitsChecked, LimitReached, ToolCallLimit, ReplanLimit
<1> QED
  BY <1>1, <1>2 DEF BudgetInv

(* An execution of n steps, n not more than a group may have.              *)
LEMMA ToolCallsSpent ==
  ASSUME TypeOK, BudgetInv, NEW n \in Nat, n <= GroupLimit,
         s.counters.toolCalls < ToolCallLimit,
         s'.counters = CountToolCalls(s.counters, n),
         s'.phase = "normalize_tool_result", tasks' = {"router"},
         s'.reviewRequest = <<>>
  PROVE  BudgetInv'
<1>1. s.counters \in Counters
  BY DEF TypeOK, Channels
<1>2. /\ s'.counters.turn = s.counters.turn
      /\ s'.counters.replans = s.counters.replans
      /\ s'.counters.stepRetries = s.counters.stepRetries
      /\ s'.counters.toolCalls = s.counters.toolCalls + n
  BY <1>1 DEF CountToolCalls, Counters
<1>3. s.counters.toolCalls \in Nat
  BY <1>1 DEF Counters
<1>4. ToolCallLimit' = ToolCallLimit
  BY DEF ToolCallLimit
<1>5. s.counters.toolCalls + n < ToolCallLimit + GroupLimit
  BY <1>3, LimitsType
<1>6. WithinBudget'
  BY <1>2, <1>4, <1>5 DEF BudgetInv, WithinBudget
<1>7. LimitsChecked'
  BY <1>4 DEF LimitsChecked
<1> QED
  BY <1>6, <1>7 DEF BudgetInv

(* The router.  A replan or a retry takes the turn counter up to its limit *)
(* at most.                                                                *)
LEMMA BudgetRouted ==
  ASSUME TypeOK, TypeOK', IInv, BudgetInv, Router
  PROVE  BudgetInv'
<1>1. s' = Route(s) /\ tasks' = RouterTarget(s'.phase)
  BY DEF Router
<1>2. /\ s \in Channels /\ s.counters \in Counters
      /\ s.phase \in Phases /\ s'.phase \in Phases
  BY DEF TypeOK, Channels
<1>3. DecisionAwaited /\ ReviewUntouched /\ LimitsChecked
  BY DEF IInv, BudgetInv
<1>4. tasks' = {"plan_validator"} => s'.phase = "validate_plan"
  BY <1>1, <1>2, ValidatorTarget
<1>5. CASE /\ s' = s
           /\ s.phase \in {"complete", "fatal"} \/ ~LimitReached(s.counters)
  <2>1. tasks' = {"plan_validator"} => ~LimitReached(s.counters)
    BY <1>4, <1>5
  <2>2. s.counters.toolCalls >= ToolCallLimit =>
          s'.phase \in {"fatal", "complete"}
    BY <1>5 DEF LimitReached
  <2> QED
    BY <1>3, <1>5, <2>1, <2>2, NothingSpent DEF LimitsChecked
<1>6. CASE s' = Fail(s)
  <2>1. /\ s'.phase = "fatal"
        /\ s'.counters = s.counters
        /\ s'.reviewRequest = s.reviewRequest
    BY <1>2, <1>6 DEF Fail, Channels
  <2> QED
    BY <1>3, <1>4, <2>1, NothingSpent DEF LimitsChecked
<1>7. s.phase = "route" => s.reviewRequest = <<>>
  BY <1>3 DEF ReviewUntouched
<1>8. CASE /\ s.phase = "route" /\ ~LimitReached(s.counters)
           /\ s' = Advance(s)
  <2>1. s'.counters = s.counters /\ s'.reviewRequest = s.reviewRequest
    BY <1>2, <1>8, AdvanceEffect
  <2>2. ~(s.counters.toolCalls >= ToolCallLimit)
    BY <1>8 DEF LimitReached
  <2> QED
    BY <1>7, <1>8, <2>1, <2>2, NothingSpent
<1>9. CASE /\ s.phase = "route" /\ ~LimitReached(s.counters)
           /\ s' = Replan(s) \/ s' = Retry(s)
  <2> DEFINE k == s.counters
             l == s'.counters
  <2>1. /\ s'.phase \in {"research", "execute"}
        /\ s'.reviewRequest = <<>>
    BY <1>2, <1>7, <1>9, RecoveryEffect DEF SameStep
  <2>2. l = CountReplan(k) \/ l = CountRetry(k)
    BY <1>2, <1>9 DEF Replan, Retry, Channels
  <2>3. /\ l.turn = k.turn + 1
        /\ l.toolCalls = k.toolCalls
        /\ \/ l.replans = k.replans + 1 /\ l.stepRetries = k.stepRetries
           \/ l.replans = k.replans /\ l.stepRetries = k.stepRetries + 1
    BY <1>2, <2>2 DEF CountReplan, CountRetry, Counters
  <2>4. /\ k.turn \in Nat /\ k.toolCalls \in Nat
        /\ k.replans \in Nat /\ k.stepRetries \in Nat
    BY <1>2 DEF Counters
  <2>5. /\ k.turn < Turns /\ k.toolCalls < ToolCallLimit
        /\ k.stepRetries < StepRetries
    BY <1>9, <2>4, LimitsType DEF LimitReached
  <2>6. k.turn = k.replans + k.stepRetries
    BY DEF BudgetInv, WithinBudget
  <2>7. ToolCallLimit' = ToolCallLimit
    BY DEF ToolCallLimit
  <2> HIDE DEF k, l
  <2>8. /\ l.turn <= Turns
        /\ l.turn = l.replans + l.stepRetries
        /\ l.stepRetries <= StepRetries
        /\ l.toolCalls < ToolCallLimit
        /\ l.toolCalls < ToolCallLimit + GroupLimit
        /\ ~(l.toolCalls >= ToolCallLimit)
    BY <2>3, <2>4, <2>5, <2>6, LimitsType
  <2>9. WithinBudget'
    BY <2>7, <2>8 DEF WithinBudget, l
  <2>10. LimitsChecked'
    BY <1>4, <2>1, <2>7, <2>8 DEF LimitsChecked, l
  <2> QED
    BY <2>9, <2>10 DEF BudgetInv
<1> QED
  BY <1>1, <1>3, <1>5, <1>6, <1>8, <1>9, RouteOutcome

(* Every step of the graph and every call keeps the invariant.             *)
LEMMA BudgetStep ==
  ASSUME TypeOK, TypeOK', IInv, ExecutionInv, BudgetInv, [NextInTime]_threadVars
  PROVE  BudgetInv'
<1>a. /\ s \in Channels /\ s.counters \in Counters
      /\ s.counters.toolCalls \in Nat
      /\ Len(s.plan) \in Nat /\ s.currentStep \in Nat
  <2>1. s \in Channels
    BY DEF TypeOK
  <2>2. s.counters \in Counters /\ s.plan \in Seq(Step) /\ s.currentStep \in Nat
    BY <2>1 DEF Channels
  <2>3. s.counters.toolCalls \in Nat
    BY <2>2 DEF Counters
  <2> QED BY <2>1, <2>2, <2>3
<1>b. Scheduled /\ ReviewUntouched /\ LimitsChecked
  BY DEF IInv, BudgetInv
<1>c. s.phase \notin {"await_plan_review", "fatal", "complete"} =>
        s.reviewRequest = <<>>
  BY <1>b DEF ReviewUntouched
<1>d. /\ "plan_validator" # "router" /\ "plan_validator" # "research_fs"
      /\ "plan_validator" # "research_join"
      /\ {"router"} # {"plan_validator"}
      /\ {"supervisor"} # {"plan_validator"}
      /\ {"research_join"} # {"plan_validator"}
      /\ {"research_fs", "research_vector"} # {"plan_validator"}
      /\ {"router", "memory_persist"} # {"plan_validator"}
  OBVIOUS
(* A node that ran alone, of a run that was not at its end, spent nothing. *)
<1>e. ASSUME s'.counters = s.counters, s'.reviewRequest = s.reviewRequest,
             tasks' # {"plan_validator"}, tasks # {"router"},
             s.phase \notin {"fatal", "complete"}
      PROVE  BudgetInv'
  BY <1>b, <1>e, NothingSpent DEF LimitsChecked
(* A step that ends the run. *)
<1>f. ASSUME s'.counters = s.counters, s'.reviewRequest = s.reviewRequest,
             tasks' # {"plan_validator"}, s'.phase \in {"fatal", "complete"}
      PROVE  BudgetInv'
  BY <1>b, <1>f, NothingSpent DEF LimitsChecked
<1>g. /\ Fail(s).phase = "fatal"
      /\ Fail(s).counters = s.counters
      /\ Fail(s).reviewRequest = s.reviewRequest
  BY <1>a DEF Fail, Channels
<1>h. ASSUME NEW answer
      PROVE  /\ Complete(s, answer).phase = "complete"
             /\ Complete(s, answer).counters = s.counters
             /\ Complete(s, answer).reviewRequest = s.reviewRequest
  BY <1>a DEF Complete, Channels
<1>i. ASSUME UNCHANGED <<s, tasks>>
      PROVE  BudgetInv'
  BY <1>i DEF BudgetInv, WithinBudget, LimitsChecked, LimitReached,
              ToolCallLimit, ReplanLimit
<1>1. CASE Supervisor
  <2>1. s.phase = "supervisor" /\ tasks = {"supervisor"}
    BY <1>1, <1>b, PhaseOfNode DEF Supervisor, Running
  <2>2. /\ s'.counters = s.counters
        /\ s'.reviewRequest = s.reviewRequest
    BY <1>1, <1>a, <1>g DEF Supervisor, Channels
  <2> QED
    BY <1>1, <1>d, <1>e, <2>1, <2>2 DEF Supervisor, GotoRouter
<1>2. CASE ResearcherCoordinator
  <2>1. s.phase = "research" /\ tasks = {"researcher_coordinator"}
    BY <1>2, <1>b, PhaseOfNode DEF ResearcherCoordinator, Running
  <2> QED
    BY <1>2, <1>d, <1>e, <2>1 DEF ResearcherCoordinator
<1>3. CASE ResearchBranches
  <2>1. s.phase = "research" /\ tasks = {"research_fs", "research_vector"}
    BY <1>3, <1>b, PhaseOfNode DEF ResearchBranches
  <2>2. /\ s'.counters = s.counters
        /\ s'.reviewRequest = s.reviewRequest
    BY <1>3, <1>a DEF ResearchBranches, Channels
  <2> QED
    BY <1>3, <1>d, <1>e, <2>1, <2>2 DEF ResearchBranches
<1>4. CASE ResearchJoin
  <2>1. s.phase = "research" /\ tasks = {"research_join"}
    BY <1>4, <1>b, PhaseOfNode DEF ResearchJoin, Running
  <2>2. /\ s'.counters = s.counters
        /\ s'.reviewRequest = s.reviewRequest
    BY <1>4, <1>a DEF ResearchJoin, Channels
  <2> QED
    BY <1>4, <1>d, <1>e, <2>1, <2>2 DEF ResearchJoin, GotoRouter
<1>5. CASE Planner
  <2>1. s.phase = "plan" /\ tasks = {"planner"}
    BY <1>5, <1>b, PhaseOfNode DEF Planner, Running
  <2>2. /\ s'.counters = s.counters
        /\ s'.reviewRequest = s.reviewRequest
    BY <1>5, <1>a, <1>g DEF Planner, Channels
  <2> QED
    BY <1>5, <1>d, <1>e, <2>1, <2>2 DEF Planner, GotoRouter
<1>6. CASE PlanValidator
  <2>1. s.phase = "validate_plan" /\ tasks = {"plan_validator"}
    BY <1>6, <1>b, PhaseOfNode DEF PlanValidator, Running
  <2>2. ~LimitReached(s.counters) /\ ~(s.counters.toolCalls >= ToolCallLimit)
    BY <1>b, <2>1 DEF LimitsChecked, LimitReached
  <2>3. s'.counters = s.counters
    BY <1>6, <1>a, <1>g DEF PlanValidator, BeginStep, BeginWith, Channels
  <2> QED
    BY <1>6, <1>d, <2>2, <2>3, NothingSpent DEF PlanValidator, GotoRouter
<1>7. CASE AwaitPlanReview
  BY <1>7, <1>i DEF AwaitPlanReview
<1>j. ASSUME s.phase \in ToRun, tasks # {"router"}
      PROVE  /\ s.counters.toolCalls < ToolCallLimit
             /\ s.reviewRequest = <<>>
  <2>1. ~(s.counters.toolCalls >= ToolCallLimit)
    BY <1>b, <1>j DEF LimitsChecked, ToRun
  <2> QED
    BY <1>a, <1>c, <1>j, <2>1, LimitsType DEF ToRun
<1>8. CASE Execute
  <2>1. s.phase = "execute" /\ tasks = {"execute"}
    BY <1>8, <1>b, PhaseOfNode DEF Execute, Running
  <2>2. PICK raw \in {"text", "error", "list"} : s' = ToolsRan(s, raw, 1)
    BY <1>8 DEF Execute
  <2>3. /\ s'.counters = CountToolCalls(s.counters, 1)
        /\ s'.phase = "normalize_tool_result"
        /\ s'.reviewRequest = s.reviewRequest
    BY <1>a, <2>2 DEF ToolsRan, Channels
  <2>4. 1 \in Nat /\ 1 <= GroupLimit
    BY LimitsType
  <2>5. tasks' = {"router"}
    BY <1>8 DEF Execute, GotoRouter
  <2> QED
    BY <1>d, <1>j, <2>1, <2>3, <2>4, <2>5, ToolCallsSpent DEF ToRun
<1>9. CASE ExecuteParallel
  <2> DEFINE first == s.currentStep + 1
  <2>1. s.phase = "execute_parallel" /\ tasks = {"execute_parallel"}
    BY <1>9, <1>b, PhaseOfNode DEF ExecuteParallel, Running
  <2>2. /\ first \in 1..Len(s.plan)
        /\ Grouped(s.plan[first])
        /\ GroupEndsAt(s.plan, s.currentStep)
        /\ GroupsAdjacent(s.plan) /\ GroupsFit(s.plan)
    BY <1>a, <2>1
    DEF IInv, OnOneStep, ExecutionInv, Validated, BetweenGroups, ToRun
  <2>3. PICK last \in first..Len(s.plan) :
          /\ IsGroupRun(s.plan, first, last)
          /\ s' = [ToolsRan(s, "list", last - first + 1) EXCEPT
                     !.parallelResult = TRUE, !.currentStep = last - 1]
    <3>1. ~(first > Len(s.plan))
      BY <1>a, <2>2
    <3> QED
      BY <1>9, <3>1 DEF ExecuteParallel
  <2>4. last - first + 1 \in Nat /\ first - 1 = s.currentStep
    BY <1>a, <2>2
  <2>5. last - first + 1 <= GroupLimit
    <3>1. s.plan \in Seq(Step)
      BY <1>a DEF Channels
    <3> QED
      BY <2>2, <2>3, <2>4, <3>1, PassIsGroup
  <2>6. /\ s'.counters = CountToolCalls(s.counters, last - first + 1)
        /\ s'.phase = "normalize_tool_result"
        /\ s'.reviewRequest = s.reviewRequest
    BY <1>a, <2>3 DEF ToolsRan, Channels
  <2>7. tasks' = {"router"}
    BY <1>9 DEF ExecuteParallel, GotoRouter
  <2>8. s.counters.toolCalls < ToolCallLimit /\ s.reviewRequest = <<>>
    BY <1>j, <2>1 DEF ToRun
  <2> HIDE DEF first
  <2> QED
    BY <2>4, <2>5, <2>6, <2>7, <2>8, ToolCallsSpent
<1>10. CASE ToolResultNormalizer
  <2>1. /\ s.phase = "normalize_tool_result"
        /\ tasks = {"tool_result_normalizer"}
    BY <1>10, <1>b, PhaseOfNode DEF ToolResultNormalizer, Running
  <2>2. /\ s'.counters = s.counters
        /\ s'.reviewRequest = s.reviewRequest
    BY <1>10, <1>a DEF ToolResultNormalizer, Channels
  <2> QED
    BY <1>10, <1>d, <1>e, <2>1, <2>2 DEF ToolResultNormalizer, GotoRouter
<1>11. CASE Critic
  <2>1. s.phase = "judge" /\ tasks = {"critic"}
    BY <1>11, <1>b, PhaseOfNode DEF Critic, Running
  <2>2. /\ s'.counters = s.counters
        /\ s'.reviewRequest = s.reviewRequest
    BY <1>11, <1>a, <1>g DEF Critic, Channels
  <2> QED
    BY <1>11, <1>d, <1>e, <2>1, <2>2 DEF Critic, GotoRouter
<1>12. CASE Router
  BY <1>12, BudgetRouted
<1>13. CASE Generator
  BY <1>13, <1>d, <1>f, <1>g, <1>h DEF Generator
<1>14. CASE Chat
  BY <1>14, <1>d, <1>f, <1>g, <1>h DEF Chat, GotoRouter
<1>15. CASE TerminalResponse
  BY <1>15, <1>d, <1>f, <1>h DEF TerminalResponse, GotoRouter
<1>16. CASE StartRun
  <2>1. s'.counters = ZeroCounters /\ s'.reviewRequest = <<>>
    BY <1>16, <1>a DEF StartRun, InitialRunState, Channels
  <2>2. /\ ZeroCounters.turn = 0 /\ ZeroCounters.replans = 0
        /\ ZeroCounters.stepRetries = 0 /\ ZeroCounters.toolCalls = 0
    BY DEF ZeroCounters
  <2>3. ToolCallLimit' = ToolCallLimit
    BY DEF ToolCallLimit
  <2>4. tasks' # {"plan_validator"}
    BY <1>16, <1>d DEF StartRun
  <2>5. WithinBudget'
    BY <2>1, <2>2, <2>3, LimitsType DEF WithinBudget
  <2>6. LimitsChecked'
    BY <2>1, <2>2, <2>3, <2>4, LimitsType DEF LimitsChecked
  <2> QED
    BY <2>5, <2>6 DEF BudgetInv
(* The calls of a reviewer. *)
<1>k. ASSUME s.reviewRequest # <<>>, s'.counters = s.counters,
             tasks' = IF tasks = {"router"} THEN tasks
                      ELSE RouterTarget(s'.phase),
             s'.phase # "validate_plan"
      PROVE  BudgetInv'
  <2>1. ~LimitReached(s.counters) /\ ~(s.counters.toolCalls >= ToolCallLimit)
    BY <1>b, <1>k DEF LimitsChecked, LimitReached
  <2> QED
    BY <1>k, <2>1, NothingSpent
<1>17. CASE ApproveInTime
  <2> DEFINE begun == BeginStep(s, 0)
  <2>1. /\ s' = [begun EXCEPT !.reviewRequest = <<>>]
        /\ tasks' = IF tasks = {"router"} THEN tasks ELSE RouterTarget(s'.phase)
        /\ s.reviewRequest # <<>>
    BY <1>17 DEF ApproveInTime, ReviewPending, ResumeInTime, UpdateInTime
  <2>2. 0 < Len(s.plan)
    BY <1>17, <1>a DEF ApproveInTime, Channels
  <2>3. /\ begun \in Channels
        /\ begun.counters = s.counters
        /\ begun.phase \in ToRun
    BY <1>a, <2>2, BeginStepType, BeginStepEffect, 0 \in Nat
  <2> HIDE DEF begun
  <2>4. s'.counters = s.counters /\ s'.phase \in ToRun
    BY <2>1, <2>3 DEF Channels
  <2> QED
    BY <1>k, <2>1, <2>4 DEF ToRun
<1>18. CASE RejectInTime
  BY <1>18, <1>g, <1>k DEF RejectInTime, ReviewPending, UpdateInTime
<1>19. CASE ReplanInTime
  <2>1. s'.counters = s.counters /\ s'.phase = "research"
    BY <1>19, <1>a DEF ReplanInTime, ReviewPending, ResumeInTime, UpdateInTime, Channels
  <2> QED
    BY <1>19, <1>k, <2>1
    DEF ReplanInTime, ReviewPending, ResumeInTime, UpdateInTime
<1>20. CASE Abort
  BY <1>20, <1>i DEF Abort
<1>21. CASE UNCHANGED threadVars
  BY <1>21, <1>i DEF threadVars
<1> QED
  BY <1>1, <1>2, <1>3, <1>4, <1>5, <1>6, <1>7, <1>8, <1>9, <1>10, <1>11,
     <1>12, <1>13, <1>14, <1>15, <1>16, <1>17, <1>18, <1>19, <1>20, <1>21
  DEF NextInTime, NodeStep

(* The counters stay within their limits until a call comes late.          *)
THEOREM BudgetInvariance == Spec => [](InTime => BudgetInv)
<1>1. Init => BudgetInv
  <2> SUFFICES ASSUME Init PROVE BudgetInv
    OBVIOUS
  <2>1. /\ s.counters.turn = 0 /\ s.counters.replans = 0
        /\ s.counters.stepRetries = 0 /\ s.counters.toolCalls = 0
        /\ s.reviewRequest = <<>> /\ tasks = {}
    BY DEF Init, ZeroCounters
  <2> QED
    BY <2>1, LimitsType DEF BudgetInv, WithinBudget, LimitsChecked
<1>2. /\ TypeOK /\ TypeOK' /\ (InTime => IInv)
      /\ (InTime => ExecutionInv) /\ (InTime => BudgetInv) /\ [Next]_vars
      => (InTime => BudgetInv)'
  BY StillInTime, BudgetStep
<1> QED
  BY <1>1, <1>2, TypeCorrect, Invariance, ExecutionInvariance, PTL DEF Spec

(* No run takes more turns or retries than it may, every turn is a replan  *)
(* or a retry, and the tool calls exceed their limit by less than a group. *)
THEOREM BudgetIsKept == Spec => []BudgetKept
<1>1. (InTime => BudgetInv) => BudgetKept
  BY DEF BudgetInv, WithinBudget, BudgetKept
<1> QED
  BY <1>1, BudgetInvariance, PTL

-----------------------------------------------------------------------------
(***************************************************************************)
(* How a run ends.  A loop that runs has a node to run (Alive), and a      *)
(* review is pending in a loop only until the loop pauses for it: a run    *)
(* never goes on, or ends, over the head of its reviewer (ReviewAlive).    *)
(***************************************************************************)
Alive ==
  /\ running => started > 0 /\ tasks # {}
  /\ started = 0 => tasks = {} /\ s.reviewRequest = <<>>
  /\ EndsComplete

ReviewAlive ==
  /\ s.reviewRequest # <<>> =>
       \/ s.phase = "await_plan_review"
       \/ s.phase = "fatal" /\ ~running
  /\ s.phase = "await_plan_review" => s.reviewRequest # <<>>

LifeInv == Alive /\ ReviewAlive

(***************************************************************************)
(* What a step is to the callers of a session.                             *)
(***************************************************************************)

(* The loop goes on, with no review in sight. *)
GoesOn ==
  /\ running /\ running' /\ started' = started /\ tasks' # {}
  /\ s.reviewRequest = <<>> /\ s'.reviewRequest = <<>>
  /\ s'.phase # "await_plan_review"

(* The loop goes on, towards a review or past the router on the way to it. *)
GoesToReview ==
  /\ running /\ running' /\ started' = started /\ tasks' # {}
  /\ s'.reviewRequest # <<>> /\ s'.phase = "await_plan_review"

(* The loop stops between two supersteps. *)
Stops == running /\ ~running' /\ UNCHANGED <<s, tasks, started>>

Ends ==
  /\ running /\ ~running' /\ started' = started /\ tasks' = {}
  /\ s.reviewRequest = <<>> /\ s'.reviewRequest = <<>>
  /\ s'.phase = "complete"

Starts ==
  /\ ~running /\ running' /\ started' = started + 1 /\ tasks' # {}
  /\ s'.reviewRequest = <<>> /\ s'.phase # "await_plan_review"

Resumes ==
  /\ ~running /\ running' /\ started' = started /\ tasks' # {}
  /\ s.reviewRequest # <<>>
  /\ s'.reviewRequest = <<>> /\ s'.phase # "await_plan_review"

Rejects ==
  /\ ~running /\ ~running' /\ started' = started
  /\ tasks' \notin {{}, {"await_plan_review"}}
  /\ s.reviewRequest # <<>> /\ s'.reviewRequest # <<>>
  /\ s'.phase = "fatal"

KindOfStep ==
  GoesOn \/ GoesToReview \/ Stops \/ Ends \/ Starts \/ Resumes \/ Rejects

(* A node that runs in another phase than that of the review finds none    *)
(* pending.                                                                *)
LEMMA NoReviewAtWork ==
  ASSUME TypeOK, Scheduled, LifeInv, running,
         \/ tasks \in {{n} : n \in Nodes \ {"router", "await_plan_review"}}
         \/ tasks = {"research_fs", "research_vector"}
  PROVE  s.reviewRequest = <<>> /\ s.phase # "await_plan_review"
<1>1. s.phase # "await_plan_review"
  BY ZenonT(60) DEF Scheduled, NodeOfPhase
<1> QED
  BY <1>1 DEF LifeInv, ReviewAlive

(* The router goes on, or ends the run; it passes a pending review on      *)
(* because the run is not at a limit.                                      *)
LEMMA RouterKind ==
  ASSUME TypeOK, TypeOK', IInv, BudgetInv, LifeInv, Router
  PROVE  GoesOn \/ GoesToReview \/ Ends
<1>1. /\ s' = Route(s) /\ tasks' = RouterTarget(s'.phase)
      /\ running /\ running' = (tasks' # {}) /\ started' = started
  BY DEF Router
<1>2. s \in Channels
  BY DEF TypeOK
<1>3. CASE s.reviewRequest # <<>>
  <2>1. s.phase = "await_plan_review" /\ ~LimitReached(s.counters)
    BY <1>1, <1>3 DEF LifeInv, ReviewAlive, BudgetInv, LimitsChecked
  <2>2. s.criticDecision = "none"
    BY <1>3 DEF IInv, ReviewUntouched
  <2>3. s' = s
    BY <1>1, <2>1, <2>2 DEF Route
  <2>4. tasks' # {}
    BY <1>1, <2>1, <2>3 DEF RouterTarget
  <2> QED
    BY <1>1, <1>3, <2>1, <2>3, <2>4 DEF GoesToReview
<1>4. CASE s.reviewRequest = <<>>
  <2>1. s.phase # "await_plan_review"
    BY <1>4 DEF LifeInv, ReviewAlive
  <2>2. /\ s'.reviewRequest = s.reviewRequest
        /\ s'.phase # "await_plan_review"
    <3>1. CASE s' = s
      BY <2>1, <3>1
    <3>2. CASE s' = Fail(s)
      BY <1>2, <3>2 DEF Fail, Channels
    <3>3. CASE s' = Replan(s) \/ s' = Retry(s)
      BY <1>2, <3>3, RecoveryEffect DEF SameStep
    <3>4. CASE s' = Advance(s)
      BY <1>2, <3>4, AdvanceEffect DEF ToRun
    <3>5. DecisionAwaited
      BY DEF IInv
    <3> QED
      BY <1>1, <3>1, <3>2, <3>3, <3>4, <3>5, RouteOutcome
  <2>3. CASE s'.phase = "complete"
    BY <1>1, <1>4, <2>2, <2>3 DEF Ends, RouterTarget
  <2>4. CASE s'.phase # "complete"
    BY <1>1, <1>4, <2>2, <2>4 DEF GoesOn, RouterTarget
  <2> QED
    BY <2>3, <2>4
<1> QED
  BY <1>3, <1>4

(* Every step is of one of the kinds. *)
LEMMA StepHasKind ==
  ASSUME TypeOK, TypeOK', IInv, BudgetInv, LifeInv, [NextInTime]_threadVars
  PROVE  KindOfStep \/ UNCHANGED threadVars
<1>a. s \in Channels /\ started \in Nat /\ Len(s.plan) \in Nat
  BY DEF TypeOK, Channels
<1>b. Scheduled
  BY DEF IInv
<1>c. /\ {"router"} # {} /\ {"router", "memory_persist"} # {}
      /\ {"research_join"} # {} /\ {"research_fs", "research_vector"} # {}
      /\ {"supervisor"} # {} /\ {"router"} # {"await_plan_review"}
  OBVIOUS
<1>d. Fail(s).phase = "fatal" /\ Fail(s).reviewRequest = s.reviewRequest
  BY <1>a DEF Fail, Channels
<1>e. ASSUME NEW answer
      PROVE  /\ Complete(s, answer).phase = "complete"
             /\ Complete(s, answer).reviewRequest = s.reviewRequest
  BY <1>a DEF Complete, Channels
<1>f. ASSUME NEW n \in Nodes \ {"router", "await_plan_review"}, Running(n)
      PROVE  /\ running
             /\ s.reviewRequest = <<>> /\ s.phase # "await_plan_review"
  BY <1>b, <1>f, NoReviewAtWork DEF Running
<1>1. CASE Supervisor
  <2>1. running /\ s.reviewRequest = <<>>
    BY <1>1, <1>f DEF Supervisor, Nodes
  <2>2. /\ s'.reviewRequest = s.reviewRequest
        /\ s'.phase # "await_plan_review"
    BY <1>1, <1>a, <1>d DEF Supervisor, Channels
  <2> QED
    BY <1>1, <1>c, <2>1, <2>2 DEF Supervisor, GotoRouter, GoesOn, KindOfStep
<1>2. CASE ResearcherCoordinator
  <2>1. /\ running
        /\ s.reviewRequest = <<>> /\ s.phase # "await_plan_review"
    BY <1>2, <1>f DEF ResearcherCoordinator, Nodes
  <2> QED
    BY <1>2, <1>c, <2>1 DEF ResearcherCoordinator, GoesOn, KindOfStep
<1>3. CASE ResearchBranches
  <2>1. /\ running
        /\ s.reviewRequest = <<>> /\ s.phase # "await_plan_review"
    BY <1>3, <1>b, NoReviewAtWork DEF ResearchBranches
  <2>2. s'.reviewRequest = s.reviewRequest /\ s'.phase = s.phase
    BY <1>3, <1>a DEF ResearchBranches, Channels
  <2> QED
    BY <1>3, <1>c, <2>1, <2>2 DEF ResearchBranches, GoesOn, KindOfStep
<1>4. CASE ResearchJoin
  <2>1. running /\ s.reviewRequest = <<>>
    BY <1>4, <1>f DEF ResearchJoin, Nodes
  <2>2. s'.reviewRequest = s.reviewRequest /\ s'.phase = "plan"
    BY <1>4, <1>a DEF ResearchJoin, Channels
  <2> QED
    BY <1>4, <1>c, <2>1, <2>2 DEF ResearchJoin, GotoRouter, GoesOn, KindOfStep
<1>5. CASE Planner
  <2>1. running /\ s.reviewRequest = <<>>
    BY <1>5, <1>f DEF Planner, Nodes
  <2>2. /\ s'.reviewRequest = s.reviewRequest
        /\ s'.phase # "await_plan_review"
    BY <1>5, <1>a, <1>d DEF Planner, Channels
  <2> QED
    BY <1>5, <1>c, <2>1, <2>2 DEF Planner, GotoRouter, GoesOn, KindOfStep
<1>6. CASE PlanValidator
  <2>1. running /\ s.reviewRequest = <<>>
    BY <1>6, <1>f DEF PlanValidator, Nodes
  <2>2. /\ BeginStep(s, 0).phase \in ToRun
        /\ BeginStep(s, 0).reviewRequest = s.reviewRequest
    BY <1>a, BeginStepEffect, 0 \in Nat
  <2>3. PICK anchorsFound \in BOOLEAN :
          s' = IF ~Acceptable(s.plan, anchorsFound) THEN Fail(s)
               ELSE IF ReviewRequired(s.plan)
               THEN [s EXCEPT !.phase = "await_plan_review",
                              !.reviewRequest = s.plan]
               ELSE BeginStep(s, 0)
    BY <1>6 DEF PlanValidator
  <2>4. running' = running /\ tasks' # {} /\ started' = started
    BY <1>6, <1>c DEF PlanValidator, GotoRouter
  <2>5. CASE s' \in {Fail(s), BeginStep(s, 0)}
    BY <1>d, <2>1, <2>2, <2>4, <2>5 DEF GoesOn, KindOfStep, ToRun
  <2>6. CASE /\ Acceptable(s.plan, anchorsFound)
             /\ s' = [s EXCEPT !.phase = "await_plan_review",
                               !.reviewRequest = s.plan]
    <3>1. Len(s.plan) > 0
      BY <1>a, <2>6, PlanRulesAssumption DEF Acceptable
    <3>2. s.plan # <<>>
      BY <3>1
    <3>3. s'.phase = "await_plan_review" /\ s'.reviewRequest = s.plan
      BY <1>a, <2>6 DEF Channels
    <3> QED
      BY <2>1, <2>4, <3>2, <3>3 DEF GoesToReview, KindOfStep
  <2> QED
    BY <2>3, <2>5, <2>6
<1>7. CASE AwaitPlanReview
  BY <1>7 DEF AwaitPlanReview, Running, Stops, KindOfStep
<1>8. CASE Execute
  <2>1. running /\ s.reviewRequest = <<>>
    BY <1>8, <1>f DEF Execute, Nodes
  <2>2. /\ s'.reviewRequest = s.reviewRequest
        /\ s'.phase = "normalize_tool_result"
    BY <1>8, <1>a DEF Execute, ToolsRan, Channels
  <2> QED
    BY <1>8, <1>c, <2>1, <2>2 DEF Execute, GotoRouter, GoesOn, KindOfStep
<1>9. CASE ExecuteParallel
  <2>1. running /\ s.reviewRequest = <<>>
    BY <1>9, <1>f DEF ExecuteParallel, Nodes
  <2>2. ASSUME NEW n
        PROVE  /\ ToolsRan(s, "list", n).reviewRequest = s.reviewRequest
               /\ ToolsRan(s, "list", n).phase = "normalize_tool_result"
    BY <1>a DEF ToolsRan, Channels
  <2>3. /\ s'.reviewRequest = s.reviewRequest
        /\ s'.phase = "normalize_tool_result"
    BY <1>9, <1>a, <2>2 DEF ExecuteParallel, ToolsRan, Channels
  <2> QED
    BY <1>9, <1>c, <2>1, <2>3
    DEF ExecuteParallel, GotoRouter, GoesOn, KindOfStep
<1>10. CASE ToolResultNormalizer
  <2>1. running /\ s.reviewRequest = <<>>
    BY <1>10, <1>f DEF ToolResultNormalizer, Nodes
  <2>2. s'.reviewRequest = s.reviewRequest /\ s'.phase = "judge"
    BY <1>10, <1>a DEF ToolResultNormalizer, Channels
  <2> QED
    BY <1>10, <1>c, <2>1, <2>2
    DEF ToolResultNormalizer, GotoRouter, GoesOn, KindOfStep
<1>11. CASE Critic
  <2>1. running /\ s.reviewRequest = <<>>
    BY <1>11, <1>f DEF Critic, Nodes
  <2>2. /\ s'.reviewRequest = s.reviewRequest
        /\ s'.phase # "await_plan_review"
    BY <1>11, <1>a, <1>d DEF Critic, Channels
  <2> QED
    BY <1>11, <1>c, <2>1, <2>2 DEF Critic, GotoRouter, GoesOn, KindOfStep
<1>12. CASE Router
  BY <1>12, RouterKind DEF KindOfStep
<1>13. CASE Generator
  <2>1. running /\ s.reviewRequest = <<>>
    BY <1>13, <1>f DEF Generator, Nodes
  <2> QED
    BY <1>13, <1>c, <1>d, <1>e, <2>1 DEF Generator, GoesOn, KindOfStep
<1>14. CASE Chat
  <2>1. running /\ s.reviewRequest = <<>>
    BY <1>14, <1>f DEF Chat, Nodes
  <2> QED
    BY <1>14, <1>c, <1>d, <1>e, <2>1 DEF Chat, GotoRouter, GoesOn, KindOfStep
<1>15. CASE TerminalResponse
  <2>1. running /\ s.reviewRequest = <<>>
    BY <1>15, <1>f DEF TerminalResponse, Nodes
  <2> QED
    BY <1>15, <1>c, <1>e, <2>1
    DEF TerminalResponse, GotoRouter, GoesOn, KindOfStep
<1>16. CASE StartRun
  <2>1. s'.phase = "supervisor" /\ s'.reviewRequest = <<>>
    BY <1>16, <1>a DEF StartRun, InitialRunState, Channels
  <2> QED
    BY <1>16, <1>c, <2>1 DEF StartRun, Starts, KindOfStep
<1>g. ASSUME tasks' = IF tasks = {"router"} THEN tasks
                      ELSE RouterTarget(s'.phase),
             s'.phase \in ToRun \cup {"fatal", "research"}
      PROVE  tasks' # {} /\ tasks' # {"await_plan_review"}
  <2>1. /\ s'.phase # "complete"
        /\ NodeOfPhase(s'.phase) # "await_plan_review"
    BY <1>g DEF NodeOfPhase, ToRun
  <2> QED
    BY <1>c, <1>g, <2>1 DEF RouterTarget
<1>17. CASE ApproveInTime
  <2> DEFINE begun == BeginStep(s, 0)
  <2>1. /\ s' = [begun EXCEPT !.reviewRequest = <<>>]
        /\ tasks' = IF tasks = {"router"} THEN tasks ELSE RouterTarget(s'.phase)
        /\ ~running /\ running' /\ started' = started
        /\ s.reviewRequest # <<>>
    BY <1>17 DEF ApproveInTime, ReviewPending, ResumeInTime, UpdateInTime
  <2>2. 0 < Len(s.plan)
    BY <1>17, <1>a DEF ApproveInTime, Channels
  <2>3. begun \in Channels /\ begun.phase \in ToRun
    BY <1>a, <2>2, BeginStepType, BeginStepEffect, 0 \in Nat
  <2> HIDE DEF begun
  <2>4. s'.reviewRequest = <<>> /\ s'.phase \in ToRun
    BY <2>1, <2>3 DEF Channels
  <2>5. tasks' # {}
    BY <1>g, <2>1, <2>4
  <2> QED
    BY <2>1, <2>4, <2>5 DEF Resumes, KindOfStep, ToRun
<1>18. CASE RejectInTime
  <2>1. /\ s' = Fail(s) /\ s.reviewRequest # <<>>
        /\ tasks' = IF tasks = {"router"} THEN tasks ELSE RouterTarget(s'.phase)
        /\ ~running /\ running' = running /\ started' = started
    BY <1>18 DEF RejectInTime, ReviewPending, UpdateInTime
  <2>2. tasks' # {} /\ tasks' # {"await_plan_review"}
    BY <1>d, <1>g, <2>1
  <2> QED
    BY <1>d, <2>1, <2>2 DEF Rejects, KindOfStep
<1>19. CASE ReplanInTime
  <2>1. /\ tasks' = IF tasks = {"router"} THEN tasks ELSE RouterTarget(s'.phase)
        /\ ~running /\ running' /\ started' = started
        /\ s.reviewRequest # <<>>
    BY <1>19 DEF ReplanInTime, ReviewPending, ResumeInTime, UpdateInTime
  <2>2. s'.reviewRequest = <<>> /\ s'.phase = "research"
    BY <1>19, <1>a DEF ReplanInTime, ReviewPending, ResumeInTime, UpdateInTime, Channels
  <2>3. tasks' # {}
    BY <1>g, <2>1, <2>2
  <2> QED
    BY <2>1, <2>2, <2>3 DEF Resumes, KindOfStep
<1>20. CASE Abort
  BY <1>20 DEF Abort, Stops, KindOfStep
<1> QED
  BY <1>1, <1>2, <1>3, <1>4, <1>5, <1>6, <1>7, <1>8, <1>9, <1>10, <1>11,
     <1>12, <1>13, <1>14, <1>15, <1>16, <1>17, <1>18, <1>19, <1>20
  DEF NextInTime, NodeStep

(* Every kind of step keeps the invariant. *)
LEMMA LifeStep ==
  ASSUME TypeOK, LifeInv, KindOfStep \/ UNCHANGED threadVars
  PROVE  LifeInv'
<1>1. started \in Nat
  BY DEF TypeOK
<1> USE DEF LifeInv, Alive, EndsComplete, ReviewAlive
<1>2. CASE GoesOn \/ GoesToReview
  BY <1>2 DEF GoesOn, GoesToReview
<1>3. CASE Stops
  BY <1>3 DEF Stops
<1>4. CASE Ends
  BY <1>4 DEF Ends
<1>5. CASE Starts
  BY <1>1, <1>5 DEF Starts
<1>6. CASE Resumes \/ Rejects
  BY <1>1, <1>6 DEF Resumes, Rejects
<1>7. CASE UNCHANGED threadVars
  BY <1>7 DEF threadVars
<1> QED
  BY <1>2, <1>3, <1>4, <1>5, <1>6, <1>7 DEF KindOfStep

(* A loop that runs has something to run, and never passes over a pending  *)
(* review, in every state the program reaches before a call comes late.    *)
THEOREM LifeInvariance == Spec => [](InTime => LifeInv)
<1>1. Init => LifeInv
  <2> SUFFICES ASSUME Init PROVE LifeInv
    OBVIOUS
  <2>1. /\ s.phase = "supervisor" /\ s.reviewRequest = <<>>
        /\ tasks = {} /\ started = 0 /\ ~running
    BY DEF Init
  <2> QED
    BY <2>1 DEF LifeInv, Alive, EndsComplete, ReviewAlive
<1>2. /\ TypeOK /\ TypeOK' /\ (InTime => IInv)
      /\ (InTime => BudgetInv) /\ (InTime => LifeInv) /\ [Next]_vars
      => (InTime => LifeInv)'
  BY StillInTime, StepHasKind, LifeStep
<1> QED
  BY <1>1, <1>2, TypeCorrect, Invariance, BudgetInvariance, PTL DEF Spec

(* A run that has nothing left to do is complete: no failure, rejection or *)
(* abort, and no call however late, leaves the graph at its end in another *)
(* phase.  Only the edges out of the router lead to the end of the graph.  *)
THEOREM RunsEndComplete == Spec => []EndsComplete
<1>1. Init => EndsComplete
  BY DEF Init, EndsComplete
<1>2. EndsComplete /\ [Next]_vars => EndsComplete'
  <2> SUFFICES ASSUME EndsComplete, [Next]_vars PROVE EndsComplete'
    OBVIOUS
  <2>a. ASSUME UNCHANGED <<s, tasks, started>> PROVE EndsComplete'
    BY <2>a DEF EndsComplete
  <2>b. ASSUME tasks' # {} PROVE EndsComplete'
    BY <2>b DEF EndsComplete
  <2>c. ASSUME tasks' = RouterTarget(s'.phase) PROVE EndsComplete'
    BY <2>c DEF EndsComplete, RouterTarget
  <2>1. CASE Supervisor \/ ResearchJoin \/ Planner \/ PlanValidator
             \/ Execute \/ ExecuteParallel \/ ToolResultNormalizer
             \/ Critic \/ Chat \/ TerminalResponse
    <3>1. tasks' = {"router"}
      BY <2>1 DEF Supervisor, ResearchJoin, Planner, PlanValidator, Execute,
                  ExecuteParallel, ToolResultNormalizer, Critic, Chat,
                  TerminalResponse, GotoRouter
    <3> QED
      BY <2>b, <3>1
  <2>2. CASE ResearcherCoordinator \/ ResearchBranches \/ Generator \/ StartRun
    <3>1. tasks' \in {{"research_fs", "research_vector"}, {"research_join"},
                      {"router", "memory_persist"}, {"supervisor"}}
      BY <2>2
      DEF ResearcherCoordinator, ResearchBranches, Generator, StartRun
    <3> QED
      BY <2>b, <3>1
  <2>3. CASE AwaitPlanReview \/ ReadReview \/ Abort \/ UNCHANGED vars
    BY <2>3, <2>a DEF AwaitPlanReview, ReadReview, Abort, vars
  <2>4. CASE Router
    BY <2>4, <2>c DEF Router
  <2>5. ASSUME NEW plan \in asked, ReviewCall(plan) PROVE EndsComplete'
    <3>1. PICK c : UpdateState(c)
      BY <2>5
      DEF ReviewCall, Approve, Reject, ReplanSession, ResumeWith
    <3>2. CASE tasks \in ByOrdinaryEdge
      <4>1. tasks # {}
        BY <3>2 DEF ByOrdinaryEdge
      <4> QED
        BY <2>b, <3>1, <3>2, <4>1 DEF UpdateState
    <3>3. CASE tasks \notin ByOrdinaryEdge
      BY <2>c, <3>1, <3>3 DEF UpdateState
    <3> QED
      BY <3>2, <3>3
  <2> QED
    BY <2>1, <2>2, <2>3, <2>4, <2>5 DEF Next, NodeStep, Call
<1> QED
  BY <1>1, <1>2, PTL DEF Spec

-----------------------------------------------------------------------------
(***************************************************************************)
(* The graph implements RunLifecycle: each kind of step is one of its      *)
(* actions, or a stutter, under the mapping of AgentGraph.                 *)
(***************************************************************************)
Answered == IF RunStatus = "finished" THEN s.finalAnswer ELSE "none"

AsksReviewer == s.reviewRequest # <<>>

(* The status of a thread, by what the loop has to do.                     *)
LEMMA StatusCases ==
  ASSUME TypeOK, LifeInv, Scheduled
  PROVE  /\ running => RunStatus = "working"
         /\ ~running /\ AsksReviewer => RunStatus \in {"paused", "halted"}
         /\ ~running => RunStatus # "working"
         /\ ~running /\ started > 0 /\ tasks = {} => RunStatus = "finished"
         /\ ~running /\ started > 0 /\ tasks # {} =>
              RunStatus = IF tasks = {"await_plan_review"}
                          THEN "paused" ELSE "halted"
         /\ tasks = {"await_plan_review"} => AsksReviewer
<1>1. ~running /\ AsksReviewer => started # 0 /\ tasks # {}
  BY DEF TypeOK, LifeInv, Alive, EndsComplete, ReviewAlive, AsksReviewer
<1>2. tasks = {"await_plan_review"} => s.phase = "await_plan_review"
  BY ZenonT(60) DEF Scheduled, NodeOfPhase
<1> QED
  BY <1>1, <1>2 DEF RunStatus, LifeInv, ReviewAlive, AsksReviewer

(* A step of the graph is a step of the life cycle. *)
LEMMA LifecycleStep ==
  ASSUME TypeOK, TypeOK', IInv, IInv', LifeInv, LifeInv',
         KindOfStep \/ UNCHANGED threadVars
  PROVE  Lifecycle!InTime \/ UNCHANGED <<RunStatus, Answered, AsksReviewer>>
<1>a. Scheduled /\ Scheduled' /\ started \in Nat
  BY DEF IInv, TypeOK
<1>b. /\ running => RunStatus = "working"
      /\ ~running /\ AsksReviewer => RunStatus \in {"paused", "halted"}
      /\ ~running => RunStatus # "working"
      /\ tasks = {"await_plan_review"} => AsksReviewer
  BY <1>a, StatusCases
<1>c. /\ running' => RunStatus' = "working"
      /\ ~running' /\ started' > 0 /\ tasks' = {} => RunStatus' = "finished"
      /\ ~running' /\ started' > 0 /\ tasks' # {} =>
           RunStatus' = IF tasks' = {"await_plan_review"}
                        THEN "paused" ELSE "halted"
  BY DEF RunStatus
<1>d. /\ RunStatus # "finished" => Answered = "none"
      /\ RunStatus' # "finished" => Answered' = "none"
      /\ RunStatus' = "finished" => Answered' = s'.finalAnswer
  BY DEF Answered
<1>1. CASE GoesOn
  BY <1>1, <1>b, <1>c, <1>d DEF GoesOn, AsksReviewer
<1>2. CASE GoesToReview
  <2>1. CASE s.reviewRequest = <<>>
    <3>1. Lifecycle!AskForReview
      BY <1>2, <1>b, <1>c, <1>d, <2>1
      DEF GoesToReview, AsksReviewer, Lifecycle!AskForReview, Answered
    <3> QED
      BY <3>1 DEF Lifecycle!InTime
  <2>2. CASE s.reviewRequest # <<>>
    BY <1>2, <1>b, <1>c, <1>d, <2>2 DEF GoesToReview, AsksReviewer
  <2> QED
    BY <2>1, <2>2
<1>3. CASE Stops
  <2>1. /\ started' > 0 /\ tasks' = tasks /\ tasks # {}
        /\ running /\ ~running' /\ s' = s
    BY <1>3 DEF Stops, LifeInv, Alive
  <2>2. CASE tasks = {"await_plan_review"}
    <3>1. Lifecycle!Pause
      BY <1>b, <1>c, <1>d, <2>1, <2>2
      DEF AsksReviewer, Answered, Lifecycle!Pause
    <3> QED
      BY <3>1 DEF Lifecycle!InTime
  <2>3. CASE tasks # {"await_plan_review"}
    <3>1. Lifecycle!Halt
      BY <1>b, <1>c, <1>d, <2>1, <2>3
      DEF AsksReviewer, Answered, Lifecycle!Halt
    <3> QED
      BY <3>1 DEF Lifecycle!InTime
  <2> QED
    BY <2>2, <2>3
<1>4. CASE Ends
  <2>1. started' > 0
    BY <1>4 DEF Ends, LifeInv, Alive
  <2>2. s'.finalAnswer \in {"answer", "failure", "none"}
    BY DEF TypeOK, Channels
  <2>3. Lifecycle!Finish
    BY <1>4, <1>b, <1>c, <1>d, <2>1, <2>2
    DEF Ends, AsksReviewer, Answered, Lifecycle!Finish, Lifecycle!Answers
  <2> QED
    BY <2>3 DEF Lifecycle!InTime
<1>5. CASE Starts
  <2>1. Lifecycle!Start
    BY <1>5, <1>b, <1>c, <1>d
    DEF Starts, AsksReviewer, Answered, Lifecycle!Start
  <2> QED
    BY <2>1 DEF Lifecycle!InTime
<1>6. CASE Resumes
  <2>1. Lifecycle!Resume
    BY <1>6, <1>b, <1>c, <1>d
    DEF Resumes, AsksReviewer, Answered, Lifecycle!Resume
  <2> QED
    BY <2>1 DEF Lifecycle!InTime
<1>7. CASE Rejects
  <2>1. /\ RunStatus \in {"paused", "halted"}
        /\ AsksReviewer /\ AsksReviewer'
    BY <1>7, <1>b DEF Rejects, AsksReviewer
  <2>2. started' > 0
    BY <1>7, <1>a DEF Rejects, LifeInv, Alive
  <2>3. RunStatus' = "halted"
    BY <1>7, <1>c, <2>2 DEF Rejects
  <2>4. CASE RunStatus = "paused"
    <3>1. Lifecycle!Halt
      BY <1>d, <2>1, <2>3, <2>4 DEF AsksReviewer, Answered, Lifecycle!Halt
    <3> QED
      BY <3>1 DEF Lifecycle!InTime
  <2>5. CASE RunStatus = "halted"
    BY <1>d, <2>1, <2>3, <2>5
  <2> QED
    BY <2>1, <2>4, <2>5
<1>8. CASE UNCHANGED threadVars
  BY <1>8 DEF threadVars, RunStatus, Answered, AsksReviewer
<1> QED
  BY <1>1, <1>2, <1>3, <1>4, <1>5, <1>6, <1>7, <1>8 DEF KindOfStep

(* Whatever nodes a run goes through, its callers see the life cycle of    *)
(* RunLifecycle: until a review call comes late, it pauses only for a      *)
(* review, only a pending review resumes it, and its answer comes once and *)
(* stays.                                                                  *)
THEOREM GraphImplementsLifecycle == Spec => ImplementsLifecycle
<1>1. Init => Lifecycle!Init
  BY DEF Init, Lifecycle!Init, RunStatus, InTime
<1>2. /\ TypeOK /\ TypeOK'
      /\ (InTime => IInv) /\ (InTime => IInv)'
      /\ (InTime => BudgetInv)
      /\ (InTime => LifeInv) /\ (InTime => LifeInv)'
      /\ [Next]_vars
      => [Lifecycle!Next]_<<RunStatus, Answered, AsksReviewer, ~InTime>>
  <2> SUFFICES ASSUME TypeOK, TypeOK', InTime => IInv, (InTime => IInv)',
                      InTime => BudgetInv,
                      InTime => LifeInv, (InTime => LifeInv)',
                      [Next]_vars
      PROVE  \/ Lifecycle!Next
             \/ UNCHANGED <<RunStatus, Answered, AsksReviewer, ~InTime>>
    OBVIOUS
  <2>1. CASE ~InTime'
    <3>1. Lifecycle!ComeLate
      BY <2>1 DEF Lifecycle!ComeLate
    <3> QED
      BY <3>1 DEF Lifecycle!Next
  <2>2. CASE InTime'
    <3>1. InTime /\ IInv /\ IInv' /\ [NextInTime]_threadVars
      BY <2>2, StillInTime
    <3>2. KindOfStep \/ UNCHANGED threadVars
      BY <2>2, <3>1, StepHasKind
    <3>3. Lifecycle!InTime \/ UNCHANGED <<RunStatus, Answered, AsksReviewer>>
      BY <2>2, <3>1, <3>2, LifecycleStep
    <3> QED
      BY <2>2, <3>1, <3>3 DEF Lifecycle!Next
  <2> QED
    BY <2>1, <2>2
<1> QED
  BY <1>1, <1>2, TypeCorrect, Invariance, BudgetInvariance, LifeInvariance, PTL
  DEF Spec, ImplementsLifecycle, Lifecycle!Spec, Answered, AsksReviewer

-----------------------------------------------------------------------------
(***************************************************************************)
(* How long a run may be.  LangGraph stops a loop after recursionLimit     *)
(* supersteps (agents.service.ts).  SuperstepsLeft bounds those that are   *)
(* left, whatever the models and the tools answer: every superstep lowers  *)
(* it.  It is the distance to the end of the run from the scheduled node,  *)
(* with 8 supersteps for every replan and 6 for every execution that the   *)
(* limits still allow.                                                     *)
(***************************************************************************)

(* From a pass of the router that is at no limit. *)
RouterDistance ==
  [phase \in Phases |->
     CASE phase = "complete"                        -> 1
       [] phase \in {"fatal", "clarification"}      -> 3
       [] phase \in {"generate", "chat"}            -> 5
       [] phase \in {"execute", "execute_parallel",
                     "await_plan_review", "route"}  -> 7
       [] phase \in {"validate_plan", "judge"}      -> 9
       [] phase \in {"plan", "normalize_tool_result"} -> 11
       [] phase = "research"                        -> 15
       [] phase = "supervisor"                      -> 17]

FromRouter(phase, k) ==
  IF phase # "complete" /\ LimitReached(k) THEN 3 ELSE RouterDistance[phase]

NodeDistance ==
  [node \in Nodes |->
     CASE node = "terminal_response"                     -> 2
       [] node \in {"generator", "chat"}                 -> 4
       [] node \in {"execute", "execute_parallel",
                    "await_plan_review"}                 -> 6
       [] node \in {"plan_validator", "critic"}          -> 8
       [] node \in {"planner", "tool_result_normalizer"} -> 10
       [] OTHER                                          -> 16]

(* Research leads to a plan whatever it finds, unless a limit is reached.  *)
Distance(nodes, phase, k) ==
  IF "router" \in nodes THEN FromRouter(phase, k)
  ELSE IF nodes = {"research_join"} THEN 1 + FromRouter("plan", k)
  ELSE IF nodes = {"research_fs", "research_vector"}
  THEN 2 + FromRouter("plan", k)
  ELSE IF nodes = {"researcher_coordinator"} THEN 3 + FromRouter("plan", k)
  ELSE NodeDistance[CHOOSE node \in nodes : TRUE]

ReplansLeft(k) == IF k.turn < Turns THEN Turns - 1 - k.turn ELSE 0

ExecutionsLeft(k) ==
  IF k.toolCalls < ToolCallLimit THEN ToolCallLimit - 1 - k.toolCalls ELSE 0

SuperstepsLeft ==
  Distance(tasks, s.phase, s.counters)
  + 8 * ReplansLeft(s.counters) + 6 * ExecutionsLeft(s.counters)

SuperstepLimit == 38 * Turns + 3

(* The distances, one by one. *)
LEMMA RouterDistances ==
  /\ RouterDistance["complete"] = 1
  /\ RouterDistance["fatal"] = 3 /\ RouterDistance["clarification"] = 3
  /\ RouterDistance["generate"] = 5 /\ RouterDistance["chat"] = 5
  /\ RouterDistance["execute"] = 7 /\ RouterDistance["execute_parallel"] = 7
  /\ RouterDistance["await_plan_review"] = 7 /\ RouterDistance["route"] = 7
  /\ RouterDistance["validate_plan"] = 9 /\ RouterDistance["judge"] = 9
  /\ RouterDistance["plan"] = 11
  /\ RouterDistance["normalize_tool_result"] = 11
  /\ RouterDistance["research"] = 15 /\ RouterDistance["supervisor"] = 17
BY DEF RouterDistance, Phases

LEMMA NodeDistances ==
  /\ NodeDistance["terminal_response"] = 2
  /\ NodeDistance["generator"] = 4 /\ NodeDistance["chat"] = 4
  /\ NodeDistance["execute"] = 6 /\ NodeDistance["execute_parallel"] = 6
  /\ NodeDistance["await_plan_review"] = 6
  /\ NodeDistance["plan_validator"] = 8 /\ NodeDistance["critic"] = 8
  /\ NodeDistance["planner"] = 10
  /\ NodeDistance["tool_result_normalizer"] = 10
  /\ NodeDistance["supervisor"] = 16
BY DEF NodeDistance, Nodes

LEMMA FromRouterBounds ==
  ASSUME NEW phase \in Phases, NEW k
  PROVE  /\ FromRouter(phase, k) \in 1..17
         /\ phase # "complete" => FromRouter(phase, k) >= 3
         /\ FromRouter(phase, k) \in {3, RouterDistance[phase]}
         /\ ~LimitReached(k) => FromRouter(phase, k) = RouterDistance[phase]
<1>1. RouterDistance[phase] \in 1..17
  BY RouterDistances DEF Phases
<1>2. phase # "complete" => RouterDistance[phase] >= 3
  BY RouterDistances DEF Phases
<1> QED BY <1>1, <1>2 DEF FromRouter

(* The nodes that are scheduled alone and whose distance does not depend   *)
(* on the limits.                                                          *)
SingleNodes ==
  {"supervisor", "planner", "plan_validator", "await_plan_review", "execute",
   "execute_parallel", "tool_result_normalizer", "critic", "generator", "chat",
   "terminal_response"}

LEMMA DistanceOfNode ==
  ASSUME NEW node \in SingleNodes, NEW phase, NEW k
  PROVE  /\ Distance({node}, phase, k) = NodeDistance[node]
         /\ NodeDistance[node] \in 2..16
<1>1. (CHOOSE n \in {node} : TRUE) = node
  OBVIOUS
<1>2. /\ "router" \notin {node} /\ {node} # {"research_join"}
      /\ {node} # {"research_fs", "research_vector"}
      /\ {node} # {"researcher_coordinator"}
  BY DEF SingleNodes
<1>3. NodeDistance[node] \in 2..16
  BY NodeDistances DEF SingleNodes
<1> QED BY <1>1, <1>2, <1>3 DEF Distance

LEMMA DistanceOfResearch ==
  ASSUME NEW phase, NEW k
  PROVE  /\ Distance({"research_join"}, phase, k) = 1 + FromRouter("plan", k)
         /\ Distance({"research_fs", "research_vector"}, phase, k) =
              2 + FromRouter("plan", k)
         /\ Distance({"researcher_coordinator"}, phase, k) =
              3 + FromRouter("plan", k)
         /\ FromRouter("plan", k) \in {3, 11}
<1>1. FromRouter("plan", k) \in {3, 11}
  BY RouterDistances DEF FromRouter
<1> QED BY <1>1 DEF Distance

LEMMA AllowanceType ==
  ASSUME NEW k \in Counters
  PROVE  /\ ReplansLeft(k) \in 0..(Turns - 1)
         /\ ExecutionsLeft(k) \in 0..(ToolCallLimit - 1)
BY LimitsType DEF ReplansLeft, ExecutionsLeft, Counters

(* What a loop can have scheduled, and its distance from there. *)
LEMMA DistanceType ==
  ASSUME TypeOK, Scheduled, tasks # {}
  PROVE  Distance(tasks, s.phase, s.counters) \in 1..17
<1>1. s.phase \in Phases
  BY DEF TypeOK, Channels
<1>2. CASE "router" \in tasks
  BY <1>1, <1>2, FromRouterBounds DEF Distance
<1>3. CASE tasks \in {{"research_fs", "research_vector"}, {"research_join"},
                     {"researcher_coordinator"}}
  BY <1>3, DistanceOfResearch
<1>4. CASE \E node \in SingleNodes : tasks = {node}
  BY <1>4, DistanceOfNode
<1>5. s.phase \notin {"complete", "route"} =>
        NodeOfPhase(s.phase) \in SingleNodes \cup {"researcher_coordinator"}
  BY <1>1, ZenonT(60) DEF NodeOfPhase, Phases, SingleNodes
<1> QED BY <1>2, <1>3, <1>4, <1>5 DEF Scheduled

(* A step that spends nothing and comes nearer. *)
LEMMA NearerIsLess ==
  ASSUME s.counters \in Counters, s'.counters = s.counters,
         Distance(tasks, s.phase, s.counters) \in Nat,
         Distance(tasks', s'.phase, s.counters) \in Nat,
         Distance(tasks', s'.phase, s.counters)
           < Distance(tasks, s.phase, s.counters)
  PROVE  SuperstepsLeft' < SuperstepsLeft
<1> DEFINE a == Distance(tasks, s.phase, s.counters)
           b == Distance(tasks', s'.phase, s.counters)
           r == ReplansLeft(s.counters)
           e == ExecutionsLeft(s.counters)
<1>1. r \in Nat /\ e \in Nat
  BY AllowanceType, LimitsType
<1>2. SuperstepsLeft = a + 8 * r + 6 * e
  BY DEF SuperstepsLeft
<1>3. SuperstepsLeft' = b + 8 * r + 6 * e
  BY DEF SuperstepsLeft
<1>4. a \in Nat /\ b \in Nat /\ b < a
  OBVIOUS
<1> HIDE DEF a, b, r, e
<1> QED BY <1>1, <1>2, <1>3, <1>4

(* A node that is followed by the router. *)
LEMMA NodeIsNearer ==
  ASSUME NEW node \in SingleNodes, tasks = {node},
         s.counters \in Counters, s'.counters = s.counters,
         s'.phase \in Phases, "router" \in tasks',
         RouterDistance[s'.phase] < NodeDistance[node],
         s'.phase # "complete" => 3 < NodeDistance[node]
  PROVE  SuperstepsLeft' < SuperstepsLeft
<1>1. /\ Distance(tasks, s.phase, s.counters) = NodeDistance[node]
      /\ NodeDistance[node] \in 2..16
  BY DistanceOfNode
<1>2. /\ Distance(tasks', s'.phase, s.counters) \in 1..17
      /\ Distance(tasks', s'.phase, s.counters) < NodeDistance[node]
  BY FromRouterBounds DEF Distance, FromRouter
<1> QED BY <1>1, <1>2, NearerIsLess

(* The router sends every phase to a node that is nearer.                  *)
LEMMA TargetIsNearer ==
  ASSUME NEW phase \in Phases \ {"complete", "route"},
         NEW k, phase \in {"fatal", "clarification"} \/ ~LimitReached(k)
  PROVE  /\ Distance(RouterTarget(phase), phase, k) \in Nat
         /\ Distance(RouterTarget(phase), phase, k) < RouterDistance[phase]
<1>1. RouterTarget(phase) = {NodeOfPhase(phase)}
  BY DEF RouterTarget
<1>2. CASE phase = "research"
  <2>1. NodeOfPhase(phase) = "researcher_coordinator"
    BY <1>2 DEF NodeOfPhase
  <2>2. Distance(RouterTarget(phase), phase, k) = 3 + FromRouter("plan", k)
    BY <1>1, <2>1, DistanceOfResearch
  <2>3. FromRouter("plan", k) \in {3, 11}
    BY DistanceOfResearch
  <2>4. RouterDistance[phase] = 15
    BY <1>2, RouterDistances
  <2> QED BY <2>2, <2>3, <2>4
<1>3. CASE phase # "research"
  <2>1. /\ NodeOfPhase("plan") = "planner"
        /\ NodeOfPhase("validate_plan") = "plan_validator"
        /\ NodeOfPhase("normalize_tool_result") = "tool_result_normalizer"
        /\ NodeOfPhase("judge") = "critic"
        /\ NodeOfPhase("generate") = "generator"
        /\ NodeOfPhase("fatal") = "terminal_response"
        /\ NodeOfPhase("clarification") = "terminal_response"
        /\ NodeOfPhase("supervisor") = "supervisor"
        /\ NodeOfPhase("await_plan_review") = "await_plan_review"
        /\ NodeOfPhase("execute") = "execute"
        /\ NodeOfPhase("execute_parallel") = "execute_parallel"
        /\ NodeOfPhase("chat") = "chat"
    BY ZenonT(60) DEF NodeOfPhase
  <2>2. NodeOfPhase(phase) \in SingleNodes
    BY <1>3, <2>1, ZenonT(60) DEF Phases, SingleNodes
  <2>3. NodeDistance[NodeOfPhase(phase)] < RouterDistance[phase]
    BY <1>3, <2>1, RouterDistances, NodeDistances DEF Phases
  <2> QED BY <1>1, <2>2, <2>3, DistanceOfNode
<1> QED BY <1>2, <1>3

(* A pass of the router.  A replan pays for itself with one of the replans *)
(* that are left, or is the last one and ends at the planner.              *)
LEMMA RouterIsNearer ==
  ASSUME TypeOK, TypeOK', IInv, Router, running'
  PROVE  SuperstepsLeft' < SuperstepsLeft
<1>1. /\ s' = Route(s) /\ tasks' = RouterTarget(s'.phase)
      /\ "router" \in tasks /\ tasks' # {}
  BY DEF Router
<1>2. /\ s \in Channels /\ s.counters \in Counters
      /\ s.phase \in Phases /\ s'.phase \in Phases
      /\ s'.counters \in Counters
  BY DEF TypeOK, Channels
<1>3. s'.phase # "complete"
  BY <1>1 DEF RouterTarget
<1>4. /\ Distance(tasks, s.phase, s.counters) = FromRouter(s.phase, s.counters)
      /\ FromRouter(s.phase, s.counters) \in Nat
  BY <1>1, <1>2, FromRouterBounds DEF Distance
<1>5. CASE /\ s' = s /\ s.phase # "route"
           /\ s.phase \in {"complete", "fatal"} \/ ~LimitReached(s.counters)
  <2>1. FromRouter(s.phase, s.counters) = RouterDistance[s.phase]
    BY <1>5, RouterDistances DEF FromRouter
  <2>2. /\ Distance(tasks', s'.phase, s.counters) \in Nat
        /\ Distance(tasks', s'.phase, s.counters) < RouterDistance[s.phase]
    BY <1>1, <1>2, <1>3, <1>5, TargetIsNearer
  <2> QED BY <1>2, <1>4, <1>5, <2>1, <2>2, NearerIsLess
<1>6. CASE s' = Fail(s) /\ s.phase \notin {"complete", "fatal"}
  <2>1. s'.phase = "fatal" /\ s'.counters = s.counters
    BY <1>2, <1>6 DEF Fail, Channels
  <2>2. /\ Distance(tasks', s'.phase, s.counters) \in Nat
        /\ Distance(tasks', s'.phase, s.counters) < 3
    BY <1>1, <2>1, TargetIsNearer, RouterDistances DEF Phases
  <2>3. FromRouter(s.phase, s.counters) >= 3
    BY <1>2, <1>6, FromRouterBounds
  <2> QED BY <1>2, <1>4, <2>1, <2>2, <2>3, NearerIsLess
<1>7. CASE s.phase = "route" /\ ~LimitReached(s.counters)
  <2>1. FromRouter(s.phase, s.counters) = 7
    BY <1>7, RouterDistances DEF FromRouter
  <2>2. ASSUME s'.phase \in {"generate", "execute", "execute_parallel"}
        PROVE  Distance(tasks', s'.phase, s'.counters) \in {4, 6}
    <3>1. /\ RouterTarget("generate") = {"generator"}
          /\ RouterTarget("execute") = {"execute"}
          /\ RouterTarget("execute_parallel") = {"execute_parallel"}
      BY ZenonT(60) DEF RouterTarget, NodeOfPhase
    <3> QED
      BY <1>1, <2>2, <3>1, DistanceOfNode, NodeDistances DEF SingleNodes
  <2>3. CASE s' = Advance(s)
    <3>1. /\ s'.counters = s.counters
          /\ s'.phase \in {"generate", "execute", "execute_parallel"}
      BY <1>2, <2>3, AdvanceEffect DEF ToRun
    <3> QED BY <1>2, <1>4, <2>1, <2>2, <3>1, NearerIsLess
  <2>4. CASE s' = Replan(s) \/ s' = Retry(s)
    <3> DEFINE k == s.counters
               l == s'.counters
               b == Distance(tasks', s'.phase, s'.counters)
    <3>1. /\ SuperstepsLeft = 7 + 8 * ReplansLeft(k) + 6 * ExecutionsLeft(k)
          /\ SuperstepsLeft' = b + 8 * ReplansLeft(l) + 6 * ExecutionsLeft(l)
      BY <1>4, <2>1 DEF SuperstepsLeft
    <3>2. /\ k \in Counters /\ l \in Counters
          /\ l.turn = k.turn + 1 /\ l.toolCalls = k.toolCalls
      <4>1. l = CountReplan(k) \/ l = CountRetry(k)
        BY <1>2, <2>4 DEF Replan, Retry, Channels
      <4> QED BY <1>2, <4>1 DEF CountReplan, CountRetry, Counters
    <3>3. /\ k.turn \in Nat /\ k.turn < Turns
          /\ ExecutionsLeft(l) = ExecutionsLeft(k) /\ ExecutionsLeft(k) \in Nat
      BY <1>7, <3>2, AllowanceType, LimitsType
      DEF LimitReached, ExecutionsLeft, Counters
    <3>4. ReplansLeft(k) = Turns - 1 - k.turn
      BY <3>3 DEF ReplansLeft
    <3>5. ReplansLeft(l) = IF l.turn < Turns THEN Turns - 1 - l.turn ELSE 0
      BY DEF ReplansLeft
    <3>6. \/ b \in {4, 6}
          \/ b \in {6, 14} /\ (l.turn >= Turns => b = 6)
      <4>1. CASE s' = Retry(s)
        BY <1>2, <2>2, <4>1, RecoveryEffect
      <4>2. CASE s' = Replan(s)
        <5>1. s'.phase = "research"
          BY <1>2, <4>2, RecoveryEffect
        <5>2. RouterTarget("research") = {"researcher_coordinator"}
          BY DEF RouterTarget, NodeOfPhase
        <5>3. b = 3 + FromRouter("plan", l)
          BY <1>1, <5>1, <5>2, DistanceOfResearch
        <5>4. FromRouter("plan", l) \in {3, 11}
          BY DistanceOfResearch
        <5>5. l.turn >= Turns => FromRouter("plan", l) = 3
          BY DEF FromRouter, LimitReached
        <5> QED BY <5>3, <5>4, <5>5
      <4> QED BY <2>4, <4>1, <4>2
    <3> HIDE DEF k, l, b
    <3> QED BY <3>1, <3>2, <3>3, <3>4, <3>5, <3>6, LimitsType
  <2>5. DecisionAwaited
    BY DEF IInv
  <2>6. CASE s' = Fail(s)
    BY <1>6, <1>7, <2>6
  <2> QED
    BY <1>1, <1>3, <1>7, <2>3, <2>4, <2>5, <2>6, RouteOutcome
<1>8. DecisionAwaited
  BY DEF IInv
<1> QED BY <1>1, <1>5, <1>6, <1>7, <1>8, RouteOutcome

(* An execution of n tools. *)
LEMMA ExecutionIsNearer ==
  ASSUME s.counters \in Counters, NEW node \in {"execute", "execute_parallel"},
         tasks = {node}, NEW n \in Nat \ {0},
         s'.counters = CountToolCalls(s.counters, n),
         s'.phase = "normalize_tool_result", tasks' = {"router"}
  PROVE  SuperstepsLeft' < SuperstepsLeft
<1> DEFINE k == s.counters
           l == s'.counters
           b == FromRouter("normalize_tool_result", l)
<1>1. Distance(tasks, s.phase, k) = 6
  BY DistanceOfNode, NodeDistances DEF SingleNodes
<1>2. Distance(tasks', s'.phase, l) = b
  BY DEF Distance
<1>3. /\ SuperstepsLeft = 6 + 8 * ReplansLeft(k) + 6 * ExecutionsLeft(k)
      /\ SuperstepsLeft' = b + 8 * ReplansLeft(l) + 6 * ExecutionsLeft(l)
  BY <1>1, <1>2 DEF SuperstepsLeft
<1>4. /\ l.turn = k.turn /\ l.toolCalls = k.toolCalls + n
      /\ k.toolCalls \in Nat
  BY DEF CountToolCalls, Counters
<1>5. ReplansLeft(l) = ReplansLeft(k) /\ ReplansLeft(k) \in Nat
  BY <1>4, AllowanceType, LimitsType DEF ReplansLeft
<1>6. /\ ExecutionsLeft(k) = IF k.toolCalls < ToolCallLimit
                             THEN ToolCallLimit - 1 - k.toolCalls ELSE 0
      /\ ExecutionsLeft(l) = IF l.toolCalls < ToolCallLimit
                             THEN ToolCallLimit - 1 - l.toolCalls ELSE 0
  BY DEF ExecutionsLeft
<1>7. b \in {3, 11} /\ (l.toolCalls >= ToolCallLimit => b = 3)
  BY RouterDistances DEF FromRouter, LimitReached
<1> HIDE DEF k, l, b
<1> QED BY <1>3, <1>4, <1>5, <1>6, <1>7, LimitsType

(* Every superstep after which the loop goes on is a step towards its end. *)
LEMMA SuperstepIsNearer ==
  ASSUME TypeOK, TypeOK', IInv, NodeStep, running'
  PROVE  SuperstepsLeft' < SuperstepsLeft
<1>a. /\ s \in Channels /\ s.counters \in Counters /\ s'.phase \in Phases
      /\ Len(s.plan) \in Nat /\ s.currentStep \in Nat
  BY DEF TypeOK, Channels
<1>b. Scheduled /\ OnOneStep
  BY DEF IInv
<1>c. Fail(s).phase = "fatal" /\ Fail(s).counters = s.counters
  BY <1>a DEF Fail, Channels
<1>d. ASSUME NEW answer
      PROVE  /\ Complete(s, answer).phase = "complete"
             /\ Complete(s, answer).counters = s.counters
  BY <1>a DEF Complete, Channels
<1>e. ASSUME NEW node \in SingleNodes, tasks = {node},
             s'.counters = s.counters, "router" \in tasks',
             RouterDistance[s'.phase] < NodeDistance[node],
             s'.phase # "complete" => 3 < NodeDistance[node]
      PROVE  SuperstepsLeft' < SuperstepsLeft
  BY <1>a, <1>e, NodeIsNearer
<1>1. CASE Supervisor
  <2>1. /\ s'.phase \in {"chat", "research", "clarification", "fatal"}
        /\ s'.counters = s.counters
    BY <1>1, <1>a, <1>c DEF Supervisor, Channels
  <2> QED
    BY <1>1, <1>e, <2>1, RouterDistances, NodeDistances
    DEF Supervisor, Running, GotoRouter, SingleNodes
<1>2. CASE ResearcherCoordinator \/ ResearchBranches
  <2>1. s'.counters = s.counters
    BY <1>2, <1>a DEF ResearcherCoordinator, ResearchBranches, Channels
  <2>2. \/ /\ tasks = {"researcher_coordinator"}
           /\ tasks' = {"research_fs", "research_vector"}
        \/ /\ tasks = {"research_fs", "research_vector"}
           /\ tasks' = {"research_join"}
    BY <1>2 DEF ResearcherCoordinator, ResearchBranches, Running
  <2> DEFINE f == FromRouter("plan", s.counters)
  <2>3. f \in Nat
    BY DistanceOfResearch
  <2>4. \/ /\ Distance(tasks, s.phase, s.counters) = 3 + f
           /\ Distance(tasks', s'.phase, s.counters) = 2 + f
        \/ /\ Distance(tasks, s.phase, s.counters) = 2 + f
           /\ Distance(tasks', s'.phase, s.counters) = 1 + f
    BY <2>2, DistanceOfResearch
  <2> HIDE DEF f
  <2> QED BY <1>a, <2>1, <2>3, <2>4, NearerIsLess
<1>3. CASE ResearchJoin
  <2>1. s'.phase = "plan" /\ s'.counters = s.counters
    BY <1>3, <1>a DEF ResearchJoin, Channels
  <2>2. tasks = {"research_join"} /\ tasks' = {"router"}
    BY <1>3 DEF ResearchJoin, Running, GotoRouter
  <2> DEFINE f == FromRouter("plan", s.counters)
  <2>3. f \in Nat
    BY DistanceOfResearch
  <2>4. /\ Distance(tasks, s.phase, s.counters) = 1 + f
        /\ Distance(tasks', s'.phase, s.counters) = f
    BY <2>1, <2>2, DistanceOfResearch DEF Distance
  <2> HIDE DEF f
  <2> QED BY <1>a, <2>1, <2>3, <2>4, NearerIsLess
<1>4. CASE Planner
  <2>1. s'.phase \in {"validate_plan", "fatal"} /\ s'.counters = s.counters
    BY <1>4, <1>a, <1>c DEF Planner, Channels
  <2>2. /\ RouterDistance[s'.phase] < NodeDistance["planner"]
        /\ 3 < NodeDistance["planner"]
    BY <2>1, RouterDistances, NodeDistances
  <2>3. tasks = {"planner"} /\ "router" \in tasks' /\ "planner" \in SingleNodes
    BY <1>4 DEF Planner, Running, GotoRouter, SingleNodes
  <2> QED BY <1>e, <2>1, <2>2, <2>3
<1>5. CASE PlanValidator
  <2>1. /\ BeginStep(s, 0).phase \in {"execute", "execute_parallel"}
        /\ BeginStep(s, 0).counters = s.counters
    BY <1>a DEF BeginStep, BeginWith, Channels
  <2>2. /\ s'.phase \in {"execute", "execute_parallel", "await_plan_review",
                         "fatal"}
        /\ s'.counters = s.counters
    <3>1. PICK anchorsFound \in BOOLEAN :
            s' = IF ~Acceptable(s.plan, anchorsFound) THEN Fail(s)
                 ELSE IF ReviewRequired(s.plan)
                 THEN [s EXCEPT !.phase = "await_plan_review",
                                !.reviewRequest = s.plan]
                 ELSE BeginStep(s, 0)
      BY <1>5 DEF PlanValidator
    <3>2. /\ [s EXCEPT !.phase = "await_plan_review",
                       !.reviewRequest = s.plan].phase = "await_plan_review"
          /\ [s EXCEPT !.phase = "await_plan_review",
                       !.reviewRequest = s.plan].counters = s.counters
      BY <1>a DEF Channels
    <3> QED BY <1>c, <2>1, <3>1, <3>2
  <2> QED
    BY <1>5, <1>e, <2>2, RouterDistances, NodeDistances
    DEF PlanValidator, Running, GotoRouter, SingleNodes
<1>6. CASE AwaitPlanReview
  BY <1>6 DEF AwaitPlanReview
<1>7. CASE Execute
  <2>1. tasks = {"execute"} /\ tasks' = {"router"}
    BY <1>7 DEF Execute, Running, GotoRouter
  <2>2. /\ s'.counters = CountToolCalls(s.counters, 1)
        /\ s'.phase = "normalize_tool_result"
    BY <1>7, <1>a DEF Execute, ToolsRan, Channels
  <2> QED BY <1>a, <2>1, <2>2, ExecutionIsNearer
<1>8. CASE ExecuteParallel
  <2> DEFINE first == s.currentStep + 1
  <2>1. tasks = {"execute_parallel"} /\ tasks' = {"router"}
    BY <1>8 DEF ExecuteParallel, Running, GotoRouter
  <2>2. s.phase = "execute_parallel"
    BY <1>b, <2>1, PhaseOfNode
  <2>3. first \in 1..Len(s.plan)
    BY <1>a, <1>b, <2>2 DEF OnOneStep, ToRun
  <2>4. PICK last \in first..Len(s.plan) :
          s' = [ToolsRan(s, "list", last - first + 1) EXCEPT
                  !.parallelResult = TRUE, !.currentStep = last - 1]
    <3>1. ~(first > Len(s.plan))
      BY <1>a, <2>3
    <3> QED BY <1>8, <3>1 DEF ExecuteParallel
  <2>5. last - first + 1 \in Nat \ {0}
    BY <1>a, <2>3
  <2>6. /\ s'.counters = CountToolCalls(s.counters, last - first + 1)
        /\ s'.phase = "normalize_tool_result"
    BY <1>a, <2>4 DEF ToolsRan, Channels
  <2> HIDE DEF first
  <2> QED BY <1>a, <2>1, <2>5, <2>6, ExecutionIsNearer
<1>9. CASE ToolResultNormalizer
  <2>1. s'.phase = "judge" /\ s'.counters = s.counters
    BY <1>9, <1>a DEF ToolResultNormalizer, Channels
  <2> QED
    BY <1>9, <1>e, <2>1, RouterDistances, NodeDistances
    DEF ToolResultNormalizer, Running, GotoRouter, SingleNodes
<1>10. CASE Critic
  <2>1. s'.phase \in {"route", "fatal"} /\ s'.counters = s.counters
    BY <1>10, <1>a, <1>c DEF Critic, Channels
  <2>2. /\ RouterDistance[s'.phase] < NodeDistance["critic"]
        /\ 3 < NodeDistance["critic"]
    BY <2>1, RouterDistances, NodeDistances
  <2>3. tasks = {"critic"} /\ "router" \in tasks' /\ "critic" \in SingleNodes
    BY <1>10 DEF Critic, Running, GotoRouter, SingleNodes
  <2> QED BY <1>e, <2>1, <2>2, <2>3
<1>11. CASE Router
  BY <1>11, RouterIsNearer
<1>12. CASE Generator
  <2>1. s'.phase \in {"complete", "fatal"} /\ s'.counters = s.counters
    BY <1>12, <1>c, <1>d DEF Generator
  <2> QED
    BY <1>12, <1>e, <2>1, RouterDistances, NodeDistances
    DEF Generator, Running, SingleNodes
<1>13. CASE Chat
  <2>1. s'.phase \in {"complete", "fatal"} /\ s'.counters = s.counters
    BY <1>13, <1>c, <1>d DEF Chat
  <2> QED
    BY <1>13, <1>e, <2>1, RouterDistances, NodeDistances
    DEF Chat, Running, GotoRouter, SingleNodes
<1>14. CASE TerminalResponse
  <2>1. s'.phase = "complete" /\ s'.counters = s.counters
    BY <1>14, <1>d DEF TerminalResponse
  <2> QED
    BY <1>14, <1>e, <2>1, RouterDistances, NodeDistances
    DEF TerminalResponse, Running, GotoRouter, SingleNodes
<1> QED
  BY <1>1, <1>2, <1>3, <1>4, <1>5, <1>6, <1>7, <1>8, <1>9, <1>10, <1>11,
     <1>12, <1>13, <1>14
  DEF NodeStep

SuperstepsBounded == running => SuperstepsLeft \in 1..SuperstepLimit

(* A loop that runs has at least one superstep left, and no more than the  *)
(* limit.                                                                  *)
LEMMA SuperstepsBound ==
  ASSUME TypeOK, IInv, LifeInv
  PROVE  SuperstepsBounded
<1> SUFFICES ASSUME running
             PROVE  SuperstepsLeft \in 1..SuperstepLimit
  BY DEF SuperstepsBounded
<1> DEFINE a == Distance(tasks, s.phase, s.counters)
           r == ReplansLeft(s.counters)
           e == ExecutionsLeft(s.counters)
<1>1. a \in 1..17
  BY DistanceType DEF IInv, LifeInv, Alive
<1>2. r \in 0..(Turns - 1) /\ e \in 0..(ToolCallLimit - 1)
  BY AllowanceType DEF TypeOK, Channels
<1>3. SuperstepsLeft = a + 8 * r + 6 * e
  BY DEF SuperstepsLeft
<1>4. ToolCallLimit = Turns * 5 /\ Turns \in Nat \ {0}
  BY LimitsType DEF ToolCallLimit
<1> HIDE DEF a, r, e
<1> QED BY <1>1, <1>2, <1>3, <1>4 DEF SuperstepLimit

(* Until a call comes late, every superstep after which the loop goes on   *)
(* lowers the bound on those that are left: retries, replans and fallbacks *)
(* cannot go on for ever.                                                  *)
THEOREM SuperstepsLead ==
  Spec => [][InTime /\ NodeStep /\ running' =>
               SuperstepsLeft' < SuperstepsLeft]_vars
<1>1. TypeOK /\ TypeOK' /\ (InTime => IInv) /\ [Next]_vars =>
        [InTime /\ NodeStep /\ running' =>
           SuperstepsLeft' < SuperstepsLeft]_vars
  BY SuperstepIsNearer
<1> QED
  BY <1>1, TypeCorrect, Invariance, PTL DEF Spec

(* A count of the supersteps of the loop that runs, or ran last, beside    *)
(* the graph.                                                              *)
VARIABLE supersteps

CountedInit == Init /\ supersteps = 0

CountedNext ==
  /\ Next
  /\ supersteps' = IF NodeStep THEN supersteps + 1 ELSE 0

CountedSpec == CountedInit /\ [][CountedNext]_<<vars, supersteps>>

LoopIsShort == InTime =>
  /\ supersteps \in 0..SuperstepLimit
  /\ running => supersteps + SuperstepsLeft <= SuperstepLimit

LEMMA NodeRuns ==
  ASSUME NodeStep
  PROVE  running
BY DEF NodeStep, Supervisor, ResearcherCoordinator, ResearchBranches,
       ResearchJoin, Planner, PlanValidator, AwaitPlanReview, Execute,
       ExecuteParallel, ToolResultNormalizer, Critic, Router, Generator, Chat,
       TerminalResponse, Running

LEMMA LoopStaysShort ==
  ASSUME TypeOK, TypeOK', IInv, SuperstepsBounded, SuperstepsBounded',
         InTime, LoopIsShort, [CountedNext]_<<vars, supersteps>>
  PROVE  LoopIsShort'
<1>1. SuperstepLimit \in Nat /\ SuperstepLimit' = SuperstepLimit
  BY LimitsType DEF SuperstepLimit
<1>2. /\ running  => SuperstepsLeft \in 1..SuperstepLimit
      /\ running' => SuperstepsLeft' \in 1..SuperstepLimit
  BY <1>1 DEF SuperstepsBounded
<1>3. CASE CountedNext /\ NodeStep
  <2>1. running /\ supersteps' = supersteps + 1
    BY <1>3, NodeRuns DEF CountedNext
  <2>2. running' => SuperstepsLeft' < SuperstepsLeft
    BY <1>3, SuperstepIsNearer
  <2>3. /\ supersteps \in Nat /\ SuperstepsLeft >= 1
        /\ supersteps + SuperstepsLeft <= SuperstepLimit
        /\ SuperstepsLeft \in Nat
    BY <1>1, <1>2, <2>1 DEF LoopIsShort
  <2>4. supersteps + 1 \in 0..SuperstepLimit
    BY <1>1, <2>3
  <2>5. running' => supersteps + 1 + SuperstepsLeft' <= SuperstepLimit
    BY <1>1, <1>2, <2>2, <2>3
  <2> QED BY <1>1, <2>1, <2>4, <2>5 DEF LoopIsShort
<1>4. CASE CountedNext /\ ~NodeStep
  <2>1. supersteps' = 0
    BY <1>4 DEF CountedNext
  <2> QED BY <1>1, <1>2, <2>1 DEF LoopIsShort
<1>5. CASE UNCHANGED <<vars, supersteps>>
  <2>1. SuperstepsLeft' = SuperstepsLeft /\ running' = running
    BY <1>5 DEF vars, SuperstepsLeft
  <2> QED BY <1>1, <1>5, <2>1 DEF LoopIsShort
<1> QED BY <1>3, <1>4, <1>5

(* Until a call comes late, no loop takes more supersteps than             *)
(* SuperstepLimit, whatever the models and the tools answer: with up to    *)
(* five turns, it ends before LangGraph's limit of 200 (recursionLimit in  *)
(* agents.service.ts) stops it.                                            *)
THEOREM LoopsAreShort ==
  CountedSpec => [](InTime => supersteps \in 0..SuperstepLimit)
<1>1. [CountedNext]_<<vars, supersteps>> => [Next]_vars
  BY DEF CountedNext, vars
<1>2. CountedSpec => Spec
  BY <1>1, PTL DEF CountedSpec, CountedInit, Spec
<1> DEFINE Known == TypeOK /\ (InTime => IInv /\ SuperstepsBounded)
<1>3. TypeOK /\ (InTime => IInv) /\ (InTime => LifeInv) => Known
  BY SuperstepsBound
<1>4. Spec => []Known
  BY <1>3, TypeCorrect, Invariance, LifeInvariance, PTL
<1>5. CountedInit => LoopIsShort
  BY LimitsType DEF CountedInit, Init, LoopIsShort, SuperstepLimit
<1>6. Known /\ Known' /\ LoopIsShort /\ [CountedNext]_<<vars, supersteps>>
        => LoopIsShort'
  <2> SUFFICES ASSUME Known, Known', LoopIsShort,
                      [CountedNext]_<<vars, supersteps>>, InTime'
               PROVE  LoopIsShort'
    BY DEF LoopIsShort
  <2>1. InTime
    BY <1>1, LateStays
  <2> QED
    BY <2>1, LoopStaysShort
<1>7. LoopIsShort => (InTime => supersteps \in 0..SuperstepLimit)
  BY DEF LoopIsShort
<1> QED
  BY <1>2, <1>4, <1>5, <1>6, <1>7, PTL DEF CountedSpec

(* With up to five turns, which is more than the three of the default, the *)
(* limit of 200 supersteps stops no loop before a call comes late.         *)
COROLLARY RecursionLimitSuffices ==
  ASSUME Turns <= 5
  PROVE  CountedSpec => [](InTime => supersteps < 200)
<1>1. (InTime => supersteps \in 0..SuperstepLimit) =>
        (InTime => supersteps < 200)
  BY LimitsType DEF SuperstepLimit
<1> QED BY <1>1, LoopsAreShort, PTL
=============================================================================
