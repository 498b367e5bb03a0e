------------------------- MODULE AgentGraph_proofs -------------------------
(***************************************************************************)
(* Proofs about AgentGraph.  Type correctness is inductive by itself; the  *)
(* safety properties follow from the inductive invariant IInv.             *)
(***************************************************************************)
EXTENDS AgentGraph, SequenceTheorems, TLAPS

-----------------------------------------------------------------------------
(* Type correctness. *)

(* The reducer of the attempts channel returns a list that keeps the cap.  *)
LEMMA AppendAttemptType ==
  ASSUME NEW attempts \in Seq(Attempt), NEW a \in Attempt
  PROVE  /\ AppendAttempt(attempts, a) \in Seq(Attempt)
         /\ Len(AppendAttempt(attempts, a)) <= AttemptsCap
<1> DEFINE longer == Append(attempts, a)
<1>1. longer \in Seq(Attempt) /\ Len(longer) = Len(attempts) + 1
  BY AppendProperties
<1>2. AttemptsCap \in Nat
  BY AgentGraphAssumption
<1>3. CASE Len(longer) <= AttemptsCap
  BY <1>1, <1>3 DEF AppendAttempt
<1>4. CASE ~(Len(longer) <= AttemptsCap)
  <2> DEFINE from == Len(longer) - AttemptsCap + 1
  <2>1. from \in 1..Len(longer) + 1
    BY <1>1, <1>2, <1>4
  <2>2. /\ SubSeq(longer, from, Len(longer)) \in Seq(Attempt)
        /\ Len(SubSeq(longer, from, Len(longer))) =
             IF from <= Len(longer) THEN Len(longer) - from + 1 ELSE 0
    BY <1>1, <2>1, SubSeqProperties
  <2> QED
    BY <1>1, <1>2, <1>4, <2>1, <2>2 DEF AppendAttempt
<1> QED
  BY <1>3, <1>4

(* Counting keeps the counters natural numbers. *)
LEMMA CountersType ==
  ASSUME NEW k \in Counters, NEW n \in Nat
  PROVE  /\ CountToolCalls(k, n) \in Counters
         /\ CountReplan(k) \in Counters
         /\ CountRetry(k) \in Counters
         /\ CountFallback(k) \in Counters
<1>0. /\ k.turn + 1 \in Nat
      /\ k.replans + 1 \in Nat
      /\ k.stepRetries + 1 \in Nat
      /\ k.supervisorFallbacks + 1 \in Nat
  BY DEF Counters
<1>1. CountToolCalls(k, n) \in Counters
  BY DEF CountToolCalls, Counters
<1>2. CountReplan(k) \in Counters
  BY <1>0 DEF CountReplan, Counters
<1>3. CountRetry(k) \in Counters
  BY <1>0 DEF CountRetry, Counters
<1>4. CountFallback(k) \in Counters
  BY <1>0 DEF CountFallback, Counters
<1> QED
  BY <1>1, <1>2, <1>3, <1>4

(* Beginning a step keeps the types of the channels. *)
LEMMA BeginWithType ==
  ASSUME NEW c \in Channels, NEW step \in Step, NEW i \in Nat
  PROVE  /\ BeginWith(c, step, i) \in Channels
         /\ BeginWith(c, step, i).plan = c.plan
         /\ BeginWith(c, step, i).attempts = c.attempts
<1>1. step.tool \in Tools
  BY DEF Step
<1> QED
  BY <1>1 DEF BeginWith, Channels, Phases

LEMMA BeginStepType ==
  ASSUME NEW c \in Channels, NEW i \in Nat, i < Len(c.plan)
  PROVE  /\ BeginStep(c, i) \in Channels
         /\ BeginStep(c, i).plan = c.plan
         /\ BeginStep(c, i).attempts = c.attempts
<1>1. c.plan[i + 1] \in Step
  BY ElementOfSeq DEF Channels
<1> QED
  BY <1>1, BeginWithType DEF BeginStep

(* The router keeps the types of the channels. *)
LEMMA RouteType ==
  ASSUME NEW c \in Channels
  PROVE  /\ Route(c) \in Channels
         /\ Route(c).plan = c.plan
         /\ Route(c).attempts = c.attempts
<1>1. Fail(c) \in Channels /\ Fail(c).plan = c.plan /\ Fail(c).attempts = c.attempts
  BY ZenonT(60) DEF Fail, Channels, Phases
<1>0. /\ CountReplan(c.counters) \in Counters
      /\ CountRetry(c.counters) \in Counters
      /\ CountFallback(c.counters) \in Counters
  BY CountersType DEF Channels
<1>2. /\ Replan(c) \in Channels
      /\ Replan(c).plan = c.plan
      /\ Replan(c).attempts = c.attempts
  BY <1>0 DEF Replan, Channels, Phases
<1>3. /\ Retry(c) \in Channels
      /\ Retry(c).plan = c.plan
      /\ Retry(c).attempts = c.attempts
  BY <1>0 DEF Retry, Channels, Phases
<1>4. /\ SupervisorFallback(c) \in Channels
      /\ SupervisorFallback(c).plan = c.plan
      /\ SupervisorFallback(c).attempts = c.attempts
  BY <1>0 DEF SupervisorFallback, Channels, Phases
<1>5. /\ Advance(c) \in Channels
      /\ Advance(c).plan = c.plan
      /\ Advance(c).attempts = c.attempts
  <2> DEFINE done == [c EXCEPT !.criticDecision = "none",
                               !.replanContext = FALSE]
  <2>1. done \in Channels /\ done.plan = c.plan /\ done.attempts = c.attempts
    BY DEF Channels, AllDecisions
  <2>2. c.currentStep \in Nat /\ Len(c.plan) \in Nat
    BY DEF Channels
  <2>3. CASE c.currentStep + 1 >= Len(c.plan)
    BY <2>1, <2>3, ZenonT(60) DEF Advance, Channels, Phases
  <2>4. CASE ~(c.currentStep + 1 >= Len(c.plan))
    <3>1. Advance(c) = BeginStep(done, c.currentStep + 1)
      BY <2>4 DEF Advance
    <3>2. /\ c.currentStep + 1 \in Nat
          /\ c.currentStep + 1 < Len(done.plan)
      BY <2>1, <2>2, <2>4
    <3> HIDE DEF done
    <3> QED
      BY <2>1, <3>1, <3>2, BeginStepType
  <2> QED
    BY <2>3, <2>4
<1>6. c.criticDecision \in AllDecisions \cup {"none"}
  BY DEF Channels
<1>7. CASE c.criticDecision # "none"
  <2>1. /\ RetryOrReplan(c) \in Channels
        /\ RetryOrReplan(c).plan = c.plan
        /\ RetryOrReplan(c).attempts = c.attempts
    BY <1>2, <1>3 DEF RetryOrReplan
  <2>2. Obey(c) \in {Advance(c), Fail(c), Replan(c), RetryOrReplan(c)}
    BY <1>6, <1>7 DEF Obey, AllDecisions
  <2>3. Route(c) \in {c, Fail(c), Obey(c)}
    BY <1>7 DEF Route
  <2> QED
    BY <1>1, <1>2, <1>5, <2>1, <2>2, <2>3
<1>8. CASE c.criticDecision = "none"
  <2>1. Route(c) \in {c, Fail(c), SupervisorFallback(c)}
    BY <1>8 DEF Route
  <2> QED
    BY <1>1, <1>4, <2>1
<1> QED
  BY <1>7, <1>8

(* Running tools keeps the types of the channels. *)
LEMMA ToolsRanType ==
  ASSUME NEW c \in Channels,
         NEW raw \in {"text", "error", "list"}, NEW n \in Nat
  PROVE  /\ ToolsRan(c, raw, n) \in Channels
         /\ ToolsRan(c, raw, n).plan = c.plan
         /\ ToolsRan(c, raw, n).attempts = c.attempts
<1> DEFINE context == IF c.projectContext = "fresh" THEN "stale"
                      ELSE c.projectContext
<1>1. CountToolCalls(c.counters, n) \in Counters
  BY CountersType DEF Channels
<1>2. context \in {"none", "fresh", "stale"}
  BY DEF Channels
<1>3. ToolsRan(c, raw, n) =
        [c EXCEPT !.phase = "normalize_tool_result", !.toolResultRaw = raw,
                  !.counters = CountToolCalls(c.counters, n),
                  !.projectContext = context]
  BY DEF ToolsRan
<1> DEFINE counted == CountToolCalls(c.counters, n)
<1> HIDE DEF context, counted
<1>4. ToolsRan(c, raw, n) =
        [c EXCEPT !.phase = "normalize_tool_result", !.toolResultRaw = raw,
                  !.counters = counted, !.projectContext = context]
  BY <1>3 DEF counted
<1>5. counted \in Counters
  BY <1>1 DEF counted
<1>6. raw \in {"none", "text", "error", "list"}
  OBVIOUS
<1>7. ToolsRan(c, raw, n) \in Channels
  <2> DEFINE phased  == [c EXCEPT !.phase = "normalize_tool_result",
                                  !.counters = counted]
  <2>1. phased \in Channels
    BY <1>5 DEF Channels, Phases
  <2>2. ToolsRan(c, raw, n) =
          [phased EXCEPT !.toolResultRaw = raw, !.projectContext = context]
    BY <1>4 DEF Channels
  <2> HIDE DEF phased
  <2> QED
    BY <1>2, <1>6, <2>1, <2>2 DEF Channels
<1>8. /\ ToolsRan(c, raw, n).plan = c.plan
      /\ ToolsRan(c, raw, n).attempts = c.attempts
  BY <1>4 DEF Channels
<1> QED
  BY <1>7, <1>8

(* The router schedules nodes of the graph. *)
LEMMA TargetsAreNodes ==
  ASSUME NEW phase \in Phases
  PROVE  RouterTarget(phase) \subseteq Nodes
<1>1. CASE phase = "complete"
  BY <1>1 DEF RouterTarget
<1>2. CASE phase # "complete"
  <2>1. NodeOfPhase(phase) \in Nodes
    BY <1>2 DEF NodeOfPhase, Nodes, Phases
  <2> QED
    BY <1>2, <2>1 DEF RouterTarget
<1> QED
  BY <1>1, <1>2

(* Every step of the graph and every call keeps the types. *)
LEMMA TypeStep == TypeOK /\ [Next]_vars => TypeOK'
<1> SUFFICES ASSUME TypeOK, [Next]_vars PROVE TypeOK'
  OBVIOUS
<1> USE DEF TypeOK, reviewCalls
<1>a. /\ Fail(s) \in Channels
      /\ Fail(s).plan = s.plan
      /\ Fail(s).attempts = s.attempts
  BY ZenonT(60) DEF Fail, Channels, Phases
<1>b. /\ {"router"} \in SUBSET Nodes
      /\ {"router", "memory_persist"} \in SUBSET Nodes
      /\ {"research_fs", "research_vector"} \in SUBSET Nodes
      /\ {"research_join"} \in SUBSET Nodes
      /\ {"supervisor"} \in SUBSET Nodes
  BY DEF Nodes
<1>c. ASSUME NEW answer \in {"none", "answer", "failure"}
      PROVE  /\ Complete(s, answer) \in Channels
             /\ Complete(s, answer).plan = s.plan
             /\ Complete(s, answer).attempts = s.attempts
  BY ZenonT(60) DEF Complete, Channels, Phases
<1>d. <<>> \in Seq(Step) /\ Len(<<>>) = 0
  OBVIOUS
<1>1. CASE Supervisor
  <2>1. s' \in Channels /\ s'.plan = s.plan /\ s'.attempts = s.attempts
    <3>1. ASSUME NEW p \in {"chat", "research", "clarification"},
                 s' = [s EXCEPT !.phase = p]
          PROVE  s' \in Channels /\ s'.plan = s.plan /\ s'.attempts = s.attempts
      BY <3>1 DEF Channels, Phases
    <3> QED
      BY <1>1, <1>a, <3>1 DEF Supervisor
  <2> QED
    BY <1>1, <1>b, <2>1 DEF Supervisor, GotoRouter
<1>2. CASE ResearcherCoordinator
  BY <1>2, <1>b DEF ResearcherCoordinator
<1>3. CASE ResearchBranches
  BY <1>3, <1>b DEF ResearchBranches, Channels
<1>4. CASE ResearchJoin
  BY <1>4, <1>b DEF ResearchJoin, GotoRouter, Channels, Phases
<1>5. CASE Planner
  <2>1. CASE s' = Fail(s) /\ UNCHANGED <<runs, verdicts>>
    BY <1>5, <1>a, <1>b, <2>1 DEF Planner, GotoRouter
  <2>2. CASE \E p \in Plans :
               /\ s' = [s EXCEPT !.phase = "validate_plan", !.plan = p,
                                 !.currentStep = 0, !.selectedTool = p[1].tool,
                                 !.replanContext = FALSE]
               /\ runs' = NotRunYet(p)
               /\ verdicts' = {}
    <3>1. PICK p \in Plans :
            /\ s' = [s EXCEPT !.phase = "validate_plan", !.plan = p,
                              !.currentStep = 0, !.selectedTool = p[1].tool,
                              !.replanContext = FALSE]
            /\ runs' = NotRunYet(p)
            /\ verdicts' = {}
      BY <2>2
    <3>2. p \in Seq(Step) /\ p # <<>>
      BY AgentGraphAssumption
    <3>3. p[1] \in Step
      BY <3>2
    <3>4. p[1].tool \in Tools
      BY <3>3 DEF Step
    <3>5. s' \in Channels /\ s'.plan = p /\ s'.attempts = s.attempts
      BY <3>1, <3>2, <3>4 DEF Channels, Phases
    <3>6. runs' \in [1..Len(p) -> Nat]
      BY <3>1 DEF NotRunYet
    <3> QED
      BY <1>5, <1>b, <3>1, <3>5, <3>6 DEF Planner, GotoRouter
  <2> QED
    BY <1>5, <2>1, <2>2 DEF Planner
<1>6. CASE PlanValidator
  <2>1. PICK anchorsFound \in BOOLEAN :
          s' = IF ~Acceptable(s.plan, anchorsFound) THEN Fail(s)
               ELSE IF ReviewRequired(s.plan)
               THEN [s EXCEPT !.phase = "await_plan_review",
                              !.reviewRequest = s.plan]
               ELSE BeginStep(s, 0)
    BY <1>6 DEF PlanValidator
  <2>2. Acceptable(s.plan, anchorsFound) => 0 < Len(s.plan)
    BY PlanRulesAssumption DEF Acceptable, Channels
  <2>3. /\ s' \in Channels
        /\ s'.plan = s.plan
        /\ s'.attempts = s.attempts
    <3>1. CASE s' = Fail(s)
      BY <1>a, <3>1
    <3>2. CASE s' = [s EXCEPT !.phase = "await_plan_review",
                              !.reviewRequest = s.plan]
      BY <3>2 DEF Channels, Phases
    <3>3. CASE s' = BeginStep(s, 0) /\ 0 < Len(s.plan)
      BY <3>3, BeginStepType
    <3> QED
      BY <2>1, <2>2, <3>1, <3>2, <3>3
  <2> QED
    BY <1>6, <1>b, <2>3 DEF PlanValidator, GotoRouter
<1>7. CASE AwaitPlanReview
  BY <1>7 DEF AwaitPlanReview
<1>8. CASE Execute
  <2>1. PICK raw \in {"text", "error", "list"} : s' = ToolsRan(s, raw, 1)
    BY <1>8 DEF Execute
  <2>2. runs' \in [1..Len(s.plan) -> Nat]
    <3>1. runs' = [i \in DOMAIN runs |->
                     IF i = s.currentStep + 1 THEN runs[i] + 1 ELSE runs[i]]
      BY <1>8 DEF Execute
    <3>2. \A i \in 1..Len(s.plan) : runs[i] + 1 \in Nat
      OBVIOUS
    <3> QED
      BY <3>1, <3>2
  <2>3. s' \in Channels /\ s'.plan = s.plan /\ s'.attempts = s.attempts
    <3>1. /\ ToolsRan(s, raw, 1) \in Channels
          /\ ToolsRan(s, raw, 1).plan = s.plan
          /\ ToolsRan(s, raw, 1).attempts = s.attempts
      BY ToolsRanType, 1 \in Nat
    <3> QED
      BY <2>1, <3>1
  <2> QED
    BY <1>8, <1>b, <2>2, <2>3 DEF Execute, GotoRouter
<1>9. CASE ExecuteParallel
  <2> DEFINE first == s.currentStep + 1
  <2>1. first \in Nat /\ Len(s.plan) \in Nat
    BY DEF Channels
  <2>2. CASE first > Len(s.plan)
    <3>1. s' = [ToolsRan(s, "list", 0) EXCEPT !.parallelResult = FALSE]
      BY <1>9, <2>2 DEF ExecuteParallel
    <3>2. s' \in Channels /\ s'.plan = s.plan /\ s'.attempts = s.attempts
      <4> DEFINE c == ToolsRan(s, "list", 0)
      <4>1. c \in Channels /\ c.plan = s.plan /\ c.attempts = s.attempts
        BY ToolsRanType
      <4>2. s' = [c EXCEPT !.parallelResult = FALSE]
        BY <3>1
      <4> HIDE DEF c
      <4> QED
        BY <4>1, <4>2 DEF Channels
    <3> QED
      BY <1>9, <1>b, <2>2, <3>2 DEF ExecuteParallel, GotoRouter
  <2>3. CASE ~(first > Len(s.plan))
    <3>1. PICK last \in first..Len(s.plan) :
            /\ s' = [ToolsRan(s, "list", last - first + 1) EXCEPT
                       !.parallelResult = TRUE, !.currentStep = last - 1]
            /\ runs' = [i \in 1..Len(s.plan) |->
                          IF i \in first..last THEN runs[i] + 1 ELSE runs[i]]
      BY <1>9, <2>3 DEF ExecuteParallel
    <3>2. last - first + 1 \in Nat /\ last - 1 \in Nat
      BY <2>1 DEF Channels
    <3>3. s' \in Channels /\ s'.plan = s.plan /\ s'.attempts = s.attempts
      <4> DEFINE c == ToolsRan(s, "list", last - first + 1)
      <4>1. c \in Channels /\ c.plan = s.plan /\ c.attempts = s.attempts
        BY <3>2, ToolsRanType
      <4>2. s' = [c EXCEPT !.parallelResult = TRUE, !.currentStep = last - 1]
        BY <3>1
      <4> HIDE DEF c
      <4> QED
        BY <3>2, <4>1, <4>2 DEF Channels
    <3>4. runs' \in [1..Len(s.plan) -> Nat]
      BY <3>1
    <3> QED
      BY <1>9, <1>b, <3>3, <3>4 DEF ExecuteParallel, GotoRouter
  <2> QED
    BY <2>2, <2>3
<1>10. CASE ToolResultNormalizer
  <2> DEFINE a == [tool |-> AttemptTool(s), step |-> s.currentStep,
                   ok |-> NormalizedOk(s),
                   replanGeneration |-> s.counters.replans]
  <2>1. a \in Attempt
    BY DEF Attempt, AttemptTool, NormalizedOk, Channels, Counters
  <2> DEFINE longer == IF AttemptTool(s) = NoTool THEN s.attempts
                       ELSE AppendAttempt(s.attempts, a)
  <2>2. longer \in Seq(Attempt) /\ Len(longer) <= AttemptsCap
    BY <2>1, AppendAttemptType DEF Channels
  <2>3. s' = [s EXCEPT
                !.phase = "judge",
                !.toolResult = IF NormalizedOk(s) THEN "ok" ELSE "error",
                !.parallelResult = FALSE,
                !.attempts = longer]
    BY <1>10 DEF ToolResultNormalizer
  <2> HIDE DEF longer
  <2>4. s' \in Channels /\ s'.plan = s.plan /\ s'.attempts = longer
    BY <2>2, <2>3, ZenonT(60) DEF Channels, Phases
  <2> QED
    BY <1>10, <1>b, <2>2, <2>4 DEF ToolResultNormalizer, GotoRouter
<1>11. CASE Critic
  <2>1. Decisions \subseteq AllDecisions
    BY AgentGraphAssumption
  <2>2. s' \in Channels /\ s'.plan = s.plan /\ s'.attempts = s.attempts
    <3>1. ASSUME NEW d \in Decisions,
                 s' = [s EXCEPT !.phase = "route", !.criticDecision = d]
          PROVE  s' \in Channels /\ s'.plan = s.plan /\ s'.attempts = s.attempts
      BY <2>1, <3>1 DEF Channels, Phases
    <3> QED
      BY <1>11, <1>a, <3>1 DEF Critic
  <2> QED
    BY <1>11, <1>b, <2>2 DEF Critic, GotoRouter
<1>12. CASE Router
  <2>1. s' \in Channels /\ s'.plan = s.plan /\ s'.attempts = s.attempts
    BY <1>12, RouteType DEF Router
  <2>2. tasks' \in SUBSET Nodes
    BY <1>12, <2>1, TargetsAreNodes DEF Router, Channels
  <2>3. s.finalAnswer \in {"none", "answer", "failure"}
    BY DEF Channels
  <2>4. memory' \in SUBSET {"answer", "failure"}
    BY <1>12, <2>3 DEF Router
  <2> QED
    BY <1>12, <2>1, <2>2, <2>4 DEF Router
<1>13. CASE Generator
  BY <1>13, <1>a, <1>b, <1>c DEF Generator
<1>14. CASE Chat
  BY <1>14, <1>a, <1>b, <1>c DEF Chat, GotoRouter
<1>15. CASE TerminalResponse
  BY <1>15, <1>b, <1>c DEF TerminalResponse, GotoRouter
<1>16. CASE StartRun
  <2>1. ZeroCounters \in Counters
    BY DEF ZeroCounters, Counters
  <2>2. /\ s' \in Channels
        /\ s'.plan = <<>>
        /\ s'.attempts = s.attempts
    BY <1>16, <1>d, <2>1 DEF StartRun, InitialRunState, Channels, Phases
  <2>3. runs' \in [1..Len(<<>>) -> Nat]
    BY <1>16, <1>d DEF StartRun
  <2> QED
    BY <1>16, <1>b, <2>2, <2>3 DEF StartRun
<1>17. CASE ReadReview
  BY <1>17 DEF ReadReview, Channels
<1>e. ASSUME NEW plan, ActOn(plan)
      PROVE  plan \in Seq(Step) /\ asked' = asked /\ late' \in Nat
  BY <1>e DEF ActOn
<1>f. ASSUME NEW plan, NEW verdict \in {"approved", "rejected"},
             Verdict(plan, verdict)
      PROVE  verdicts' \in SUBSET {"approved", "rejected"}
  BY <1>f DEF Verdict
<1>18. ASSUME NEW plan \in asked, Approve(plan) PROVE TypeOK'
  <2> DEFINE begun == BeginWith(s, plan[1], 0)
  <2>1. plan[1] \in Step
    BY <1>18, <1>e, ElementOfSeq DEF Approve
  <2>2. /\ begun \in Channels
        /\ begun.plan = s.plan
        /\ begun.attempts = s.attempts
    BY <2>1, BeginWithType
  <2>3. s' = [begun EXCEPT !.reviewRequest = <<>>]
    BY <1>18 DEF Approve, ResumeWith, UpdateState
  <2> HIDE DEF begun
  <2>4. /\ s' \in Channels
        /\ s'.plan = s.plan
        /\ s'.attempts = s.attempts
    BY <1>d, <2>2, <2>3 DEF Channels
  <2>5. tasks' = tasks \/ tasks' = RouterTarget(s'.phase)
    BY <1>18, <2>3 DEF Approve, ResumeWith, UpdateState, begun
  <2>6. tasks' \in SUBSET Nodes
    BY <2>4, <2>5, TargetsAreNodes DEF Channels
  <2>7. asked' = asked /\ late' \in Nat
    BY <1>18, <1>e DEF Approve
  <2>8. verdicts' \in SUBSET {"approved", "rejected"}
    BY <1>18, <1>f DEF Approve
  <2> QED
    BY <1>18, <2>4, <2>6, <2>7, <2>8 DEF Approve, ResumeWith
<1>19. ASSUME NEW plan \in asked, Reject(plan) PROVE TypeOK'
  <2>1. s' = Fail(s) /\ (tasks' = tasks \/ tasks' = RouterTarget(Fail(s).phase))
    BY <1>19 DEF Reject, UpdateState
  <2>2. tasks' \in SUBSET Nodes
    BY <1>a, <2>1, TargetsAreNodes DEF Channels
  <2>3. asked' = asked /\ late' \in Nat
    BY <1>19, <1>e DEF Reject
  <2>4. verdicts' \in SUBSET {"approved", "rejected"}
    BY <1>19, <1>f DEF Reject
  <2> QED
    BY <1>19, <1>a, <2>1, <2>2, <2>3, <2>4 DEF Reject
<1>22. ASSUME NEW plan \in asked, ReplanSession(plan) PROVE TypeOK'
  <2>1. /\ s' \in Channels
        /\ s'.phase = "research"
        /\ s'.plan = <<>>
        /\ s'.attempts = s.attempts
    BY <1>22, <1>d DEF ReplanSession, ResumeWith, UpdateState, Channels, Phases
  <2>2. tasks' = tasks \/ tasks' = RouterTarget("research")
    BY <1>22, <2>1 DEF ReplanSession, ResumeWith, UpdateState, Channels
  <2>3. tasks' \in SUBSET Nodes
    BY <2>2, TargetsAreNodes DEF Phases
  <2>4. runs' \in [1..Len(<<>>) -> Nat]
    BY <1>22, <1>d DEF ReplanSession
  <2>5. asked' = asked /\ late' \in Nat
    BY <1>22, <1>e DEF ReplanSession
  <2> QED
    BY <1>22, <2>1, <2>3, <2>4, <2>5 DEF ReplanSession, ResumeWith
<1>20. CASE Abort
  BY <1>20 DEF Abort
<1>21. CASE UNCHANGED vars
  BY <1>21 DEF vars
<1> QED
  BY <1>1, <1>2, <1>3, <1>4, <1>5, <1>6, <1>7, <1>8, <1>9, <1>10, <1>11,
     <1>12, <1>13, <1>14, <1>15, <1>16, <1>17, <1>18, <1>19, <1>20, <1>21,
     <1>22
  DEF Next, NodeStep, Call, ReviewCall

(* The channels, the schedule and the history always have their types, and *)
(* the attempts channel never outgrows its cap.                            *)
THEOREM TypeCorrect == Spec => []TypeOK
<1>1. Init => TypeOK
  <2> SUFFICES ASSUME Init PROVE TypeOK
    OBVIOUS
  <2>1. ZeroCounters \in Counters
    BY DEF ZeroCounters, Counters
  <2>2. s \in Channels /\ s.plan = <<>> /\ s.attempts = <<>>
    BY <2>1 DEF Init, Channels, Phases
  <2>3. Len(s.attempts) <= AttemptsCap
    BY <2>2, AgentGraphAssumption
  <2>4. runs \in [1..Len(s.plan) -> Nat]
    BY <2>2 DEF Init
  <2> QED
    BY <2>2, <2>3, <2>4 DEF Init, TypeOK
<1> QED
  BY <1>1, TypeStep, PTL DEF Spec

-----------------------------------------------------------------------------
(***************************************************************************)
(* The inductive invariant.  The properties of a phase need to know which  *)
(* node can be scheduled in it (Scheduled), that a failed result can only  *)
(* be that of a single step (OnOneStep: a group is never retried), how far *)
(* the plan has been executed (StepsDone), and that a pending review       *)
(* leaves the plan and its history alone (ReviewUntouched).  It holds      *)
(* until a review call comes late.                                         *)
(***************************************************************************)
Scheduled ==
  \/ tasks \in {{}, {"router"}}
  \/ /\ tasks = {"router", "memory_persist"}
     /\ s.phase \in {"complete", "fatal"}
     /\ s.reviewRequest = <<>>
  \/ /\ tasks \in {{"research_fs", "research_vector"}, {"research_join"}}
     /\ s.phase = "research"
  \/ s.phase \notin {"complete", "route"} /\ tasks = {NodeOfPhase(s.phase)}

(* The critic's decision is there only on its way to the router. *)
DecisionAwaited ==
  /\ s.criticDecision # "none" => s.phase \in {"route", "fatal", "complete"}
  /\ s.phase = "route" => s.criticDecision # "none"
  /\ s.counters.supervisorFallbacks = 0

ToRun  == {"execute", "execute_parallel"}
HasRun == {"normalize_tool_result", "judge", "route"}

OnSingleStep ==
  /\ ~Grouped(s.plan[s.currentStep + 1])
  /\ s.selectedTool = s.plan[s.currentStep + 1].tool

OnOneStep ==
  /\ s.phase \in ToRun \cup HasRun => s.currentStep < Len(s.plan)
  /\ s.phase = "execute" => OnSingleStep
  /\ s.phase = "normalize_tool_result" /\ ~NormalizedOk(s) => OnSingleStep
  /\ s.phase \in {"judge", "route"} /\ s.toolResult # "ok" => OnSingleStep

NothingRun == \A i \in 1..Len(s.plan) : runs[i] = 0

StepsDone ==
  /\ s.phase = "validate_plan" => NothingRun
  /\ s.phase \in ToRun => \A i \in 1..s.currentStep : runs[i] > 0
  /\ s.phase \in HasRun => \A i \in 1..s.currentStep + 1 : runs[i] > 0
  /\ s.phase = "generate" => \A i \in 1..Len(s.plan) : runs[i] > 0

Unapproved ==
  /\ RequirePlanReview
  /\ HasDestructiveTool(s.plan)
  /\ "approved" \notin verdicts

ReviewedFirst == Unapproved => s.phase \notin ToRun \cup HasRun /\ NothingRun

ReviewUntouched ==
  s.reviewRequest # <<>> =>
    /\ s.phase \in {"await_plan_review", "fatal", "complete"}
    /\ s.criticDecision = "none"
    /\ s.reviewRequest = s.plan
    /\ NothingRun

IInv ==
  /\ Scheduled
  /\ DecisionAwaited
  /\ OnOneStep
  /\ StepsDone
  /\ ReviewedFirst
  /\ ReviewUntouched

-----------------------------------------------------------------------------
(***************************************************************************)
(* Calls in time.  They find what they have read, so approve begins the    *)
(* first step of the plan in the channel, and a run with a pending review  *)
(* was stopped where the router's edge or the edge to the router leads.    *)
(***************************************************************************)
threadVars == <<s, tasks, running, memory, started, runs, verdicts>>

UpdateInTime(c) ==
  /\ s' = c
  /\ tasks' = IF tasks = {"router"} THEN tasks ELSE RouterTarget(c.phase)

ResumeInTime(c) == UpdateInTime(c) /\ running' = TRUE

ReviewPending == ~running /\ s.reviewRequest # <<>>

ApproveInTime ==
  /\ ReviewPending
  /\ s.plan # <<>>
  /\ ResumeInTime([BeginStep(s, 0) EXCEPT !.reviewRequest = <<>>])
  /\ verdicts' = verdicts \cup {"approved"}
  /\ UNCHANGED <<memory, started, runs>>

RejectInTime ==
  /\ ReviewPending
  /\ UpdateInTime(Fail(s))
  /\ verdicts' = verdicts \cup {"rejected"}
  /\ UNCHANGED <<running, memory, started, runs>>

ReplanInTime ==
  /\ ReviewPending
  /\ ResumeInTime([s EXCEPT !.phase = "research", !.plan = <<>>,
                            !.reviewRequest = <<>>])
  /\ runs' = <<>>
  /\ verdicts' = {}
  /\ UNCHANGED <<memory, started>>

NextInTime ==
  NodeStep \/ StartRun \/ ApproveInTime \/ RejectInTime \/ ReplanInTime \/ Abort

(* The schedule of a run whose review is pending. *)
LEMMA PendingSchedule ==
  ASSUME TypeOK, IInv, s.reviewRequest # <<>>, tasks \in ByOrdinaryEdge
  PROVE  tasks = {"router"}
<1>1. s.phase \in {"await_plan_review", "fatal", "complete"}
  BY DEF IInv, ReviewUntouched
<1>2. /\ tasks # {}
      /\ tasks # {"router", "memory_persist"}
      /\ s.phase # "research"
  BY <1>1 DEF IInv, Scheduled, ByOrdinaryEdge
<1>3. tasks = {NodeOfPhase(s.phase)} /\ s.phase # "complete" =>
        tasks \in {{"await_plan_review"}, {"terminal_response"}}
  BY <1>1 DEF NodeOfPhase
<1>4. tasks \notin {{"await_plan_review"}, {"terminal_response"}}
  BY DEF ByOrdinaryEdge
<1> QED
  BY <1>2, <1>3, <1>4 DEF IInv, Scheduled

LEMMA UpdateOfPending ==
  ASSUME TypeOK, IInv, s.reviewRequest # <<>>, NEW c, UpdateState(c)
  PROVE  UpdateInTime(c)
<1>1. tasks \in ByOrdinaryEdge <=> tasks = {"router"}
  BY PendingSchedule DEF ByOrdinaryEdge
<1> QED
  BY <1>1 DEF UpdateState, UpdateInTime

(* Once a call has come late, that is on record. *)
LEMMA LateStays ==
  ASSUME TypeOK, [Next]_vars, InTime'
  PROVE  InTime
<1> USE DEF TypeOK, InTime, reviewCalls
<1>1. CASE NodeStep
  BY <1>1
  DEF NodeStep, Supervisor, ResearcherCoordinator, ResearchBranches,
      ResearchJoin, Planner, PlanValidator, AwaitPlanReview, Execute,
      ExecuteParallel, ToolResultNormalizer, Critic, Router, Generator, Chat,
      TerminalResponse
<1>2. CASE StartRun \/ Abort \/ ReadReview
  BY <1>2 DEF StartRun, Abort, ReadReview
<1>b. ASSUME NEW plan, ActOn(plan) PROVE InTime
  <2>1. late \in Nat /\ (late' = late \/ late' = late + 1)
    BY <1>b DEF ActOn
  <2> QED
    BY <2>1
<1>3. ASSUME NEW plan \in asked, ReviewCall(plan) PROVE InTime
  <2>1. ActOn(plan)
    BY <1>3 DEF ReviewCall, Approve, Reject, ReplanSession
  <2> QED
    BY <2>1, <1>b
<1>4. CASE UNCHANGED vars
  BY <1>4 DEF vars
<1> QED
  BY <1>1, <1>2, <1>3, <1>4 DEF Next, Call

(* As long as no call comes late, every step is one of a call in time. *)
LEMMA StepInTime ==
  ASSUME TypeOK, IInv, [Next]_vars, InTime'
  PROVE  [NextInTime]_threadVars
<1>a. late \in Nat /\ late' = 0
  BY DEF TypeOK, InTime
<1>1. CASE NodeStep \/ StartRun \/ Abort
  BY <1>1 DEF NextInTime
<1>2. CASE ReadReview
  BY <1>2 DEF ReadReview, threadVars
<1>b. ASSUME NEW plan, ActOn(plan)
      PROVE  late = 0 /\ StillPending(plan) /\ ~running
  BY <1>a, <1>b DEF ActOn
<1>3. ASSUME NEW plan \in asked, Approve(plan)
      PROVE  ApproveInTime
  <2>1. late = 0 /\ ReviewPending /\ s.plan = plan
    BY <1>3, <1>b DEF Approve, StillPending, ReviewPending
  <2>2. UpdateInTime([BeginStep(s, 0) EXCEPT !.reviewRequest = <<>>])
    BY <1>3, <2>1, UpdateOfPending, 0 + 1 = 1
    DEF Approve, ResumeWith, BeginStep, ReviewPending
  <2> QED
    BY <1>3, <2>1, <2>2
    DEF Approve, ResumeWith, Verdict, ApproveInTime, ResumeInTime
<1>4. ASSUME NEW plan \in asked, Reject(plan)
      PROVE  RejectInTime
  <2>1. late = 0 /\ ReviewPending /\ s.plan = plan
    BY <1>4, <1>b DEF Reject, StillPending, ReviewPending
  <2>2. UpdateInTime(Fail(s))
    BY <1>4, <2>1, UpdateOfPending DEF Reject, ReviewPending
  <2> QED
    BY <1>4, <2>1, <2>2 DEF Reject, Verdict, RejectInTime
<1>5. ASSUME NEW plan \in asked, ReplanSession(plan)
      PROVE  ReplanInTime
  <2>1. late = 0 /\ ReviewPending
    BY <1>5, <1>b DEF ReplanSession, StillPending, ReviewPending
  <2>2. UpdateInTime([s EXCEPT !.phase = "research", !.plan = <<>>,
                               !.reviewRequest = <<>>])
    BY <1>5, <2>1, UpdateOfPending DEF ReplanSession, ResumeWith, ReviewPending
  <2> QED
    BY <1>5, <2>1, <2>2 DEF ReplanSession, ResumeWith, ReplanInTime,
                            ResumeInTime
<1>6. CASE UNCHANGED vars
  BY <1>6 DEF vars, threadVars
<1> QED
  BY <1>1, <1>2, <1>3, <1>4, <1>5, <1>6
  DEF Next, Call, ReviewCall, NextInTime

-----------------------------------------------------------------------------
(* What the updates do to the channels the invariant reads. *)

(* d keeps the channels of c that tell which step of which plan is current. *)
SameStep(c, d) ==
  /\ d.plan = c.plan
  /\ d.currentStep = c.currentStep
  /\ d.selectedTool = c.selectedTool
  /\ d.reviewRequest = c.reviewRequest
  /\ d.counters.supervisorFallbacks = c.counters.supervisorFallbacks

(* Ending a run changes its phase only. *)
LEMMA EndingEffect ==
  ASSUME NEW c \in Channels, NEW answer \in {"none", "answer", "failure"}
  PROVE  /\ SameStep(c, Fail(c)) /\ Fail(c).phase = "fatal"
         /\ Fail(c).criticDecision = c.criticDecision
         /\ SameStep(c, Complete(c, answer))
         /\ Complete(c, answer).phase = "complete"
         /\ Complete(c, answer).criticDecision = c.criticDecision
BY DEF Fail, Complete, SameStep, Channels

(* A replan or a retry consumes the decision and keeps the current step.   *)
LEMMA RecoveryEffect ==
  ASSUME NEW c \in Channels
  PROVE  /\ SameStep(c, Replan(c)) /\ Replan(c).phase = "research"
         /\ Replan(c).criticDecision = "none"
         /\ SameStep(c, Retry(c)) /\ Retry(c).phase = "execute"
         /\ Retry(c).criticDecision = "none"
<1>1. /\ CountReplan(c.counters).supervisorFallbacks =
           c.counters.supervisorFallbacks
      /\ CountRetry(c.counters).supervisorFallbacks =
           c.counters.supervisorFallbacks
  BY DEF CountReplan, CountRetry, Channels, Counters
<1>2. /\ SameStep(c, Replan(c)) /\ Replan(c).phase = "research"
      /\ Replan(c).criticDecision = "none"
  BY <1>1 DEF Replan, SameStep, Channels
<1>3. /\ SameStep(c, Retry(c)) /\ Retry(c).phase = "execute"
      /\ Retry(c).criticDecision = "none"
  BY <1>1 DEF Retry, SameStep, Channels
<1> QED
  BY <1>2, <1>3

(* A step that begins is current; a single step's tool is the selected one. *)
LEMMA BeginStepEffect ==
  ASSUME NEW c \in Channels, NEW i \in Nat
  PROVE  LET d == BeginStep(c, i) IN
         /\ d.plan = c.plan
         /\ d.currentStep = i
         /\ d.reviewRequest = c.reviewRequest
         /\ d.criticDecision = c.criticDecision
         /\ d.counters = c.counters
         /\ d.phase \in ToRun
         /\ d.phase = "execute" => /\ ~Grouped(c.plan[i + 1])
                                   /\ d.selectedTool = c.plan[i + 1].tool
         /\ d.phase = "execute_parallel" => Grouped(c.plan[i + 1])
BY DEF BeginStep, BeginWith, ToRun, Channels

(* Advancing consumes the decision and begins the next step, if there is one. *)
LEMMA AdvanceEffect ==
  ASSUME NEW c \in Channels
  PROVE  LET d == Advance(c) IN
         /\ d.plan = c.plan
         /\ d.reviewRequest = c.reviewRequest
         /\ d.criticDecision = "none"
         /\ d.counters = c.counters
         /\ \/ d.phase = "generate" /\ c.currentStep + 1 >= Len(c.plan)
            \/ /\ d.phase \in ToRun
               /\ d.currentStep = c.currentStep + 1
               /\ d.currentStep < Len(c.plan)
               /\ d.phase = "execute" =>
                    /\ ~Grouped(c.plan[d.currentStep + 1])
                    /\ d.selectedTool = c.plan[d.currentStep + 1].tool
               /\ d.phase = "execute_parallel" =>
                    Grouped(c.plan[d.currentStep + 1])
<1> DEFINE done == [c EXCEPT !.criticDecision = "none",
                             !.replanContext = FALSE]
<1>1. /\ done \in Channels
      /\ done.plan = c.plan
      /\ done.reviewRequest = c.reviewRequest
      /\ done.criticDecision = "none"
      /\ done.counters = c.counters
      /\ done.currentStep = c.currentStep
  BY DEF Channels, AllDecisions
<1>2. c.currentStep + 1 \in Nat /\ Len(c.plan) \in Nat
  BY DEF Channels
<1>3. CASE c.currentStep + 1 >= Len(c.plan)
  BY <1>3 DEF Advance, Channels
<1>4. CASE ~(c.currentStep + 1 >= Len(c.plan))
  <2>1. Advance(c) = BeginStep(done, c.currentStep + 1)
    BY <1>4 DEF Advance
  <2> HIDE DEF done
  <2> QED
    BY <1>1, <1>2, <1>4, <2>1, BeginStepEffect
<1> QED
  BY <1>3, <1>4

(* What the router can do: nothing, end the run, or obey a decision that   *)
(* is there because the critic just made it.  It never falls back, and it  *)
(* goes on only while no limit is reached.                                 *)
LEMMA RouteOutcome ==
  ASSUME TypeOK, DecisionAwaited
  PROVE  \/ /\ Route(s) = s /\ s.phase # "route"
            /\ s.phase \in {"complete", "fatal"} \/ ~LimitReached(s.counters)
         \/ Route(s) = Fail(s) /\ s.phase \notin {"complete", "fatal"}
         \/ /\ s.phase = "route" /\ ~LimitReached(s.counters)
            /\ \/ Route(s) = Advance(s)
               \/ Route(s) = Replan(s)
               \/ /\ Route(s) = Retry(s)
                  /\ s.toolResult # "ok" /\ ~AttemptedTwice(s)
<1>1. CASE s.phase \in {"complete", "fatal"}
  BY <1>1 DEF Route
<1>2. CASE s.phase \notin {"complete", "fatal"} /\ LimitReached(s.counters)
  BY <1>2 DEF Route
<1>3. CASE /\ s.phase \notin {"complete", "fatal"}
           /\ ~LimitReached(s.counters)
           /\ s.criticDecision # "none"
  <2>1. s.criticDecision \in AllDecisions
    BY <1>3 DEF TypeOK, Channels
  <2>2. s.phase = "route"
    BY <1>3 DEF DecisionAwaited
  <2>3. Route(s) = Obey(s)
    BY <1>3 DEF Route
  <2>4. \/ Obey(s) = Advance(s)
        \/ Obey(s) = Fail(s)
        \/ Obey(s) = Replan(s)
        \/ Obey(s) = RetryOrReplan(s)
    BY <2>1 DEF Obey, AllDecisions
  <2> QED
    BY <1>3, <2>2, <2>3, <2>4 DEF RetryOrReplan
<1>4. CASE /\ s.phase \notin {"complete", "fatal"}
           /\ ~LimitReached(s.counters)
           /\ s.criticDecision = "none"
  BY <1>4 DEF Route, DecisionAwaited
<1> QED
  BY <1>1, <1>2, <1>3, <1>4

(* The node that runs alone tells the phase. *)
LEMMA PhaseOfNode ==
  ASSUME TypeOK, Scheduled
  PROVE  /\ tasks = {"supervisor"}    => s.phase = "supervisor"
         /\ tasks = {"research_join"} => s.phase = "research"
         /\ tasks = {"research_fs", "research_vector"} => s.phase = "research"
         /\ tasks = {"planner"}          => s.phase = "plan"
         /\ tasks = {"plan_validator"}   => s.phase = "validate_plan"
         /\ tasks = {"execute"}          => s.phase = "execute"
         /\ tasks = {"execute_parallel"} => s.phase = "execute_parallel"
         /\ tasks = {"tool_result_normalizer"} =>
              s.phase = "normalize_tool_result"
         /\ tasks = {"critic"}    => s.phase = "judge"
         /\ tasks = {"generator"} => s.phase = "generate"
         /\ tasks = {"chat"}      => s.phase = "chat"
         /\ tasks = {"terminal_response"} =>
              s.phase \in {"fatal", "clarification"}
         /\ tasks = {"researcher_coordinator"} => s.phase = "research"
BY ZenonT(60) DEF TypeOK, Channels, Phases, Scheduled, NodeOfPhase

(* The router's target is the node of the phase. *)
LEMMA RoutedIsScheduled ==
  ASSUME NEW phase \in Phases, phase # "route"
  PROVE  \/ RouterTarget(phase) = {}
         \/ phase # "complete" /\ RouterTarget(phase) = {NodeOfPhase(phase)}
BY DEF RouterTarget

-----------------------------------------------------------------------------
(* The invariant is inductive. *)

(* The parts of the invariant that do not mention the schedule. *)
Unscheduled ==
  DecisionAwaited /\ OnOneStep /\ StepsDone /\ ReviewedFirst /\ ReviewUntouched

(* A step that touches none of the channels keeps them. *)
LEMMA Untouched ==
  ASSUME Unscheduled, UNCHANGED <<s, runs, verdicts>>
  PROVE  Unscheduled'
BY DEF Unscheduled, DecisionAwaited, OnOneStep, OnSingleStep, NormalizedOk,
       StepsDone, ReviewedFirst, Unapproved, NothingRun, ReviewUntouched

(* So does a step that leaves the plan and its history alone and enters a  *)
(* phase in which no step of the plan is current.                          *)
LEMMA QuietStep ==
  ASSUME Unscheduled, runs' = runs, "approved" \in verdicts => "approved" \in verdicts',
         SameStep(s, s'),
         s'.phase \in {"chat", "research", "clarification", "plan", "fatal", "complete"},
         s'.criticDecision \in {s.criticDecision, "none"},
         s'.phase \in {"chat", "research", "clarification", "plan"} =>
           s'.criticDecision = "none" /\ s.reviewRequest = <<>>
  PROVE  Unscheduled'
<1> USE DEF Unscheduled, SameStep
<1>1. DecisionAwaited'
  BY DEF DecisionAwaited
<1>2. OnOneStep'
  BY DEF OnOneStep, ToRun, HasRun
<1>3. StepsDone'
  BY DEF StepsDone, ToRun, HasRun
<1>4. ReviewedFirst'
  BY DEF ReviewedFirst, Unapproved, NothingRun, ToRun, HasRun
<1>5. ReviewUntouched'
  BY DEF ReviewUntouched, NothingRun
<1> QED
  BY <1>1, <1>2, <1>3, <1>4, <1>5

(* A step of the plan begins, whose predecessors have all been executed.   *)
LEMMA StepBegun ==
  ASSUME Unscheduled, runs' = runs,
         s'.plan = s.plan, s'.reviewRequest = <<>>, s'.criticDecision = "none",
         s'.counters.supervisorFallbacks = s.counters.supervisorFallbacks,
         s'.phase \in ToRun,
         s'.currentStep < Len(s.plan),
         s'.phase = "execute" =>
           /\ ~Grouped(s.plan[s'.currentStep + 1])
           /\ s'.selectedTool = s.plan[s'.currentStep + 1].tool,
         \A i \in 1..s'.currentStep : runs[i] > 0,
         ~Unapproved'
  PROVE  Unscheduled'
<1>1. DecisionAwaited'
  BY DEF Unscheduled, DecisionAwaited, ToRun
<1>2. OnOneStep'
  BY DEF OnOneStep, OnSingleStep, ToRun
<1>3. StepsDone'
  BY DEF StepsDone, ToRun, HasRun
<1>4. ReviewedFirst' /\ ReviewUntouched'
  BY DEF ReviewedFirst, ReviewUntouched
<1> QED
  BY <1>1, <1>2, <1>3, <1>4 DEF Unscheduled

(* The router, whichever nodes run beside it. *)
LEMMA RouterStep ==
  ASSUME TypeOK, TypeOK', IInv, Router
  PROVE  IInv'
<1>1. /\ s' = Route(s)
      /\ tasks' = RouterTarget(s'.phase)
      /\ runs' = runs
      /\ verdicts' = verdicts
  BY DEF Router
<1>2. Unscheduled /\ s \in Channels /\ s'.phase \in Phases
  BY DEF IInv, Unscheduled, TypeOK, Channels
<1>3. /\ "fatal" \in Phases
      /\ "none" \in {"none", "answer", "failure"}
  BY DEF Phases
<1>4. CASE s' = s /\ s.phase # "route"
  BY <1>1, <1>2, <1>4, Untouched, RoutedIsScheduled
  DEF IInv, Unscheduled, Scheduled
<1>5. CASE s' = Fail(s)
  <2>1. /\ SameStep(s, s')
        /\ s'.phase = "fatal"
        /\ s'.criticDecision = s.criticDecision
    BY <1>2, <1>3, <1>5, EndingEffect
  <2> QED
    BY <1>1, <1>2, <1>3, <2>1, QuietStep, RoutedIsScheduled
    DEF IInv, Unscheduled, Scheduled
<1>6. CASE s.phase = "route" /\ s' = Replan(s)
  <2>1. /\ SameStep(s, s')
        /\ s'.phase = "research"
        /\ s'.criticDecision = "none"
    BY <1>2, <1>6, RecoveryEffect
  <2>2. s.reviewRequest = <<>>
    BY <1>2, <1>6 DEF Unscheduled, ReviewUntouched
  <2> QED
    BY <1>1, <1>2, <2>1, <2>2, QuietStep, RoutedIsScheduled
    DEF IInv, Unscheduled, Scheduled
<1>7. ASSUME s.phase = "route"
      PROVE  /\ s.reviewRequest = <<>>
             /\ ~Unapproved
             /\ s.currentStep < Len(s.plan)
             /\ \A i \in 1..s.currentStep + 1 : runs[i] > 0
             /\ s.toolResult # "ok" => OnSingleStep
  BY <1>2, <1>7 DEF Unscheduled, ReviewUntouched, ReviewedFirst, OnOneStep,
                    StepsDone, HasRun
<1>8. CASE s.phase = "route" /\ s' = Retry(s) /\ s.toolResult # "ok"
  <2>1. /\ SameStep(s, s')
        /\ s'.phase = "execute"
        /\ s'.criticDecision = "none"
    BY <1>2, <1>8, RecoveryEffect
  <2>2. ~Unapproved'
    BY <1>1, <1>7, <1>8, <2>1 DEF Unapproved, SameStep
  <2>3. \A i \in 1..s.currentStep : runs[i] > 0
    BY <1>2, <1>7, <1>8 DEF Channels
  <2>4. Unscheduled'
    BY <1>1, <1>2, <1>7, <1>8, <2>1, <2>2, <2>3, StepBegun
    DEF SameStep, ToRun, OnSingleStep
  <2> QED
    BY <1>1, <1>2, <2>1, <2>4, RoutedIsScheduled
    DEF IInv, Unscheduled, Scheduled
<1>9. CASE s.phase = "route" /\ s' = Advance(s)
  <2>1. /\ s'.plan = s.plan
        /\ s'.reviewRequest = s.reviewRequest
        /\ s'.criticDecision = "none"
        /\ s'.counters = s.counters
        /\ \/ s'.phase = "generate" /\ s.currentStep + 1 >= Len(s.plan)
           \/ /\ s'.phase \in ToRun
              /\ s'.currentStep = s.currentStep + 1
              /\ s'.currentStep < Len(s.plan)
              /\ s'.phase = "execute" =>
                   /\ ~Grouped(s.plan[s'.currentStep + 1])
                   /\ s'.selectedTool = s.plan[s'.currentStep + 1].tool
    BY <1>2, <1>9, AdvanceEffect
  <2>2. ~Unapproved'
    BY <1>1, <1>7, <1>9, <2>1 DEF Unapproved
  <2>3. CASE s'.phase \in ToRun
    <3>1. Unscheduled'
      BY <1>1, <1>2, <1>7, <1>9, <2>1, <2>2, <2>3, StepBegun DEF ToRun
    <3> QED
      BY <1>1, <1>2, <2>3, <3>1, RoutedIsScheduled
      DEF IInv, Unscheduled, Scheduled, ToRun
  <2>4. CASE s'.phase = "generate" /\ s.currentStep + 1 >= Len(s.plan)
    <3>1. \A i \in 1..Len(s.plan) : runs[i] > 0
      BY <1>2, <1>7, <1>9, <2>4 DEF Channels
    <3>2. Unscheduled'
      BY <1>1, <1>2, <1>7, <1>9, <2>1, <2>2, <2>4, <3>1
      DEF Unscheduled, DecisionAwaited, OnOneStep, StepsDone,
          ReviewedFirst, ReviewUntouched, ToRun, HasRun
    <3> QED
      BY <1>1, <1>2, <2>4, <3>2, RoutedIsScheduled
      DEF IInv, Unscheduled, Scheduled
  <2> QED
    BY <2>1, <2>3, <2>4
<1>10. \/ s' = s /\ s.phase # "route"
       \/ s' = Fail(s)
       \/ /\ s.phase = "route"
          /\ \/ s' = Advance(s)
             \/ s' = Replan(s)
             \/ s' = Retry(s) /\ s.toolResult # "ok"
  BY <1>1, <1>2, RouteOutcome DEF Unscheduled
<1> QED
  BY <1>4, <1>5, <1>6, <1>8, <1>9, <1>10

(* Every step of the graph and every call keeps the invariant. *)
LEMMA InvStep ==
  ASSUME TypeOK, TypeOK', IInv, [NextInTime]_threadVars
  PROVE  IInv'
<1>a. Unscheduled /\ Scheduled /\ s \in Channels
  BY DEF IInv, Unscheduled, TypeOK
<1>b. Unscheduled' /\ Scheduled' => IInv'
  BY DEF IInv, Unscheduled
<1>c. tasks' = {"router"} => Scheduled'
  BY DEF Scheduled
<1>d. "none" \in {"none", "answer", "failure"} /\ "answer" \in {"none", "answer", "failure"}
      /\ "failure" \in {"none", "answer", "failure"}
  OBVIOUS
<1>e. /\ SameStep(s, Fail(s))
      /\ Fail(s).phase = "fatal"
      /\ Fail(s).criticDecision = s.criticDecision
  BY <1>a, <1>d, EndingEffect
<1>f. ASSUME s' = Fail(s), runs' = runs,
             "approved" \in verdicts => "approved" \in verdicts'
      PROVE  Unscheduled'
  BY <1>a, <1>e, <1>f, QuietStep
(* A phase in which no review is pending and no decision waits. *)
<1>g. s.phase \notin {"await_plan_review", "fatal", "complete"} =>
        s.reviewRequest = <<>>
  BY <1>a DEF Unscheduled, ReviewUntouched
<1>h. s.phase \notin {"route", "fatal", "complete"} =>
        s.criticDecision = "none"
  BY <1>a DEF Unscheduled, DecisionAwaited
<1>1. CASE Supervisor
  <2>1. s.phase = "supervisor"
    BY <1>1, <1>a, PhaseOfNode DEF Supervisor, Running
  <2>2. CASE \E p \in {"chat", "research", "clarification"} :
               s' = [s EXCEPT !.phase = p]
    <3>1. /\ SameStep(s, s')
          /\ s'.phase \in {"chat", "research", "clarification"}
          /\ s'.criticDecision = s.criticDecision
      BY <1>a, <2>2 DEF SameStep, Channels
    <3> QED
      BY <1>1, <1>a, <1>b, <1>c, <1>g, <1>h, <2>1, <3>1, QuietStep
      DEF Supervisor, GotoRouter
  <2>3. CASE s' = Fail(s)
    BY <1>1, <1>b, <1>c, <1>f, <2>3 DEF Supervisor, GotoRouter
  <2> QED
    BY <1>1, <2>2, <2>3 DEF Supervisor
<1>2. CASE ResearcherCoordinator
  <2>1. s.phase = "research"
    BY <1>2, <1>a, PhaseOfNode DEF ResearcherCoordinator, Running
  <2> QED
    BY <1>2, <1>a, <1>b, <2>1, Untouched
    DEF ResearcherCoordinator, Scheduled
<1>3. CASE ResearchBranches
  <2>1. s.phase = "research"
    BY <1>3, <1>a, PhaseOfNode DEF ResearchBranches
  <2>2. /\ SameStep(s, s')
        /\ s'.phase = "research"
        /\ s'.criticDecision = s.criticDecision
    BY <1>3, <1>a, <2>1 DEF ResearchBranches, SameStep, Channels
  <2>3. Scheduled'
    BY <1>3, <2>2 DEF ResearchBranches, Scheduled
  <2> QED
    BY <1>3, <1>a, <1>b, <1>g, <1>h, <2>1, <2>2, <2>3, QuietStep
    DEF ResearchBranches
<1>4. CASE ResearchJoin
  <2>1. s.phase = "research"
    BY <1>4, <1>a, PhaseOfNode DEF ResearchJoin, Running
  <2>2. /\ SameStep(s, s')
        /\ s'.phase = "plan"
        /\ s'.criticDecision = s.criticDecision
    BY <1>4, <1>a DEF ResearchJoin, SameStep, Channels
  <2> QED
    BY <1>4, <1>a, <1>b, <1>c, <1>g, <1>h, <2>1, <2>2, QuietStep
    DEF ResearchJoin, GotoRouter
<1>5. CASE Planner
  <2>1. s.phase = "plan"
    BY <1>5, <1>a, PhaseOfNode DEF Planner, Running
  <2>2. CASE \E p \in Plans :
               /\ s' = [s EXCEPT !.phase = "validate_plan", !.plan = p,
                                 !.currentStep = 0, !.selectedTool = p[1].tool,
                                 !.replanContext = FALSE]
               /\ runs' = NotRunYet(p)
               /\ verdicts' = {}
    <3>1. /\ s'.phase = "validate_plan"
          /\ s'.criticDecision = s.criticDecision
          /\ s'.counters = s.counters
          /\ s'.reviewRequest = s.reviewRequest
      BY <1>a, <2>2 DEF Channels
    <3>2. NothingRun'
      BY <1>a, <2>2 DEF NothingRun, NotRunYet, Channels
    <3>3. Unscheduled'
      BY <1>a, <1>g, <1>h, <2>1, <3>1, <3>2
      DEF Unscheduled, DecisionAwaited, OnOneStep, StepsDone,
          ReviewedFirst, ReviewUntouched, ToRun, HasRun
    <3> QED
      BY <1>5, <1>b, <1>c, <3>3 DEF Planner, GotoRouter
  <2>3. CASE s' = Fail(s) /\ UNCHANGED <<runs, verdicts>>
    BY <1>5, <1>b, <1>c, <1>f, <2>3 DEF Planner, GotoRouter
  <2> QED
    BY <1>5, <2>2, <2>3 DEF Planner
<1>6. CASE PlanValidator
  <2>1. s.phase = "validate_plan" /\ NothingRun
    BY <1>6, <1>a, PhaseOfNode
    DEF PlanValidator, Running, Unscheduled, StepsDone
  <2>2. PICK anchorsFound \in BOOLEAN :
          s' = IF ~Acceptable(s.plan, anchorsFound) THEN Fail(s)
               ELSE IF ReviewRequired(s.plan)
               THEN [s EXCEPT !.phase = "await_plan_review",
                              !.reviewRequest = s.plan]
               ELSE BeginStep(s, 0)
    BY <1>6 DEF PlanValidator
  <2>3. CASE s' = Fail(s)
    BY <1>6, <1>b, <1>c, <1>f, <2>3 DEF PlanValidator, GotoRouter
  <2>4. CASE s' = [s EXCEPT !.phase = "await_plan_review",
                            !.reviewRequest = s.plan]
    <3>1. /\ s'.phase = "await_plan_review"
          /\ s'.reviewRequest = s.plan
          /\ s'.plan = s.plan
          /\ s'.criticDecision = s.criticDecision
          /\ s'.counters = s.counters
      BY <1>a, <2>4 DEF Channels
    <3>2. runs' = runs /\ verdicts' = verdicts
      BY <1>6 DEF PlanValidator
    <3>3. Unscheduled'
      BY <1>a, <1>h, <2>1, <3>1, <3>2
      DEF Unscheduled, DecisionAwaited, OnOneStep, StepsDone,
          ReviewedFirst, Unapproved, NothingRun, ReviewUntouched, ToRun, HasRun
    <3> QED
      BY <1>6, <1>b, <1>c, <3>3 DEF PlanValidator, GotoRouter
  <2>5. CASE /\ Acceptable(s.plan, anchorsFound)
             /\ ~ReviewRequired(s.plan)
             /\ s' = BeginStep(s, 0)
    <3>1. 0 < Len(s.plan)
      BY <1>a, <2>5, PlanRulesAssumption DEF Acceptable, Channels
    <3>2. /\ s'.plan = s.plan
          /\ s'.currentStep = 0
          /\ s'.reviewRequest = s.reviewRequest
          /\ s'.criticDecision = s.criticDecision
          /\ s'.counters = s.counters
          /\ s'.phase \in ToRun
          /\ s'.phase = "execute" => /\ ~Grouped(s.plan[0 + 1])
                                     /\ s'.selectedTool = s.plan[0 + 1].tool
      BY <1>a, <2>5, BeginStepEffect, 0 \in Nat
    <3>3. ~Unapproved'
      BY <2>5, <3>2 DEF Unapproved, ReviewRequired
    <3>4. Unscheduled'
      BY <1>6, <1>a, <1>g, <1>h, <2>1, <3>1, <3>2, <3>3, StepBegun
      DEF PlanValidator
    <3> QED
      BY <1>6, <1>b, <1>c, <3>4 DEF PlanValidator, GotoRouter
  <2> QED
    BY <2>2, <2>3, <2>4, <2>5
<1>7. CASE AwaitPlanReview
  BY <1>7, <1>a, <1>b, Untouched DEF AwaitPlanReview, Scheduled
<1>8. CASE Execute
  <2>1. s.phase = "execute"
    BY <1>8, <1>a, PhaseOfNode DEF Execute, Running
  <2>2. PICK raw \in {"text", "error", "list"} : s' = ToolsRan(s, raw, 1)
    BY <1>8 DEF Execute
  <2>3. SameStep(s, s') /\ s'.phase = "normalize_tool_result"
        /\ s'.criticDecision = s.criticDecision
    BY <1>a, <2>2 DEF ToolsRan, CountToolCalls, SameStep, Channels, Counters
  <2>4. /\ s.currentStep < Len(s.plan)
        /\ OnSingleStep
        /\ ~Unapproved
        /\ \A i \in 1..s.currentStep : runs[i] > 0
    BY <1>a, <2>1
    DEF Unscheduled, OnOneStep, ReviewedFirst, StepsDone, ToRun
  <2>5. \A i \in 1..s.currentStep + 1 : runs'[i] > 0
    <3>1. runs' = [i \in DOMAIN runs |->
                     IF i = s.currentStep + 1 THEN runs[i] + 1 ELSE runs[i]]
      BY <1>8 DEF Execute
    <3>2. runs \in [1..Len(s.plan) -> Nat] /\ s.currentStep \in Nat /\ Len(s.plan) \in Nat
      BY DEF TypeOK, Channels
    <3>3. DOMAIN runs = 1..Len(s.plan)
      BY <3>2
    <3>4. ASSUME NEW i \in 1..s.currentStep + 1 PROVE runs'[i] > 0
      <4>1. i \in DOMAIN runs /\ runs[i] \in Nat
        BY <2>4, <3>2, <3>3
      <4>2. i # s.currentStep + 1 => i \in 1..s.currentStep
        BY <3>2
      <4>3. runs'[i] = IF i = s.currentStep + 1 THEN runs[i] + 1 ELSE runs[i]
        BY <3>1, <4>1
      <4> QED
        BY <2>4, <4>1, <4>2, <4>3
    <3> QED
      BY <3>4
  <2>6. ~Unapproved'
    BY <1>8, <2>3, <2>4 DEF Unapproved, SameStep, Execute
  <2>7. OnSingleStep'
    BY <2>3, <2>4 DEF OnSingleStep, SameStep
  <2>8. Unscheduled'
    BY <1>a, <1>g, <1>h, <2>1, <2>3, <2>4, <2>5, <2>6, <2>7
    DEF Unscheduled, DecisionAwaited, OnOneStep, StepsDone, SameStep,
        ReviewedFirst, ReviewUntouched, ToRun, HasRun
  <2> QED
    BY <1>8, <1>b, <1>c, <2>8 DEF Execute, GotoRouter
<1>9. CASE ExecuteParallel
  <2>1. s.phase = "execute_parallel"
    BY <1>9, <1>a, PhaseOfNode DEF ExecuteParallel, Running
  <2>2. /\ s.currentStep < Len(s.plan)
        /\ ~Unapproved
        /\ \A i \in 1..s.currentStep : runs[i] > 0
    BY <1>a, <2>1
    DEF Unscheduled, OnOneStep, ReviewedFirst, StepsDone, ToRun
  <2> DEFINE first == s.currentStep + 1
  <2>3. /\ runs \in [1..Len(s.plan) -> Nat]
        /\ s.currentStep \in Nat
        /\ Len(s.plan) \in Nat
    BY DEF TypeOK, Channels
  <2>4. PICK last \in first..Len(s.plan) :
          /\ s' = [ToolsRan(s, "list", last - first + 1) EXCEPT
                     !.parallelResult = TRUE, !.currentStep = last - 1]
          /\ runs' = [i \in 1..Len(s.plan) |->
                        IF i \in first..last THEN runs[i] + 1 ELSE runs[i]]
    <3>1. ~(first > Len(s.plan))
      BY <2>2, <2>3
    <3> QED
      BY <1>9, <3>1 DEF ExecuteParallel
  <2>5. /\ s'.phase = "normalize_tool_result"
        /\ s'.toolResultRaw = "list"
        /\ s'.plan = s.plan
        /\ s'.currentStep = last - 1
        /\ s'.criticDecision = s.criticDecision
        /\ s'.reviewRequest = s.reviewRequest
        /\ s'.counters.supervisorFallbacks = s.counters.supervisorFallbacks
    BY <1>a, <2>4 DEF ToolsRan, CountToolCalls, Channels, Counters
  <2>6. \A i \in 1..s'.currentStep + 1 : runs'[i] > 0
    BY <2>2, <2>3, <2>4, <2>5
  <2>7. ~Unapproved'
    BY <1>9, <2>2, <2>5 DEF Unapproved, ExecuteParallel
  <2>8. s'.currentStep < Len(s'.plan) /\ NormalizedOk(s')
    BY <2>3, <2>5 DEF NormalizedOk
  <2>9. Unscheduled'
    BY <1>a, <1>g, <1>h, <2>1, <2>5, <2>6, <2>7, <2>8
    DEF Unscheduled, DecisionAwaited, OnOneStep, StepsDone,
        ReviewedFirst, ReviewUntouched, ToRun, HasRun, NormalizedOk
  <2> QED
    BY <1>9, <1>b, <1>c, <2>9 DEF ExecuteParallel, GotoRouter
<1>10. CASE ToolResultNormalizer
  <2>1. s.phase = "normalize_tool_result"
    BY <1>10, <1>a, PhaseOfNode DEF ToolResultNormalizer, Running
  <2>2. /\ SameStep(s, s')
        /\ s'.phase = "judge"
        /\ s'.toolResult = IF NormalizedOk(s) THEN "ok" ELSE "error"
        /\ s'.criticDecision = s.criticDecision
    BY <1>10, <1>a DEF ToolResultNormalizer, SameStep, Channels
  <2>3. /\ s.currentStep < Len(s.plan)
        /\ ~NormalizedOk(s) => OnSingleStep
        /\ ~Unapproved
        /\ \A i \in 1..s.currentStep + 1 : runs[i] > 0
    BY <1>a, <2>1
    DEF Unscheduled, OnOneStep, ReviewedFirst, StepsDone, HasRun
  <2>4. runs' = runs /\ verdicts' = verdicts
    BY <1>10 DEF ToolResultNormalizer
  <2>5. OnSingleStep => OnSingleStep'
    BY <2>2 DEF OnSingleStep, SameStep
  <2>6. ~Unapproved'
    BY <2>2, <2>3, <2>4 DEF Unapproved, SameStep
  <2>7. Unscheduled'
    BY <1>a, <1>g, <1>h, <2>1, <2>2, <2>3, <2>4, <2>5, <2>6
    DEF Unscheduled, DecisionAwaited, OnOneStep, StepsDone, SameStep,
        ReviewedFirst, ReviewUntouched, ToRun, HasRun
  <2> QED
    BY <1>10, <1>b, <1>c, <2>7 DEF ToolResultNormalizer, GotoRouter
<1>11. CASE Critic
  <2>1. s.phase = "judge"
    BY <1>11, <1>a, PhaseOfNode DEF Critic, Running
  <2>2. CASE \E d \in Decisions :
               s' = [s EXCEPT !.phase = "route", !.criticDecision = d]
    <3>1. PICK d \in Decisions :
            s' = [s EXCEPT !.phase = "route", !.criticDecision = d]
      BY <2>2
    <3>2. d # "none"
      BY AgentGraphAssumption DEF AllDecisions
    <3>3. /\ SameStep(s, s')
          /\ s'.phase = "route"
          /\ s'.criticDecision = d
          /\ s'.toolResult = s.toolResult
      BY <1>a, <3>1 DEF SameStep, Channels
    <3>4. /\ s.currentStep < Len(s.plan)
          /\ s.toolResult # "ok" => OnSingleStep
          /\ ~Unapproved
          /\ \A i \in 1..s.currentStep + 1 : runs[i] > 0
      BY <1>a, <2>1
      DEF Unscheduled, OnOneStep, ReviewedFirst, StepsDone, HasRun
    <3>5. runs' = runs /\ verdicts' = verdicts
      BY <1>11 DEF Critic
    <3>6. OnSingleStep => OnSingleStep'
      BY <3>3 DEF OnSingleStep, SameStep
    <3>7. ~Unapproved'
      BY <3>3, <3>4, <3>5 DEF Unapproved, SameStep
    <3>8. Unscheduled'
      BY <1>a, <1>g, <2>1, <3>2, <3>3, <3>4, <3>5, <3>6, <3>7
      DEF Unscheduled, DecisionAwaited, OnOneStep, StepsDone, SameStep,
          ReviewedFirst, ReviewUntouched, ToRun, HasRun
    <3> QED
      BY <1>11, <1>b, <1>c, <3>8 DEF Critic, GotoRouter
  <2>3. CASE s' = Fail(s)
    BY <1>11, <1>b, <1>c, <1>f, <2>3 DEF Critic, GotoRouter
  <2> QED
    BY <1>11, <2>2, <2>3 DEF Critic
<1>12. CASE Router
  BY <1>12, RouterStep
<1>13. CASE Generator
  <2>1. /\ SameStep(s, s')
        /\ s'.phase \in {"complete", "fatal"}
        /\ s'.criticDecision = s.criticDecision
    BY <1>13, <1>a, <1>d, EndingEffect DEF Generator
  <2>2. Scheduled'
    <3>1. s'.reviewRequest = <<>>
      BY <1>13, <1>a, <1>g, <2>1, PhaseOfNode DEF Generator, Running, SameStep
    <3> QED
      BY <1>13, <2>1, <3>1 DEF Generator, Scheduled
  <2> QED
    BY <1>13, <1>a, <1>b, <2>1, <2>2, QuietStep DEF Generator
<1>14. CASE Chat
  <2>1. /\ SameStep(s, s')
        /\ s'.phase \in {"complete", "fatal"}
        /\ s'.criticDecision = s.criticDecision
    BY <1>14, <1>a, <1>d, EndingEffect DEF Chat
  <2> QED
    BY <1>14, <1>a, <1>b, <1>c, <2>1, QuietStep DEF Chat, GotoRouter
<1>15. CASE TerminalResponse
  <2>1. /\ SameStep(s, s')
        /\ s'.phase = "complete"
        /\ s'.criticDecision = s.criticDecision
    BY <1>15, <1>a, <1>d, EndingEffect DEF TerminalResponse
  <2> QED
    BY <1>15, <1>a, <1>b, <1>c, <2>1, QuietStep DEF TerminalResponse, GotoRouter
<1>16. CASE StartRun
  <2>1. /\ s'.phase = "supervisor"
        /\ s'.plan = <<>>
        /\ s'.criticDecision = "none"
        /\ s'.counters = ZeroCounters
        /\ s'.reviewRequest = <<>>
    BY <1>16, <1>a DEF StartRun, InitialRunState, Channels
  <2>2. ZeroCounters.supervisorFallbacks = 0 /\ Len(<<>>) = 0
    BY DEF ZeroCounters
  <2>3. tasks' = {NodeOfPhase(s'.phase)}
    BY <1>16, <2>1 DEF StartRun, NodeOfPhase
  <2>4. Scheduled'
    BY <2>1, <2>3 DEF Scheduled
  <2>5. ReviewedFirst'
    BY <2>1, <2>2 DEF ReviewedFirst, NothingRun, ToRun, HasRun
  <2>6. Unscheduled'
    BY <2>1, <2>2, <2>5
    DEF Unscheduled, DecisionAwaited, OnOneStep, StepsDone,
        ReviewUntouched, ToRun, HasRun
  <2> QED
    BY <1>b, <2>4, <2>6
(* What a call finds while a review is pending. *)
<1>i. s.reviewRequest # <<>> =>
        /\ s.phase \in {"await_plan_review", "fatal", "complete"}
        /\ s.criticDecision = "none"
        /\ NothingRun
  BY <1>a DEF Unscheduled, ReviewUntouched
<1>j. ASSUME tasks' = IF tasks = {"router"} THEN tasks
                      ELSE RouterTarget(s'.phase),
             s'.phase # "route"
      PROVE  Scheduled'
  <2>1. s'.phase \in Phases
    BY DEF TypeOK, Channels
  <2> QED
    BY <1>j, <2>1, RoutedIsScheduled DEF Scheduled
<1>17. CASE ApproveInTime
  <2> DEFINE begun == BeginStep(s, 0)
  <2>1. 0 < Len(s.plan)
    BY <1>17, <1>a DEF ApproveInTime, Channels
  <2>2. /\ begun \in Channels
        /\ begun.plan = s.plan
        /\ begun.currentStep = 0
        /\ begun.criticDecision = s.criticDecision
        /\ begun.counters = s.counters
        /\ begun.phase \in ToRun
        /\ begun.phase = "execute" =>
             /\ ~Grouped(s.plan[0 + 1])
             /\ begun.selectedTool = s.plan[0 + 1].tool
    BY <1>a, <2>1, BeginStepEffect, BeginStepType, 0 \in Nat
  <2>3. /\ s' = [begun EXCEPT !.reviewRequest = <<>>]
        /\ verdicts' = verdicts \cup {"approved"}
        /\ runs' = runs
        /\ s.criticDecision = "none"
    BY <1>17, <1>i DEF ApproveInTime, ReviewPending, ResumeInTime, UpdateInTime
  <2>4. tasks' = IF tasks = {"router"} THEN tasks ELSE RouterTarget(s'.phase)
    BY <1>17, <2>3 DEF ApproveInTime, ResumeInTime, UpdateInTime
  <2> HIDE DEF begun
  <2>5. /\ s'.plan = s.plan
        /\ s'.currentStep = 0
        /\ s'.reviewRequest = <<>>
        /\ s'.criticDecision = "none"
        /\ s'.counters = s.counters
        /\ s'.phase \in ToRun
        /\ s'.phase = "execute" =>
             /\ ~Grouped(s.plan[0 + 1])
             /\ s'.selectedTool = s.plan[0 + 1].tool
    BY <2>2, <2>3 DEF Channels
  <2>6. ~Unapproved'
    BY <2>3 DEF Unapproved
  <2>7. Unscheduled'
    BY <1>a, <2>1, <2>3, <2>5, <2>6, StepBegun
  <2> QED
    BY <1>b, <1>j, <2>4, <2>5, <2>7 DEF ToRun
<1>18. CASE RejectInTime
  <2>1. /\ s' = Fail(s)
        /\ tasks' = IF tasks = {"router"} THEN tasks ELSE RouterTarget(s'.phase)
        /\ runs' = runs
        /\ "approved" \in verdicts => "approved" \in verdicts'
    BY <1>18 DEF RejectInTime, UpdateInTime
  <2> QED
    BY <1>b, <1>e, <1>f, <1>j, <2>1
<1>19. CASE ReplanInTime
  <2>1. /\ s'.phase = "research"
        /\ s'.plan = <<>>
        /\ s'.reviewRequest = <<>>
        /\ s'.criticDecision = s.criticDecision
        /\ s'.counters = s.counters
    BY <1>19, <1>a DEF ReplanInTime, ResumeInTime, UpdateInTime, Channels
  <2>2. tasks' = IF tasks = {"router"} THEN tasks ELSE RouterTarget(s'.phase)
    BY <1>19 DEF ReplanInTime, ResumeInTime, UpdateInTime
  <2>3. s.criticDecision = "none"
    BY <1>19, <1>i DEF ReplanInTime, ReviewPending
  <2>4. ReviewedFirst'
    BY <2>1 DEF ReviewedFirst, NothingRun, ToRun, HasRun
  <2>5. Unscheduled'
    BY <1>a, <2>1, <2>3, <2>4
    DEF Unscheduled, DecisionAwaited, OnOneStep, StepsDone,
        ReviewUntouched, ToRun, HasRun
  <2> QED
    BY <1>b, <1>j, <2>1, <2>2, <2>5
<1>20. CASE Abort
  BY <1>20, <1>a, <1>b, Untouched DEF Abort, Scheduled
<1>21. CASE UNCHANGED threadVars
  BY <1>21, <1>a, <1>b, Untouched DEF threadVars, Scheduled
<1> QED
  BY <1>1, <1>2, <1>3, <1>4, <1>5, <1>6, <1>7, <1>8, <1>9, <1>10, <1>11,
     <1>12, <1>13, <1>14, <1>15, <1>16, <1>17, <1>18, <1>19, <1>20, <1>21
  DEF NextInTime, NodeStep

(* The invariant holds in every state the program reaches before a call    *)
(* comes late.                                                             *)
THEOREM Invariance == Spec => [](InTime => IInv)
<1>1. Init => IInv
  <2> SUFFICES ASSUME Init PROVE IInv
    OBVIOUS
  <2>1. /\ s.phase = "supervisor" /\ s.criticDecision = "none"
        /\ s.plan = <<>> /\ s.reviewRequest = <<>>
        /\ s.counters = ZeroCounters
    BY DEF Init
  <2>2. ZeroCounters.supervisorFallbacks = 0 /\ Len(<<>>) = 0
    BY DEF ZeroCounters
  <2>3. Scheduled
    BY DEF Init, Scheduled
  <2> QED
    BY <2>1, <2>2, <2>3
    DEF IInv, DecisionAwaited, OnOneStep, StepsDone, ReviewedFirst,
        NothingRun, ReviewUntouched, ToRun, HasRun
<1>2. TypeOK /\ TypeOK' /\ (InTime => IInv) /\ [Next]_vars
        => (InTime => IInv)'
  <2> SUFFICES ASSUME TypeOK, TypeOK', InTime => IInv, [Next]_vars, InTime'
               PROVE  IInv'
    OBVIOUS
  <2>1. InTime
    BY LateStays
  <2> QED
    BY <2>1, StepInTime, InvStep
<1> QED
  BY <1>1, <1>2, TypeCorrect, PTL DEF Spec

-----------------------------------------------------------------------------
(* The properties. *)

(* The router obeys each decision of the critic once and never has to fall *)
(* back to the supervisor.                                                 *)
THEOREM DecisionsAreObeyedOnce == Spec => []DecisionObeyedOnce
<1>1. (InTime => IInv) => DecisionObeyedOnce
  BY DEF IInv, DecisionAwaited, DecisionObeyedOnce
<1> QED
  BY <1>1, Invariance, PTL

(* The executor runs the tool that the plan names for the current step:    *)
(* the stale selectedTool of a parallel group is never used.               *)
THEOREM ExecutesTheCurrentTool == Spec => []SelectedToolIsCurrent
<1>1. (InTime => IInv) => SelectedToolIsCurrent
  BY DEF IInv, OnOneStep, OnSingleStep, SelectedToolIsCurrent, ToRun
<1> QED
  BY <1>1, Invariance, PTL

(* The generator is reached only after every step of the plan was executed. *)
THEOREM AnswersAfterAllSteps == Spec => []AnswerAfterAllSteps
<1>1. (InTime => IInv) => AnswerAfterAllSteps
  BY DEF IInv, StepsDone, AnswerAfterAllSteps
<1> QED
  BY <1>1, Invariance, PTL

(* With plan review on, nothing of a plan with a destructive tool is       *)
(* executed before the reviewer approved that plan.                        *)
THEOREM ReviewComesFirst == Spec => []NothingRunsUnapproved
<1>1. (InTime => IInv) => NothingRunsUnapproved
  BY DEF IInv, ReviewedFirst, Unapproved, NothingRun, ToRun,
         NothingRunsUnapproved
<1> QED
  BY <1>1, Invariance, PTL

(* The reviewer is shown the plan that approving it starts, untouched.     *)
THEOREM ReviewIsHonest == Spec => []ReviewShowsWhatRuns
<1>1. (InTime => IInv) => ReviewShowsWhatRuns
  BY DEF IInv, ReviewUntouched, NothingRun, ReviewShowsWhatRuns
<1> QED
  BY <1>1, Invariance, PTL
=============================================================================
