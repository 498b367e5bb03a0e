----------------------------- MODULE AgentGraph -----------------------------
(***************************************************************************)
(* One session (one LangGraph thread) of the agent: the phase-driven graph *)
(* of graph/agent.graph.ts with its node handlers, the runs started on the *)
(* thread one after the other, and the plan-review calls made on it.       *)
(*                                                                         *)
(* LangGraph runs the graph in supersteps: the scheduled nodes read the    *)
(* channels, return partial updates, the updates are merged, the result is *)
(* checkpointed together with the nodes to run next.  A node of the graph  *)
(* is one action here, and a checkpoint is the pair (s, tasks).            *)
(*                                                                         *)
(* Language-model and tool answers are nondeterministic.  Texts are        *)
(* reduced to what routing depends on; the history of errors, which only   *)
(* words the messages, is left out.                                        *)
(*                                                                         *)
(* A definition whose comment says "faulty variant" is not the code: it is *)
(* what the definition after it would be with a plausible bug, kept to     *)
(* show that a property tells the two apart.                               *)
(***************************************************************************)
EXTENDS PlanRules

CONSTANTS
  Plans,              \* the plans the planner's model may answer
  Decisions,          \* the decisions the critic's model may answer
  NoTool,             \* selectedTool is undefined
  ParallelExecution,  \* the tool name of a parallel attempt
  RequirePlanReview,  \* env.requirePlanReview
  Turns,              \* env.agentMaxIterations
  StepRetries,        \* env.agentMaxRetries
  Fallbacks,          \* env.agentMaxRetbacks
  AttemptsCap,        \* AGENT_CONSTANTS.attemptsHistoryCap
  MaxRuns             \* bound: runs started and review calls that come late

AllDecisions == {"advance", "retry_step", "replan", "complete", "fatal"}

ASSUME AgentGraphAssumption ==
  /\ Plans \subseteq Seq(Step) \ {<<>>}    \* plannerOutputSchema: min(1)
  /\ Decisions \subseteq AllDecisions
  /\ NoTool \notin Tools
  /\ ParallelExecution \notin Tools \cup {NoTool}
  /\ RequirePlanReview \in BOOLEAN
  /\ Turns \in Nat \ {0}
  /\ StepRetries \in Nat \ {0}
  /\ Fallbacks \in Nat \ {0}
  /\ AttemptsCap \in Nat \ {0, 1}   \* both attempts of a step must fit
  /\ MaxRuns \in Nat

ToolCallLimit == Turns * 5
ReplanLimit   == Turns

VARIABLES
  s,        \* the state channels of the thread
  tasks,    \* the nodes scheduled for the next superstep
  running,  \* an invoke or stream loop is executing the graph
  memory,   \* what memory_persist wrote to the vector store, by kind of answer
  started,  \* runs started so far
  runs,     \* history: how often each step of s.plan was executed
  verdicts, \* history: the reviewer's verdicts on s.plan
  asked,    \* the plans that review calls have read; any number of calls each
  late      \* history: how many of those calls acted on another state

vars == <<s, tasks, running, memory, started, runs, verdicts, asked, late>>

reviewCalls == <<asked, late>>

-----------------------------------------------------------------------------
(* State channels (state/agent.state.ts). *)

Phases == {"supervisor", "research", "plan", "validate_plan",
           "await_plan_review", "execute", "execute_parallel",
           "normalize_tool_result", "judge", "route", "generate", "chat",
           "complete", "fatal", "clarification"}

Nodes == {"supervisor", "researcher_coordinator", "research_fs",
          "research_vector", "research_join", "planner", "plan_validator",
          "await_plan_review", "execute", "execute_parallel",
          "tool_result_normalizer", "critic", "router", "generator",
          "memory_persist", "chat", "terminal_response"}

Counters == [turn : Nat, toolCalls : Nat, replans : Nat,
             stepRetries : Nat, supervisorFallbacks : Nat]

Attempt == [tool : Tools \cup {NoTool, ParallelExecution}, step : Nat,
            ok : BOOLEAN, replanGeneration : Nat]

(***************************************************************************)
(* toolResultRaw is a plain text, an error text (or an empty one), or a    *)
(* JSON list of results.  finalAnswer is an answer or a failure message.   *)
(* projectContext is stale once a tool ran after it was gathered.          *)
(***************************************************************************)
Channels ==
  [phase          : Phases,
   plan           : Seq(Step),
   currentStep    : Nat,
   selectedTool   : Tools \cup {NoTool},
   toolResultRaw  : {"none", "text", "error", "list"},
   parallelResult : BOOLEAN,
   toolResult     : {"none", "ok", "error"},
   criticDecision : AllDecisions \cup {"none"},
   counters       : Counters,
   attempts       : Seq(Attempt),
   reviewRequest  : Seq(Step),      \* <<>> when there is none
   replanContext  : BOOLEAN,
   projectContext : {"none", "fresh", "stale"},
   finalAnswer    : {"none", "answer", "failure"}]

ZeroCounters == [turn |-> 0, toolCalls |-> 0, replans |-> 0,
                 stepRetries |-> 0, supervisorFallbacks |-> 0]

(* incrementAgentCounters, for each way it is called. *)
CountToolCalls(k, n) == [k EXCEPT !.toolCalls = @ + n]
CountReplan(k)       == [k EXCEPT !.replans = @ + 1, !.turn = @ + 1]
CountRetry(k)        == [k EXCEPT !.stepRetries = @ + 1, !.turn = @ + 1]
CountFallback(k)     == [k EXCEPT !.supervisorFallbacks = @ + 1, !.turn = @ + 1]

(* Faulty variant: the attempts channel grows without bound. *)
AppendUncapped(attempts, a) == Append(attempts, a)

(* The reducer of the attempts channel: append, keep the newest. *)
AppendAttempt(attempts, a) ==
  LET longer == Append(attempts, a)
  IN  IF Len(longer) <= AttemptsCap
      THEN longer
      ELSE SubSeq(longer, Len(longer) - AttemptsCap + 1, Len(longer))

(* createInitialAgentRunState merged into the channels of the thread.      *)
(* attempts is not reset: the update's [] is appended by its reducer.      *)
(* parallelResult and replanContext are not mentioned by the update.       *)
InitialRunState(c) ==
  [c EXCEPT !.phase = "supervisor", !.plan = <<>>, !.currentStep = 0,
            !.selectedTool = NoTool, !.toolResultRaw = "none",
            !.toolResult = "none", !.criticDecision = "none",
            !.counters = ZeroCounters, !.reviewRequest = <<>>,
            !.projectContext = "none", !.finalAnswer = "none"]

(* The updates of state/agent-transition.util.ts. *)
Fail(c) == [c EXCEPT !.phase = "fatal", !.finalAnswer = "failure"]

Complete(c, answer) ==
  [c EXCEPT !.phase = "complete", !.finalAnswer = answer]

BeginWith(c, step, i) ==
  IF Grouped(step)
  THEN [c EXCEPT !.phase = "execute_parallel", !.currentStep = i]
  ELSE [c EXCEPT !.phase = "execute", !.currentStep = i,
                 !.selectedTool = step.tool]

BeginStep(c, i) == BeginWith(c, c.plan[i + 1], i)

-----------------------------------------------------------------------------
(* Topology (graph/agent-topology.ts, graph/agent.graph.ts). *)

NodeOfPhase(phase) ==
  CASE phase = "research"                     -> "researcher_coordinator"
    [] phase = "plan"                         -> "planner"
    [] phase = "validate_plan"                -> "plan_validator"
    [] phase = "normalize_tool_result"        -> "tool_result_normalizer"
    [] phase = "judge"                        -> "critic"
    [] phase = "generate"                     -> "generator"
    [] phase \in {"fatal", "clarification"}   -> "terminal_response"
    [] phase = "route"                        -> "supervisor"
    [] OTHER                                  -> phase

(* Faulty variant: a failed run goes straight to the end of the graph. *)
FatalIsEnd(phase) ==
  IF phase \in {"complete", "fatal"} THEN {} ELSE {NodeOfPhase(phase)}

RouterTarget(phase) == IF phase = "complete" THEN {} ELSE {NodeOfPhase(phase)}

(* The superstep that runs node alone, and the ordinary edge to the router. *)
Running(node) == running /\ tasks = {node}

GotoRouter == tasks' = {"router"} /\ UNCHANGED running

-----------------------------------------------------------------------------
(* Node handlers.  safeNodeHandler turns an exception of a handler into a  *)
(* failed run: the last disjunct of every node that calls the model.       *)

Supervisor ==
  /\ Running("supervisor")
  /\ \/ \E p \in {"chat", "research", "clarification"} :
          s' = [s EXCEPT !.phase = p]
     \/ s' = Fail(s)
  /\ GotoRouter
  /\ UNCHANGED <<memory, started, runs, verdicts, reviewCalls>>

ResearcherCoordinator ==
  /\ Running("researcher_coordinator")
  /\ tasks' = {"research_fs", "research_vector"}
  /\ UNCHANGED <<s, running, memory, started, runs, verdicts, reviewCalls>>

(* Both branches run in one superstep and catch their own failures.        *)
(* research_fs keeps a project context that is already there.              *)
ResearchBranches ==
  /\ running
  /\ tasks = {"research_fs", "research_vector"}
  /\ s' = [s EXCEPT !.projectContext = IF @ = "none" THEN "fresh" ELSE @]
  /\ tasks' = {"research_join"}
  /\ UNCHANGED <<running, memory, started, runs, verdicts, reviewCalls>>

ResearchJoin ==
  /\ Running("research_join")
  /\ s' = [s EXCEPT !.phase = "plan"]
  /\ GotoRouter
  /\ UNCHANGED <<memory, started, runs, verdicts, reviewCalls>>

NotRunYet(plan) == [i \in 1..Len(plan) |-> 0]

Planner ==
  /\ Running("planner")
  /\ \/ \E p \in Plans :
          /\ s' = [s EXCEPT !.phase = "validate_plan", !.plan = p,
                            !.currentStep = 0, !.selectedTool = p[1].tool,
                            !.replanContext = FALSE]
          /\ runs' = NotRunYet(p)
          /\ verdicts' = {}
     \/ s' = Fail(s) /\ UNCHANGED <<runs, verdicts>>
  /\ GotoRouter
  /\ UNCHANGED <<memory, started, reviewCalls>>

(* Faulty variant: only the first step of the plan is looked at. *)
FirstStepReviewed(plan) == RequirePlanReview /\ plan[1].tool \in Destructive

ReviewRequired(plan) == RequirePlanReview /\ HasDestructiveTool(plan)

PlanValidator ==
  /\ Running("plan_validator")
  /\ \E anchorsFound \in BOOLEAN :
       s' = IF ~Acceptable(s.plan, anchorsFound) THEN Fail(s)
            ELSE IF ReviewRequired(s.plan)
            THEN [s EXCEPT !.phase = "await_plan_review",
                           !.reviewRequest = s.plan]
            ELSE BeginStep(s, 0)
  /\ GotoRouter
  /\ UNCHANGED <<memory, started, runs, verdicts, reviewCalls>>

(* interrupt(): the loop ends, the node stays scheduled in the checkpoint. *)
AwaitPlanReview ==
  /\ Running("await_plan_review")
  /\ running' = FALSE
  /\ UNCHANGED <<s, tasks, memory, started, runs, verdicts, reviewCalls>>

(* What a tool run leaves behind; n tools ran. *)
ToolsRan(c, raw, n) ==
  [c EXCEPT !.phase = "normalize_tool_result", !.toolResultRaw = raw,
            !.counters = CountToolCalls(c.counters, n),
            !.projectContext = IF @ = "fresh" THEN "stale" ELSE @]

(* The tool answers, fails, is unknown, times out, or a placeholder of its *)
(* input cannot be resolved.                                               *)
Execute ==
  /\ Running("execute")
  /\ \E raw \in {"text", "error", "list"} : s' = ToolsRan(s, raw, 1)
  /\ runs' = [i \in DOMAIN runs |->
                IF i = s.currentStep + 1 THEN runs[i] + 1 ELSE runs[i]]
  /\ GotoRouter
  /\ UNCHANGED <<memory, started, verdicts, reviewCalls>>

(* Promise.allSettled over the steps of the group: which of them failed is *)
(* inside the JSON list.                                                   *)
ExecuteParallel ==
  /\ Running("execute_parallel")
  /\ LET first == s.currentStep + 1 IN
     IF first > Len(s.plan)
     THEN /\ s' = [ToolsRan(s, "list", 0) EXCEPT !.parallelResult = FALSE]
          /\ UNCHANGED runs
     ELSE \E last \in {l \in first..Len(s.plan) :
                          IsGroupRun(s.plan, first, l)} :
            /\ s' = [ToolsRan(s, "list", last - first + 1) EXCEPT
                       !.parallelResult = TRUE, !.currentStep = last - 1]
            /\ runs' = [i \in 1..Len(s.plan) |->
                          IF i \in first..last THEN runs[i] + 1 ELSE runs[i]]
  /\ GotoRouter
  /\ UNCHANGED <<memory, started, verdicts, reviewCalls>>

(* A parallel result is summarised by a text that never looks like an      *)
(* error.  Otherwise the raw result decides.                               *)
NormalizedOk(c) == c.toolResultRaw \in {"text", "list"}

AttemptTool(c) ==
  IF c.parallelResult /\ c.toolResultRaw = "list"
  THEN ParallelExecution ELSE c.selectedTool

ToolResultNormalizer ==
  /\ Running("tool_result_normalizer")
  /\ LET a == [tool |-> AttemptTool(s), step |-> s.currentStep,
               ok |-> NormalizedOk(s),
               replanGeneration |-> s.counters.replans]
     IN  s' = [s EXCEPT
                 !.phase = "judge",
                 !.toolResult = IF NormalizedOk(s) THEN "ok" ELSE "error",
                 !.parallelResult = FALSE,
                 !.attempts = IF AttemptTool(s) = NoTool THEN @
                              ELSE AppendAttempt(@, a)]
  /\ GotoRouter
  /\ UNCHANGED <<memory, started, runs, verdicts, reviewCalls>>

Critic ==
  /\ Running("critic")
  /\ \/ \E d \in Decisions :
          s' = [s EXCEPT !.phase = "route", !.criticDecision = d]
     \/ s' = Fail(s)
  /\ GotoRouter
  /\ UNCHANGED <<memory, started, runs, verdicts, reviewCalls>>

-----------------------------------------------------------------------------
(* The decision router (nodes/decision-router.node.ts). *)

(* Faulty variant: a limit is enforced only when it is exceeded. *)
LimitExceeded(k) ==
  \/ k.turn > Turns
  \/ k.toolCalls > ToolCallLimit
  \/ k.replans > ReplanLimit
  \/ k.stepRetries > StepRetries
  \/ k.supervisorFallbacks > Fallbacks

LimitReached(k) ==
  \/ k.turn >= Turns
  \/ k.toolCalls >= ToolCallLimit
  \/ k.replans >= ReplanLimit
  \/ k.stepRetries >= StepRetries
  \/ k.supervisorFallbacks >= Fallbacks

(* handleComplete on the last step does what advancing past it does. *)
Advance(c) ==
  LET done == [c EXCEPT !.criticDecision = "none", !.replanContext = FALSE]
  IN  IF c.currentStep + 1 >= Len(c.plan)
      THEN [done EXCEPT !.phase = "generate"]
      ELSE BeginStep(done, c.currentStep + 1)

(* Faulty variant: a new plan starts with fresh counters. *)
ReplanResetting(c) ==
  [c EXCEPT !.phase = "research", !.criticDecision = "none",
            !.replanContext = TRUE, !.counters = ZeroCounters]

Replan(c) ==
  [c EXCEPT !.phase = "research", !.criticDecision = "none",
            !.replanContext = TRUE,
            !.counters = CountReplan(c.counters)]

(* Faulty variant: the decision is left in its channel. *)
RetryKeepingDecision(c) ==
  [c EXCEPT !.phase = "execute",
            !.counters = CountRetry(c.counters)]

Retry(c) ==
  [c EXCEPT !.phase = "execute", !.criticDecision = "none",
            !.counters = CountRetry(c.counters)]

SameAttempt(c, a) ==
  /\ a.step = c.currentStep
  /\ a.tool = c.selectedTool
  /\ a.replanGeneration = c.counters.replans

(* Faulty variant: one attempt too many is waited for. *)
AttemptedThrice(c) ==
  \E i, j, k \in 1..Len(c.attempts) :
    /\ i < j /\ j < k
    /\ \A n \in {i, j, k} : SameAttempt(c, c.attempts[n])

AttemptedTwice(c) ==
  \E i, j \in 1..Len(c.attempts) :
    i < j /\ SameAttempt(c, c.attempts[i]) /\ SameAttempt(c, c.attempts[j])

(* Faulty variant: a useless but successful result is retried as well. *)
RetryAnyResult(c) == IF AttemptedTwice(c) THEN Replan(c) ELSE Retry(c)

RetryOrReplan(c) ==
  IF c.toolResult = "ok" \/ AttemptedTwice(c) THEN Replan(c) ELSE Retry(c)

SupervisorFallback(c) ==
  [c EXCEPT !.phase = "supervisor",
            !.counters = CountFallback(c.counters)]

(* Faulty variant: "complete" is believed before the last step. *)
ObeyCompleteAtOnce(c) ==
  CASE c.criticDecision = "complete"   -> [c EXCEPT !.phase = "generate",
                                                    !.criticDecision = "none"]
    [] c.criticDecision = "advance"    -> Advance(c)
    [] c.criticDecision = "fatal"      -> Fail(c)
    [] c.criticDecision = "replan"     -> Replan(c)
    [] c.criticDecision = "retry_step" -> RetryOrReplan(c)

Obey(c) ==
  CASE c.criticDecision \in {"advance", "complete"} -> Advance(c)
    [] c.criticDecision = "fatal"                   -> Fail(c)
    [] c.criticDecision = "replan"                  -> Replan(c)
    [] c.criticDecision = "retry_step"              -> RetryOrReplan(c)

Route(c) ==
  IF c.phase \in {"complete", "fatal"} THEN c
  ELSE IF LimitReached(c.counters) THEN Fail(c)
  ELSE IF c.criticDecision # "none" THEN Obey(c)
  ELSE IF c.phase = "route" THEN SupervisorFallback(c)
  ELSE c

(* memory_persist runs beside the router after the generator.  It skips an *)
(* empty answer, and an error of the vector store is swallowed.            *)
Router ==
  /\ running
  /\ tasks \in {{"router"}, {"router", "memory_persist"}}
  /\ s' = Route(s)
  /\ tasks' = RouterTarget(s'.phase)
  /\ running' = (tasks' # {})
  /\ \/ /\ "memory_persist" \in tasks
        /\ memory' = memory \cup ({s.finalAnswer} \ {"none"})
     \/ UNCHANGED memory
  /\ UNCHANGED <<started, runs, verdicts, reviewCalls>>

-----------------------------------------------------------------------------
(* Nodes that end a run. *)

Generator ==
  /\ Running("generator")
  /\ s' \in {Complete(s, "answer"), Fail(s)}
  /\ tasks' = {"router", "memory_persist"}
  /\ UNCHANGED <<running, memory, started, runs, verdicts, reviewCalls>>

(* The model may answer an empty text, which counts as no answer. *)
Chat ==
  /\ Running("chat")
  /\ s' \in {Complete(s, "answer"), Complete(s, "none"), Fail(s)}
  /\ GotoRouter
  /\ UNCHANGED <<memory, started, runs, verdicts, reviewCalls>>

TerminalResponse ==
  /\ Running("terminal_response")
  /\ s' = Complete(s, "failure")
  /\ GotoRouter
  /\ UNCHANGED <<memory, started, runs, verdicts, reviewCalls>>

-----------------------------------------------------------------------------
(* Calls from outside.  run, approve and replan hold the session lock, so  *)
(* none of them meets a running loop here; SessionAccess models when the   *)
(* lock fails to ensure that, and reject, which takes none.                *)

(* What an ordinary edge schedules, whatever the phase. *)
ByOrdinaryEdge == {{"supervisor"}, {"router"}, {"router", "memory_persist"},
                   {"research_fs", "research_vector"}, {"research_join"}}

(* updateState acts as the last node that ran and schedules its successors *)
(* in place of what was scheduled: by the router's conditional edge or,    *)
(* when a run was aborted elsewhere, by the ordinary edges of that node.   *)
UpdateState(c) ==
  /\ s' = c
  /\ tasks' = IF tasks \in ByOrdinaryEdge THEN tasks ELSE RouterTarget(c.phase)

(* invoke(null) continues there. *)
ResumeWith(c) == UpdateState(c) /\ running' = TRUE

(* run or streamRun: the input replaces whatever was scheduled. *)
StartRun ==
  /\ ~running
  /\ started + late < MaxRuns
  /\ s' = InitialRunState(s)
  /\ tasks' = {"supervisor"}
  /\ running' = TRUE
  /\ started' = started + 1
  /\ runs' = <<>>
  /\ verdicts' = {}
  /\ UNCHANGED <<memory, reviewCalls>>

(* approve, reject and replan read the checkpoint and refuse when there is *)
(* no review request.  They have no lock yet.                              *)
ReadReview ==
  /\ s.reviewRequest # <<>>
  /\ asked' = asked \cup {s.plan}
  /\ UNCHANGED <<s, tasks, running, memory, started, runs, verdicts, late>>

(* A call acts on whatever the latest checkpoint is by then.  It is late   *)
(* when that is no longer the pending review of the plan it has read.      *)
StillPending(plan) == s.reviewRequest # <<>> /\ s.plan = plan

ActOn(plan) ==
  /\ plan \in asked
  /\ ~running
  /\ \/ StillPending(plan) /\ UNCHANGED late
     \/ ~StillPending(plan) /\ started + late < MaxRuns /\ late' = late + 1
  /\ UNCHANGED asked

(* A verdict on the plan that was read. *)
Verdict(plan, verdict) ==
  verdicts' = IF s.plan = plan THEN verdicts \cup {verdict} ELSE verdicts

(* Faulty variant: the pending request is not cleared. *)
ApproveKeepingRequest(plan) ==
  /\ ActOn(plan)
  /\ plan # <<>>
  /\ ResumeWith(BeginWith(s, plan[1], 0))
  /\ Verdict(plan, "approved")
  /\ UNCHANGED <<memory, started, runs>>

(* The first step is that of the plan which was read; the plan channel     *)
(* stays as it is.                                                         *)
Approve(plan) ==
  /\ ActOn(plan)
  /\ plan # <<>>
  /\ ResumeWith([BeginWith(s, plan[1], 0) EXCEPT !.reviewRequest = <<>>])
  /\ Verdict(plan, "approved")
  /\ UNCHANGED <<memory, started, runs>>

(* reject fails the run in the checkpoint; nothing resumes the graph. *)
Reject(plan) ==
  /\ ActOn(plan)
  /\ UpdateState(Fail(s))
  /\ Verdict(plan, "rejected")
  /\ UNCHANGED <<running, memory, started, runs>>

(* Faulty variant: the request for the dropped plan stays pending. *)
ReplanKeepingRequest(plan) ==
  /\ ActOn(plan)
  /\ ResumeWith([s EXCEPT !.phase = "research", !.plan = <<>>])
  /\ runs' = <<>>
  /\ verdicts' = {}
  /\ UNCHANGED <<memory, started>>

ReplanSession(plan) ==
  /\ ActOn(plan)
  /\ ResumeWith([s EXCEPT !.phase = "research", !.plan = <<>>,
                          !.reviewRequest = <<>>])
  /\ runs' = <<>>
  /\ verdicts' = {}
  /\ UNCHANGED <<memory, started>>

(* The loop dies between two supersteps: the process stops, a checkpoint   *)
(* cannot be written, or the recursion limit is hit.  The checkpoint stays. *)
Abort ==
  /\ running
  /\ running' = FALSE
  /\ UNCHANGED <<s, tasks, memory, started, runs, verdicts, reviewCalls>>

-----------------------------------------------------------------------------
Init ==
  /\ s = [phase |-> "supervisor", plan |-> <<>>, currentStep |-> 0,
          selectedTool |-> NoTool, toolResultRaw |-> "none",
          parallelResult |-> FALSE, toolResult |-> "none",
          criticDecision |-> "none", counters |-> ZeroCounters,
          attempts |-> <<>>, reviewRequest |-> <<>>,
          replanContext |-> FALSE, projectContext |-> "none",
          finalAnswer |-> "none"]
  /\ tasks = {}
  /\ running = FALSE
  /\ memory = {}
  /\ started = 0
  /\ runs = <<>>
  /\ verdicts = {}
  /\ asked = {}
  /\ late = 0

NodeStep ==
  \/ Supervisor
  \/ ResearcherCoordinator
  \/ ResearchBranches
  \/ ResearchJoin
  \/ Planner
  \/ PlanValidator
  \/ AwaitPlanReview
  \/ Execute
  \/ ExecuteParallel
  \/ ToolResultNormalizer
  \/ Critic
  \/ Router
  \/ Generator
  \/ Chat
  \/ TerminalResponse

ReviewCall(plan) == Approve(plan) \/ Reject(plan) \/ ReplanSession(plan)

Call == StartRun \/ ReadReview \/ \E plan \in asked : ReviewCall(plan)

Next == NodeStep \/ Call \/ Abort

Spec == Init /\ [][Next]_vars

(***************************************************************************)
(* Fairness: a scheduled superstep is executed.  Model calls, repairs and  *)
(* vector searches have timeouts; a tool is assumed to settle once its     *)
(* abort signal fires.  Nothing is assumed of users or of Abort.           *)
(***************************************************************************)
FairSpec == Spec /\ WF_vars(NodeStep)

-----------------------------------------------------------------------------
(* Properties.  Most are about calls in time: approve begins the first     *)
(* step of the plan it has read, whatever plan is in the channel by then,   *)
(* and nothing that relates a run to its plan holds after a late call.      *)

InTime == late = 0

(* Every channel holds a value of its type, the plan and its history match *)
(* and the attempts channel (agent.state.ts) is bounded by its reducer.    *)
TypeOK ==
  /\ s \in Channels
  /\ tasks \in SUBSET Nodes
  /\ running \in BOOLEAN
  /\ memory \in SUBSET {"answer", "failure"}
  /\ started \in Nat
  /\ runs \in [1..Len(s.plan) -> Nat]
  /\ verdicts \in SUBSET {"approved", "rejected"}
  /\ Len(s.attempts) <= AttemptsCap
  /\ asked \in SUBSET Seq(Step)
  /\ late \in Nat

(* The critic's decision is obeyed once: it is present only on the way to  *)
(* the router or in a run that has ended, and the router never has to fall *)
(* back to the supervisor for want of a decision.                          *)
DecisionObeyedOnce == InTime =>
  /\ s.criticDecision # "none" => s.phase \in {"route", "fatal", "complete"}
  /\ s.phase = "route" => s.criticDecision # "none"
  /\ s.counters.supervisorFallbacks = 0

(* A single step executes the tool that the plan names for the current     *)
(* step, although selectedTool is left stale while a parallel group runs:  *)
(* the router must never retry a group as a single step.                   *)
SelectedToolIsCurrent ==
  InTime /\ s.phase = "execute" =>
    /\ s.currentStep < Len(s.plan)
    /\ ~Grouped(s.plan[s.currentStep + 1])
    /\ s.selectedTool = s.plan[s.currentStep + 1].tool

(* When a parallel pass is over, every step of its group ran exactly once. *)
GroupRunWhole ==
  LET g == s.plan[s.currentStep + 1].parallel_group IN
  InTime /\ s.phase = "normalize_tool_result" /\ g # NoGroup =>
    \A i \in GroupMembers(s.plan, g) : runs[i] = 1

(* The answer is written only after every step of the plan was executed,   *)
(* also when the critic calls the task complete before the last step.      *)
AnswerAfterAllSteps ==
  InTime /\ s.phase = "generate" => \A i \in 1..Len(s.plan) : runs[i] > 0

(* No step of a plan is executed a third time: the router escalates a      *)
(* second failure to a replan.                                             *)
RetriedAtMostOnce == InTime => \A i \in 1..Len(s.plan) : runs[i] <= 2

(* With plan review on, no step of a plan that writes, posts or executes   *)
(* is executed before the reviewer approved this plan.                     *)
NothingRunsUnapproved ==
  /\ InTime
  /\ RequirePlanReview
  /\ HasDestructiveTool(s.plan)
  /\ "approved" \notin verdicts
  =>
    /\ s.phase \notin {"execute", "execute_parallel"}
    /\ \A i \in 1..Len(s.plan) : runs[i] = 0

(* The plan shown to the reviewer is the one approve would start, and no   *)
(* part of it has been executed.                                           *)
ReviewShowsWhatRuns ==
  InTime /\ s.reviewRequest # <<>> =>
    s.reviewRequest = s.plan /\ \A i \in 1..Len(s.plan) : runs[i] = 0

(* The counters of a run stay within the limits of agent.config.ts.  The   *)
(* tool calls are checked before a group runs, so a group can exceed them. *)
BudgetKept == InTime =>
  /\ s.counters.turn <= Turns
  /\ s.counters.turn = s.counters.replans + s.counters.stepRetries
  /\ s.counters.stepRetries <= StepRetries
  /\ s.counters.toolCalls < ToolCallLimit + GroupLimit

(* A run that reaches the end of the graph is complete, whatever failed.   *)
EndsComplete == started > 0 /\ tasks = {} => s.phase = "complete"

(* Every run ends or pauses for a review: retries, replans and fallbacks   *)
(* cannot go on for ever.                                                  *)
RunEnds == running ~> ~running

(* The graph implements the life cycle its callers rely on. *)
RunStatus ==
  IF running THEN "working"
  ELSE IF started = 0 THEN "idle"
  ELSE IF tasks = {} THEN "finished"
  ELSE IF tasks = {"await_plan_review"} THEN "paused"
  ELSE "halted"

Lifecycle == INSTANCE RunLifecycle WITH
  NoAnswer <- "none",
  status   <- RunStatus,
  answer   <- IF RunStatus = "finished" THEN s.finalAnswer ELSE "none",
  review   <- s.reviewRequest # <<>>,
  late     <- ~InTime

ImplementsLifecycle == Lifecycle!Spec

(* The repository's README says that rejecting a plan stops the run.       *)
RejectedPlanNeverRuns ==
  "rejected" \in verdicts =>
    s.phase \notin {"execute", "execute_parallel"}

(* The planner is told (prompts/templates/planner.txt) that                *)
(* __PREVIOUS_RESULT__ resolves to the output of the step before only.  The *)
(* executor fills in the last result there is, which is the output of the  *)
(* step before unless the step itself was executed already.                *)
PlaceholderIsPreviousStep ==
  s.phase = "execute" /\ s.plan[s.currentStep + 1].input = "previous" =>
    runs[s.currentStep + 1] = 0
=============================================================================
