----------------------------- MODULE PlanRules -----------------------------
(***************************************************************************)
(* The shape of an execution plan, the preflight rules of the plan         *)
(* validator (nodes/plan-validator.node.ts) and the slice of a plan that   *)
(* one pass of the parallel executor runs                                  *)
(* (nodes/parallel-execution.node.ts).                                     *)
(*                                                                         *)
(* A step keeps what the rules and the routing look at: its id, its tool,  *)
(* its parallel group, the file it names and what kind of input it has.    *)
(* Steps are numbered from 1 here; currentStep of the agent state counts   *)
(* from 0, as in the code.                                                 *)
(***************************************************************************)
EXTENDS Integers, Sequences, FiniteSets

CONSTANTS
  Tools,             \* the tool names a planner may write in a step
  Registered,        \* those the tool registry knows
  ParallelSafe,      \* capability.parallelSafe
  Destructive,       \* capability.risk is write, network_write or execute
  FileCreating,      \* write_file, create_file, move_file, copy_file
  FilePatch,         \* the tool file_patch
  Paths,             \* file names a step's input can mention
  MaxSteps,          \* AGENT_PLAN_LIMITS.maxSteps
  GroupLimit,        \* the literal 5 of rule B
  MaxParallelTools   \* AGENT_CONSTANTS.maxParallelTools

ASSUME PlanRulesAssumption ==
  /\ Registered \subseteq Tools
  /\ ParallelSafe \subseteq Tools
  /\ Destructive \subseteq Tools
  /\ MaxSteps \in Nat
  /\ GroupLimit \in Nat \ {0}
  /\ MaxParallelTools \in Nat
  /\ GroupLimit <= MaxParallelTools   \* both are 5 in the code

(***************************************************************************)
(* parallel_group is a positive integer or absent; 0 stands for absent.    *)
(* An input is well formed, breaks the tool's schema, or holds the         *)
(* placeholder __PREVIOUS_RESULT__ (which the schema check skips).         *)
(***************************************************************************)
NoGroup == 0

InputKinds == {"literal", "malformed", "previous"}

Step == [step_id : Nat, tool : Tools, parallel_group : Nat,
         input : InputKinds, path : Paths]

Grouped(step) == step.parallel_group # NoGroup

GroupMembers(plan, g) == {i \in 1..Len(plan) : plan[i].parallel_group = g}

(* Rule A: a group that starts the plan has no previous result to use. *)
PreviousResultExists(plan) ==
  \A i, j \in 1..Len(plan) :
    /\ Grouped(plan[i])
    /\ plan[i].input = "previous"
    /\ plan[j].parallel_group = plan[i].parallel_group
    => plan[j].step_id > 1

(* Rule B: the steps of a group are adjacent and not too many. *)
GroupsAdjacent(plan) ==
  \A i, j \in 1..Len(plan) :
    Grouped(plan[i]) /\ plan[i].parallel_group = plan[j].parallel_group
      => \A k \in i..j : plan[k].parallel_group = plan[i].parallel_group

(* Faulty variant of GroupsFit: the size of a group is not checked. *)
AnyGroupSize(plan) == plan \in Seq(Step)

GroupsFit(plan) ==
  \A i \in 1..Len(plan) :
    Grouped(plan[i]) =>
      Cardinality(GroupMembers(plan, plan[i].parallel_group)) <= GroupLimit

(* A file_patch step is looked up on disk unless its text is a placeholder *)
(* or an earlier step of the plan creates the file.                        *)
NeedsAnchor(plan, i) ==
  /\ plan[i].tool = FilePatch
  /\ plan[i].input # "previous"
  /\ ~ \E j \in 1..Len(plan) :
         /\ plan[j].step_id < plan[i].step_id
         /\ plan[j].tool \in FileCreating
         /\ plan[j].path = plan[i].path

IdsSequential(plan) == \A i \in 1..Len(plan) : plan[i].step_id = i

StepsCallable(plan) ==
  \A i \in 1..Len(plan) :
    /\ plan[i].tool \in Registered
    /\ Grouped(plan[i]) => plan[i].tool \in ParallelSafe
    /\ plan[i].input # "malformed"

(***************************************************************************)
(* The plan passes preflight.  Every rule that fails has the same effect,  *)
(* so their order does not matter.  anchorsFound is the answer of the file *)
(* system to the look-ups of the file_patch steps.                         *)
(***************************************************************************)
Acceptable(plan, anchorsFound) ==
  /\ Len(plan) \in 1..MaxSteps
  /\ PreviousResultExists(plan)
  /\ GroupsAdjacent(plan)
  /\ GroupsFit(plan)
  /\ anchorsFound \/ \A i \in 1..Len(plan) : ~NeedsAnchor(plan, i)
  /\ IdsSequential(plan)
  /\ StepsCallable(plan)

HasDestructiveTool(plan) == \E i \in 1..Len(plan) : plan[i].tool \in Destructive

(***************************************************************************)
(* One pass of the parallel executor that starts at step first runs the    *)
(* steps first..last: it collects steps of the first one's group until the *)
(* plan or the group ends or maxParallelTools steps are collected.         *)
(***************************************************************************)
IsGroupRun(plan, first, last) ==
  /\ \A k \in first..last : plan[k].parallel_group = plan[first].parallel_group
  /\ last - first < MaxParallelTools
  /\ last < Len(plan) /\ last - first + 1 < MaxParallelTools
       => plan[last + 1].parallel_group # plan[first].parallel_group
=============================================================================
