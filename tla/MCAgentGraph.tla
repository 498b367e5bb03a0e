---------------------------- MODULE MCAgentGraph ----------------------------
(* Small instances of AgentGraph for TLC. *)
EXTENDS AgentGraph

(* One reading tool that may run in parallel, one writing tool, file_patch, *)
(* and a tool name the registry does not know.                              *)
MCTools        == {"read", "write", "patch", "ghost"}
MCRegistered   == {"read", "write", "patch"}
MCParallelSafe == {"read"}
MCDestructive  == {"write", "patch"}
MCFileCreating == {"write"}

A(id, tool, group) ==
  [step_id |-> id, tool |-> tool, parallel_group |-> group,
   input |-> "literal", path |-> "f"]

(* Plans to be reviewed, whose first steps are of the two kinds; the patch  *)
(* is accepted only if its anchor is found.                                 *)
GroupPatch == <<A(1, "read", 1), A(2, "read", 1), A(3, "patch", 0)>>
ReadGroupPatch == <<A(1, "read", 0), A(2, "read", 1), A(3, "read", 1),
                    A(4, "patch", 0)>>

(* Six groups of two: accepted, but over the budget of ten tool calls. *)
Long == [i \in 1..12 |-> A(i, "read", 1 + (i - 1) \div 2)]

(* Plans it refuses: a group in two parts, one over the limit, an unknown   *)
(* tool.                                                                    *)
SplitGroup  == <<A(1, "read", 1), A(2, "read", 0), A(3, "read", 1)>>
WideGroup   == <<A(1, "read", 1), A(2, "read", 1), A(3, "read", 1)>>
UnknownTool == <<A(1, "ghost", 0)>>

MCPlans == {GroupPatch, ReadGroupPatch, Long,
            SplitGroup, WideGroup, UnknownTool}

(* A write of what the step before it read. *)
MCPipe == {<<A(1, "read", 0),
             [A(2, "write", 0) EXCEPT !.input = "previous"]>>}
=============================================================================
