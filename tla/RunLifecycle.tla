--------------------------- MODULE RunLifecycle ---------------------------
(***************************************************************************)
(* What a session promises its callers about a run, whatever nodes the     *)
(* graph goes through: a run is started, may pause for a plan review and   *)
(* be resumed, and ends once, with an answer or a failure message that     *)
(* stays until the next run starts.  A halted run (aborted, or its plan    *)
(* rejected) can be resumed only while its review is pending.              *)
(*                                                                         *)
(* All of this is promised only until a review call acts on a state other  *)
(* than the one it has read.                                               *)
(***************************************************************************)
CONSTANT NoAnswer

Answers == {"answer", "failure", NoAnswer}

VARIABLES
  status,   \* "idle", "working", "paused", "halted" or "finished"
  answer,   \* what a finished run answered
  review,   \* a plan review is pending
  late      \* a review call acted on another state than the one it had read

TypeOK ==
  /\ status \in {"idle", "working", "paused", "halted", "finished"}
  /\ answer \in Answers
  /\ review \in BOOLEAN
  /\ late \in BOOLEAN

Init == status = "idle" /\ answer = NoAnswer /\ ~review /\ ~late

Start ==
  /\ status # "working"
  /\ status' = "working"
  /\ answer' = NoAnswer
  /\ review' = FALSE

AskForReview ==
  /\ status = "working" /\ ~review
  /\ review' = TRUE
  /\ UNCHANGED <<status, answer>>

Pause ==
  /\ status = "working" /\ review
  /\ status' = "paused"
  /\ UNCHANGED <<answer, review>>

Resume ==
  /\ status \in {"paused", "halted"} /\ review
  /\ status' = "working"
  /\ review' = FALSE
  /\ UNCHANGED answer

Halt ==
  /\ status \in {"working", "paused"}
  /\ status' = "halted"
  /\ UNCHANGED <<answer, review>>

Finish ==
  /\ status = "working" /\ ~review
  /\ status' = "finished"
  /\ answer' \in Answers
  /\ UNCHANGED review

(* Nothing is promised from a late call on. *)
ComeLate == late'

InTime == Start \/ AskForReview \/ Pause \/ Resume \/ Halt \/ Finish

Next == (InTime /\ UNCHANGED late) \/ ComeLate

Spec == Init /\ [][Next]_<<status, answer, review, late>>
=============================================================================
