-------------------------- MODULE MCSessionAccess --------------------------
(* Small instances of SessionAccess for TLC. *)
EXTENDS SessionAccess, TLC

(* Requests differ in what they do, not in who they are. *)
CallerSymmetry == Permutations(Callers)
=============================================================================
