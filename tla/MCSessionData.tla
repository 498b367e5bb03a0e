--------------------------- MODULE MCSessionData ---------------------------
(* Model values and symmetry for the runs of SessionData. *)
EXTENDS SessionData, TLC

CONSTANTS s1, s2, c1, c2, c3, p1, p2, n1, v1, v2

Symmetry == Permutations(Callers) \cup Permutations(Sessions)
=============================================================================
