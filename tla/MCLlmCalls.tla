----------------------------- MODULE MCLlmCalls -----------------------------
(* Small instances of LlmCalls for TLC. *)
EXTENDS LlmCalls

(* A retry sleeps within its timeout, or for all of it. *)
MCBackoffs == {1, Timeout}
=============================================================================
