---------------------------- MODULE MCApiClient ----------------------------
(* Three callers of one session. *)
EXTENDS ApiClient, TLC

Symmetry == Permutations(Callers)
=============================================================================
