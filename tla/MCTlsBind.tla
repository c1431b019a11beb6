----------------------------- MODULE MCTlsBind -----------------------------
(* Two connections and a few packets each way. *)
EXTENDS TlsBind
=============================================================================
