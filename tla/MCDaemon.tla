------------------------------ MODULE MCDaemon ------------------------------
(***************************************************************************)
(* Two callers over two Connection objects (hand-over from one session to  *)
(* the next), or over one object and a process that dies and comes back.   *)
(***************************************************************************)
EXTENDS Daemon, TLC

Callers == Permutations(Caller)
=============================================================================
