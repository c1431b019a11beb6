---------------------------- MODULE MCConnection ----------------------------
(***************************************************************************)
(* One connection and two callers: the daemon's connect goroutine and the  *)
(* IPC handlers that disconnect it and toggle its kill switch.             *)
(***************************************************************************)
EXTENDS Connection, TLC

Callers == Permutations(Caller)
=============================================================================
