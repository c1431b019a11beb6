------------------------------- MODULE MCTui -------------------------------
(***************************************************************************)
(* The TUI beside a daemon that other clients and the network also move.   *)
(***************************************************************************)
EXTENDS Tui
=============================================================================
