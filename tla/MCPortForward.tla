--------------------------- MODULE MCPortForward ---------------------------
(* One forwarder, a gateway with two ports to give.  Three seconds a unit. *)
EXTENDS PortForward
=============================================================================
