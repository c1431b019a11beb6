------------------------------ MODULE Framing ------------------------------
(***************************************************************************)
(* TunSafe framing (internal/stealth/framing.go).  A WireGuard packet is   *)
(* its kind, the key it names (the first eight bytes) and its counter; a   *)
(* frame is whole (normal) or stripped of the header (data).  Each end     *)
(* keeps, for each direction, the header it can do without.  Counters are  *)
(* far from 2^64, where WireGuard has long given the key up.               *)
(***************************************************************************)
EXTENDS Naturals

\* tunSafeState, one direction of it.
newTunSafeState == [key |-> 0, ctr |-> 0]

Fits(c, p) == p.kind = "data" /\ p.key = c.key /\ p.ctr = c.ctr + 1

\* wgToTunSafe: the frame, which remembers the packet it was made of, ...
Frame(c, p) == [type |-> IF Fits(c, p) THEN "data" ELSE "normal", of |-> p]

\* ... and the sender's state after it.
Sent(c, p) ==
    IF p.kind = "data" THEN [key |-> p.key, ctr |-> p.ctr] ELSE c

\* prepareWgPacket: the packet a frame is read as.
Prepared(c, f) ==
    IF f.type = "normal" THEN f.of ELSE [f.of EXCEPT !.key = c.key, !.ctr = c.ctr]

\* The counter of a whole data packet is not stepped past.
onRecvPacket_Mutant(c, f) ==
    IF f.type = "normal" /\ f.of.kind = "data" THEN [key |-> f.of.key, ctr |-> f.of.ctr]
    ELSE [c EXCEPT !.ctr = @ + 1]

\* Every packet is counted, also one that has no counter.
onRecvPacket(c, f) ==
    IF f.type = "normal" /\ f.of.kind = "data" THEN [key |-> f.of.key, ctr |-> f.of.ctr + 1]
    ELSE [c EXCEPT !.ctr = @ + 1]
=============================================================================
