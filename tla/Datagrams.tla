----------------------------- MODULE Datagrams -----------------------------
(***************************************************************************)
(* What WireGuard gets from the stealth transport: a channel each way that *)
(* neither invents, repeats nor overtakes packets, that may lose all there *)
(* is under way, and that delivers every packet as it was sent, except a   *)
(* data packet that follows one that is not data or another such: its      *)
(* counter may come out too large, and WireGuard's authentication then     *)
(* drops it.                                                               *)
(***************************************************************************)
EXTENDS Naturals, Sequences

CONSTANT Directions

VARIABLES way,                 \* the packets under way
          got                  \* the last packet delivered, as sent and as received

Packet == [kind : {"data", "other"}, key : Nat, ctr : Nat]

NoPacket == [kind |-> "data", key |-> 0, ctr |-> 0]
Nothing  == [sent |-> NoPacket, as |-> NoPacket]

\* The two ends agree on the counter.
InStep(d) == got[d].sent.kind = "data" /\ got[d].as = got[d].sent

DInit == way = [d \in Directions |-> <<>>] /\ got = [d \in Directions |-> Nothing]

Send(d) ==
    /\ Len(way'[d]) = Len(way[d]) + 1
    /\ way'[d][Len(way'[d])] \in Packet
    /\ way' = [way EXCEPT ![d] = Append(@, way'[d][Len(way'[d])])]
    /\ UNCHANGED got

Deliver(d) ==
    /\ way[d] # <<>>
    /\ got' = [got EXCEPT ![d] = [sent |-> Head(way[d]), as |-> Head(way[d])]]
    /\ way' = [way EXCEPT ![d] = Tail(@)]

DeliverSkewed(d) ==
    /\ way[d] # <<>> /\ ~InStep(d) /\ Head(way[d]).kind = "data"
    /\ got'[d].as.ctr > Head(way[d]).ctr
    /\ got' = [got EXCEPT ![d] = [sent |-> Head(way[d]),
                                  as |-> [Head(way[d]) EXCEPT !.ctr = got'[d].as.ctr]]]
    /\ way' = [way EXCEPT ![d] = Tail(@)]

\* The two ends begin again.
Reset == way' = [d \in Directions |-> <<>>] /\ got' = [d \in Directions |-> Nothing]

DNext == Reset \/ \E d \in Directions : Send(d) \/ Deliver(d) \/ DeliverSkewed(d)

DSpec == DInit /\ [][DNext]_<<way, got>>
=============================================================================
