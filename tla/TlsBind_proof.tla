---------------------------- MODULE TlsBind_proof ----------------------------
(***************************************************************************)
(* Proofs about TlsBind, for any number of packets and connections: a      *)
(* closed bind stays without a connection, a connection is given up only   *)
(* when it has failed or with the bind, and the framed stream implements   *)
(* the abstract channel of Datagrams.                                      *)
(***************************************************************************)
EXTENDS TlsBind, SequenceTheorems, TLAPS

\* The receive goroutine that goes to close a failed connection closes the one
\* that failed: no other was made meanwhile, or the bind is closed.
ErrorOfCurrent ==
    rcv.pc = "error" => \/ cur # 0 /\ broken
                        \/ up = "down"

\* It reads from a connection, never from none.
ReadsOne == rcv.pc = "read" => rcv.conn # 0

Kept == NoConnectionAfterClose /\ ErrorOfCurrent /\ ReadsOne

-----------------------------------------------------------------------------
LEMMA KeptInit == BInit => Kept
  BY DEF BInit, Kept, NoConnectionAfterClose, ErrorOfCurrent, ReadsOne, Free

\* Under the lock: a closed bind dials no more, and one that has a connection
\* keeps it.
LEMMA GetConnKeeps ==
  ASSUME NEW ok, NEW err, getConn(ok, err), Kept, UNCHANGED up
  PROVE  /\ NoConnectionAfterClose'
         /\ cur # 0 => cur' = cur
         /\ UNCHANGED broken
<1>1. CASE Keep
  BY <1>1 DEF Keep, Kept, NoConnectionAfterClose
<1>2. CASE ~closed /\ cur = 0 /\ Dial
  BY <1>2 DEF Dial, Kept, NoConnectionAfterClose
<1>3. CASE ~closed /\ cur = 0 /\ DialFails
  BY <1>3 DEF DialFails, Kept, NoConnectionAfterClose
<1> QED BY <1>1, <1>2, <1>3 DEF getConn

\* Every step keeps the invariant, and gives a working connection up only when
\* it is Close.
LEMMA KeptStep ==
  ASSUME Kept, [BNext]_vars
  PROVE  Kept' /\ (cur # 0 /\ cur' # cur => broken \/ up' = "down")
<1> USE DEF Kept
<1>1. CASE Open
  BY <1>1 DEF Open, NoConnectionAfterClose, ErrorOfCurrent, ReadsOne, Free
<1>2. CASE Close
  BY <1>2 DEF Close, CloseConn, NoConnectionAfterClose, ErrorOfCurrent, ReadsOne
<1>3. ASSUME NEW s \in Senders, Send(s) PROVE Kept' /\ (cur # 0 => cur' = cur)
  <2>1. getConn(Goes(s, "got", 0), UNCHANGED snd) /\ UNCHANGED <<up, rcv>>
    BY <1>3 DEF Send
  <2>2. NoConnectionAfterClose' /\ (cur # 0 => cur' = cur) /\ UNCHANGED broken
    BY <2>1, GetConnKeeps
  <2>3. ErrorOfCurrent' /\ ReadsOne'
    BY <2>1, <2>2 DEF ErrorOfCurrent, ReadsOne
  <2> QED BY <2>2, <2>3
<1>4. ASSUME NEW s \in Senders, TakeWriter(s) \/ WritePacket(s) PROVE Kept' /\ cur' = cur
  BY <1>4 DEF TakeWriter, WritePacket, NoConnectionAfterClose, ErrorOfCurrent, ReadsOne
<1>5. CASE Receive
  <2>1. /\ getConn(At("got", 0), At(IF closed THEN "ended" ELSE "idle", 0))
        /\ UNCHANGED up
    BY <1>5 DEF Receive
  <2>2. NoConnectionAfterClose' /\ (cur # 0 => cur' = cur)
    BY <2>1, GetConnKeeps
  <2>3. rcv'.pc \notin {"error", "read"}
    BY <2>1 DEF getConn, At
  <2> QED BY <2>2, <2>3 DEF ErrorOfCurrent, ReadsOne
<1>6. CASE TakeReader
  BY <1>6 DEF TakeReader, At, NoConnectionAfterClose, ErrorOfCurrent, ReadsOne
<1>7. CASE ReadPacket
  BY <1>7 DEF ReadPacket, At, NoConnectionAfterClose, ErrorOfCurrent, ReadsOne
<1>8. CASE ReadFails
  <2>1. UNCHANGED <<up, closed, cur, broken>> /\ rcv.pc = "read"
    BY <1>8 DEF ReadFails
  <2>2. rcv'.pc # "read" /\ (rcv'.pc = "error" => rcv.conn = cur /\ broken)
    BY <1>8 DEF ReadFails, At
  <2> QED BY <2>1, <2>2 DEF NoConnectionAfterClose, ErrorOfCurrent, ReadsOne
<1>9. CASE CloseFailed
  <2>1. rcv'.pc \notin {"error", "read"} /\ cur' = 0 /\ UNCHANGED <<up, closed>>
    BY <1>9 DEF CloseFailed, CloseConn, At
  <2>2. cur # 0 => broken \/ up' = "down"
    BY <1>9, <2>1 DEF CloseFailed, ErrorOfCurrent, ReadsOne
  <2> QED BY <2>1, <2>2 DEF NoConnectionAfterClose, ErrorOfCurrent, ReadsOne
<1>10. CASE ServerSends \/ ServerReads
  BY <1>10 DEF ServerSends, ServerReads, NoConnectionAfterClose, ErrorOfCurrent, ReadsOne
<1>11. CASE Break
  BY <1>11 DEF Break, NoConnectionAfterClose, ErrorOfCurrent, ReadsOne
<1>12. CASE UNCHANGED vars
  BY <1>12 DEF vars, NoConnectionAfterClose, ErrorOfCurrent, ReadsOne
<1> QED
  BY <1>1, <1>2, <1>3, <1>4, <1>5, <1>6, <1>7, <1>8, <1>9, <1>10, <1>11, <1>12
     DEF BNext, Open, Close

\* After Close there is no connection, and a goroutine that waited for the lock
\* makes none (getConn, Close).
THEOREM ClosedForGood == BSpec => []NoConnectionAfterClose
<1>1. Kept => NoConnectionAfterClose
  BY DEF Kept
<1> QED BY KeptInit, KeptStep, <1>1, PTL DEF BSpec

\* A working connection outlives the failures of earlier ones (makeReceiveFunc,
\* closeLocked).
THEOREM WorkingConnectionKept == BSpec => HealthyConnectionKept
<1>1. Kept /\ [BNext]_vars => [cur # 0 /\ cur' # cur => broken \/ up' = "down"]_vars
  BY KeptStep
<1> QED BY KeptInit, KeptStep, <1>1, PTL DEF BSpec, HealthyConnectionKept

-----------------------------------------------------------------------------
(* The framing.  States names the sender's framing state before each frame   *)
(* under way and after the last: the receiver is behind the first of them.   *)

State   == [key : Nat, ctr : Nat]
Packets == [kind : {"data", "other"}, key : Nat, ctr : Nat]
Wired   == {p \in Packets : p.kind = "data" => p.key # 0}
Frames  == [type : {"data", "normal"}, of : Wired]

InStep(d) == got[d].sent.kind = "data" /\ got[d].as = got[d].sent

\* The receiver expects no counter the sender has used, and the next one when
\* it read the last packet as it was sent.
Behind(d, c) ==
    \/ c.key = 0
    \/ c.key = dec[d].key /\ c.ctr < dec[d].ctr /\ (InStep(d) => dec[d].ctr = c.ctr + 1)

States(d, s) ==
    /\ s \in [1..Len(wire[d]) + 1 -> State]
    /\ s[Len(wire[d]) + 1] = enc[d]
    /\ \A i \in 1..Len(wire[d]) : /\ wire[d][i] = Frame(s[i], wire[d][i].of)
                                  /\ s[i + 1] = Sent(s[i], wire[d][i].of)
    /\ Behind(d, s[1])

FramedTypes ==
    /\ wire \in [Directions -> Seq(Frames)]
    /\ enc \in [Directions -> State] /\ dec \in [Directions -> State]
    /\ got \in [Directions -> [sent : Packets, as : Packets]]
    /\ wg \in [Directions -> [key : Nat \ {0}, ctr : Nat, sent : Nat, shook : BOOLEAN]]

Framed == FramedTypes /\ \A d \in Directions : \E s : States(d, s)

\* A frame and the state after it, for any state and packet.
LEMMA FramingTypes ==
  ASSUME NEW c \in State, NEW p \in Wired
  PROVE  Frame(c, p) \in Frames /\ Frame(c, p).of = p /\ Sent(c, p) \in State
  BY DEF Frame, Sent, Fits, Frames, State, Wired, Packets

LEMMA FramedInit == BInit => Framed
<1> SUFFICES ASSUME BInit PROVE Framed
  OBVIOUS
<1>1. FramedTypes
  BY DEF BInit, FramedTypes, Empty, Fresh, Nothing, NoPacket, newTunSafeState, State, Packets
<1>2. ASSUME NEW d \in Directions PROVE States(d, [i \in 1..1 |-> newTunSafeState])
  <2>1. wire[d] = <<>> /\ enc[d] = newTunSafeState /\ newTunSafeState \in State
    BY DEF BInit, Empty, Fresh, newTunSafeState, State
  <2> QED BY <2>1 DEF States, Behind, newTunSafeState
<1> QED BY <1>1, <1>2 DEF Framed

\* With nothing under way the two ends begin again.
LEMMA FramedReset ==
  ASSUME Framed, CloseConn, UNCHANGED wg
  PROVE  Framed'
<1>1. FramedTypes'
  BY DEF CloseConn, Framed, FramedTypes, Empty, Fresh, Nothing, NoPacket, newTunSafeState, State,
         Packets
<1>2. ASSUME NEW d \in Directions PROVE States(d, [i \in 1..1 |-> newTunSafeState])'
  <2>1. wire'[d] = <<>> /\ enc'[d] = newTunSafeState /\ newTunSafeState \in State
    BY DEF CloseConn, Empty, Fresh, newTunSafeState, State
  <2> QED BY <2>1 DEF States, Behind, newTunSafeState
<1> QED BY <1>1, <1>2 DEF Framed

\* A step that leaves the connection's framing alone keeps it.
LEMMA FramedKept ==
  ASSUME Framed, UNCHANGED <<tunnel, wg>>
  PROVE  Framed'
<1>1. UNCHANGED <<wire, enc, dec, got, wg>>
  BY DEF tunnel
<1>2. FramedTypes'
  BY <1>1 DEF Framed, FramedTypes
<1>3. ASSUME NEW d \in Directions, NEW s, States(d, s) PROVE States(d, s)'
  BY <1>1, <1>3 DEF States, Behind, InStep
<1> QED BY <1>2, <1>3 DEF Framed

\* What WireGuard sends is a packet, and its counters stay natural.
LEMMA Sending ==
  ASSUME FramedTypes, NEW d \in Directions, NEW kind \in Senders, NEW p \in Outgoing(d, kind)
  PROVE  /\ p \in Wired
         /\ Counted(d, p) =>
              wg' \in [Directions -> [key : Nat \ {0}, ctr : Nat, sent : Nat, shook : BOOLEAN]]
<1>1. wg[d] \in [key : Nat \ {0}, ctr : Nat, sent : Nat, shook : BOOLEAN]
  BY DEF FramedTypes
<1>2. p \in Wired
  BY <1>1 DEF Outgoing, Wired, Packets, Senders
<1>3. p.kind # "other" => p.key \in Nat \ {0} /\ p.ctr \in Nat
  BY <1>2 DEF Wired, Packets
<1>4. CASE p.kind = "other"
  <2> DEFINE r == [wg[d] EXCEPT !.sent = wg[d].sent + 1, !.shook = TRUE]
  <2>1. ASSUME NEW c \in [key : Nat \ {0}, ctr : Nat, sent : Nat, shook : BOOLEAN], NEW n \in Nat
        PROVE  [c EXCEPT !.sent = n, !.shook = TRUE]
                 \in [key : Nat \ {0}, ctr : Nat, sent : Nat, shook : BOOLEAN]
    OBVIOUS
  <2>3. wg[d].sent + 1 \in Nat
    BY <1>1
  <2>4. r \in [key : Nat \ {0}, ctr : Nat, sent : Nat, shook : BOOLEAN]
    BY <1>1, <2>1, <2>3
  <2>2. Counted(d, p) => wg' = [wg EXCEPT ![d] = r]
    BY <1>4 DEF Counted
  <2> HIDE DEF r
  <2> QED BY <1>2, <2>2, <2>4 DEF FramedTypes
<1>5. CASE p.kind # "other"
  <2> DEFINE b == wg[d].shook /\ p.key = wg[d].key
             r == [key |-> p.key, ctr |-> p.ctr + 1, sent |-> wg[d].sent + 1, shook |-> b]
  <2>0. b \in BOOLEAN
    OBVIOUS
  <2>1. r \in [key : Nat \ {0}, ctr : Nat, sent : Nat, shook : BOOLEAN]
    <3> HIDE DEF b
    <3> QED BY <1>1, <1>3, <1>5, <2>0
  <2>2. Counted(d, p) => wg' = [wg EXCEPT ![d] = r]
    BY <1>5, Zenon DEF Counted
  <2> HIDE DEF r
  <2> QED BY <1>2, <2>1, <2>2 DEF FramedTypes
<1> QED BY <1>4, <1>5

\* A packet more: the trail of states goes one further.
LEMMA FramedPut ==
  ASSUME Framed, NEW d \in Directions, NEW p \in Wired, Put(d, p), UNCHANGED <<dec, got>>,
         wg' \in [Directions -> [key : Nat \ {0}, ctr : Nat, sent : Nat, shook : BOOLEAN]]
  PROVE  Framed'
<1> DEFINE f == Frame(enc[d], p)
           w == wire[d]
<1>0. w \in Seq(Frames) /\ enc[d] \in State
  BY DEF Framed, FramedTypes
<1>1. f \in Frames /\ f.of = p /\ Sent(enc[d], p) \in State
  BY <1>0, FramingTypes
<1>2. /\ wire'[d] = Append(w, f) /\ enc'[d] = Sent(enc[d], p)
      /\ \A e \in Directions : e # d => wire'[e] = wire[e] /\ enc'[e] = enc[e]
  BY DEF Put, Framed, FramedTypes
<1>3. /\ Append(w, f) \in Seq(Frames) /\ Len(Append(w, f)) = Len(w) + 1
      /\ \A i \in 1..Len(w) : Append(w, f)[i] = w[i]
      /\ Append(w, f)[Len(w) + 1] = f
  BY <1>0, <1>1, AppendProperties
<1>4. FramedTypes'
  <2>1. wire' \in [Directions -> Seq(Frames)]
    BY <1>3 DEF Put, Framed, FramedTypes
  <2>2. enc' \in [Directions -> State]
    BY <1>1 DEF Put, Framed, FramedTypes
  <2> QED BY <2>1, <2>2 DEF Framed, FramedTypes
<1>5. \E s : States(d, s)'
  <2>1. PICK s : States(d, s)
    BY DEF Framed
  <2> DEFINE n == Len(w)
  <2>0. PICK t : t = [i \in 1..n + 2 |-> IF i = n + 2 THEN enc'[d] ELSE s[i]]
    OBVIOUS
  <2>2. n \in Nat /\ Len(wire'[d]) = n + 1
    BY <1>0, <1>2, <1>3
  <2>3. t \in [1..Len(wire'[d]) + 1 -> State] /\ t[Len(wire'[d]) + 1] = enc'[d]
    BY <2>0, <2>1, <2>2, <1>1, <1>2 DEF States
  <2>4. ASSUME NEW i \in 1..Len(wire'[d])
        PROVE  wire'[d][i] = Frame(t[i], wire'[d][i].of) /\ t[i + 1] = Sent(t[i], wire'[d][i].of)
    <3>1. CASE i \in 1..n
      <4>1. wire'[d][i] = w[i] /\ t[i] = s[i] /\ t[i + 1] = s[i + 1]
        BY <1>2, <1>3, <2>0, <2>2, <3>1
      <4> QED BY <2>1, <3>1, <4>1 DEF States
    <3>2. CASE i = n + 1
      <4>1. wire'[d][i] = f /\ t[i] = enc[d] /\ t[i + 1] = enc'[d]
        BY <1>2, <1>3, <2>0, <2>1, <2>2, <3>2 DEF States
      <4> QED BY <1>1, <1>2, <4>1
    <3> QED BY <2>2, <3>1, <3>2
  <2>5. Behind(d, t[1])'
    <3>1. t[1] = s[1]
      BY <2>0, <2>2
    <3> QED BY <2>1, <3>1 DEF States, Behind, InStep
  <2>6. States(d, t)'
    BY <2>3, <2>4, <2>5 DEF States
  <2> QED BY <2>6
<1>6. ASSUME NEW e \in Directions, e # d PROVE \E s : States(e, s)'
  <2>1. PICK s : States(e, s)
    BY DEF Framed
  <2>2. States(e, s)'
    BY <1>2, <1>6, <2>1 DEF States, Behind, InStep
  <2> QED BY <2>2
<1> QED BY <1>4, <1>5, <1>6 DEF Framed

\* A frame less.  The packet is read as it was sent, or its counter is too
\* large, and that only when the ends had lost step.
LEMMA FramedTake ==
  ASSUME Framed, NEW d \in Directions, Take(d), UNCHANGED <<enc, wg>>
  PROVE  /\ Framed'
         /\ wire[d] # <<>> /\ wire' = [wire EXCEPT ![d] = Tail(wire[d])]
         /\ LET p == Head(wire[d]).of
            IN  \/ got' = [got EXCEPT ![d] = [sent |-> p, as |-> p]]
                \/ /\ ~InStep(d) /\ p.kind = "data" /\ dec[d].ctr > p.ctr
                   /\ got' = [got EXCEPT ![d] = [sent |-> p,
                                                 as |-> [p EXCEPT !.ctr = dec[d].ctr]]]
<1> DEFINE w == wire[d]
           f == Head(w)
           p == f.of
           q == Prepared(dec[d], f)
           c == onRecvPacket(dec[d], f)
<1>1. w # <<>> /\ w \in Seq(Frames) /\ enc[d] \in State /\ dec[d] \in State
  BY DEF Take, Framed, FramedTypes
<1>2. /\ f \in Frames /\ Tail(w) \in Seq(Frames) /\ Len(Tail(w)) = Len(w) - 1
      /\ \A i \in 1..Len(Tail(w)) : Tail(w)[i] = w[i + 1]
      /\ Len(w) \in Nat \ {0} /\ f = w[1]
  BY <1>1, HeadTailProperties
<1>3. p \in Wired /\ f.type \in {"data", "normal"}
  BY <1>2 DEF Frames
<1>4. /\ wire' = [wire EXCEPT ![d] = Tail(w)]
      /\ got' = [got EXCEPT ![d] = [sent |-> p, as |-> q]]
      /\ dec' = [dec EXCEPT ![d] = c]
  BY DEF Take
<1>5. PICK s : States(d, s)
  BY DEF Framed
<1>6. /\ s \in [1..Len(w) + 1 -> State] /\ s[1] \in State /\ s[2] \in State
      /\ f = Frame(s[1], p) /\ s[2] = Sent(s[1], p) /\ Behind(d, s[1])
  BY <1>2, <1>5 DEF States
<1>7. f.type = "data" <=> p.kind = "data" /\ p.key = s[1].key /\ p.ctr = s[1].ctr + 1
  BY <1>6 DEF Frame, Fits
<1> DEFINE Skewed == /\ ~InStep(d) /\ p.kind = "data" /\ dec[d].ctr > p.ctr
                     /\ q = [p EXCEPT !.ctr = dec[d].ctr]
           Next == \/ s[2].key = 0
                   \/ /\ s[2].key = c.key /\ s[2].ctr < c.ctr
                      /\ p.kind = "data" /\ q = p => c.ctr = s[2].ctr + 1
<1>8. q \in Packets /\ c \in State /\ (q = p \/ Skewed) /\ Next
  <2>1. /\ s[2] \in State
        /\ p.kind = "data" => s[2].key = p.key /\ s[2].ctr = p.ctr
        /\ p.kind # "data" => s[2] = s[1]
    BY <1>6 DEF Sent
  <2>2. p.key \in Nat /\ p.ctr \in Nat /\ (p.kind = "data" => p.key # 0) /\ p \in Packets
    BY <1>3 DEF Wired, Packets
  <2>3. /\ s[1].key \in Nat /\ s[1].ctr \in Nat /\ dec[d].key \in Nat /\ dec[d].ctr \in Nat
    BY <1>1, <1>6 DEF State
  <2>4. CASE f.type = "normal"
    <3>1. q = p
      BY <2>4 DEF Prepared
    <3>2. CASE p.kind = "data"
      <4>1. c = [key |-> p.key, ctr |-> p.ctr + 1]
        BY <2>4, <3>2 DEF onRecvPacket
      <4>2. c \in State /\ c.key = p.key /\ c.ctr = p.ctr + 1
        BY <2>2, <4>1 DEF State
      <4> HIDE DEF c, q
      <4> QED BY <2>1, <2>2, <3>1, <3>2, <4>2
    <3>3. CASE p.kind # "data"
      <4>1. c = [dec[d] EXCEPT !.ctr = @ + 1]
        BY <2>4, <3>3 DEF onRecvPacket
      <4>2. c \in State /\ c.key = dec[d].key /\ c.ctr = dec[d].ctr + 1
        BY <1>1, <4>1 DEF State
      <4>3. s[1].key = 0 \/ (s[1].key = dec[d].key /\ s[1].ctr < dec[d].ctr)
        BY <1>6 DEF Behind
      <4> HIDE DEF c, q
      <4> QED BY <2>1, <2>2, <2>3, <3>1, <3>3, <4>2, <4>3
    <3> QED BY <3>2, <3>3
  <2>5. CASE f.type = "data"
    <3>1. p.kind = "data" /\ p.key = s[1].key /\ p.ctr = s[1].ctr + 1
      BY <1>7, <2>5
    <3>2. /\ p.key = dec[d].key /\ s[1].ctr < dec[d].ctr
          /\ InStep(d) => dec[d].ctr = p.ctr
      BY <1>6, <2>2, <3>1 DEF Behind
    <3>3. q = [p EXCEPT !.key = dec[d].key, !.ctr = dec[d].ctr]
      BY <2>5 DEF Prepared
    <3>4. q = [p EXCEPT !.ctr = dec[d].ctr] /\ q \in Packets /\ q.ctr = dec[d].ctr
      BY <2>2, <2>3, <3>2, <3>3 DEF Packets
    <3>5. dec[d].ctr = p.ctr => q = p
      BY <2>2, <3>4 DEF Packets
    <3>6. c = [dec[d] EXCEPT !.ctr = @ + 1]
      BY <2>5 DEF onRecvPacket
    <3>7. c \in State /\ c.key = dec[d].key /\ c.ctr = dec[d].ctr + 1
      BY <1>1, <3>6 DEF State
    <3>8. dec[d].ctr = p.ctr \/ (dec[d].ctr > p.ctr /\ ~InStep(d))
      BY <2>2, <2>3, <3>1, <3>2
    <3>9. q = p => dec[d].ctr = p.ctr
      BY <3>4
    <3>10. Next
      <4> HIDE DEF c, q
      <4> QED BY <2>1, <2>2, <2>3, <3>1, <3>2, <3>7, <3>9
    <3> QED BY <3>4, <3>5, <3>7, <3>8, <3>1, <3>10
  <2> QED BY <1>3, <2>4, <2>5
<1> HIDE DEF q, c
<1>9. FramedTypes'
  <2>1. wire' \in [Directions -> Seq(Frames)] /\ dec' \in [Directions -> State]
    BY <1>2, <1>4, <1>8 DEF Framed, FramedTypes
  <2>2. got' \in [Directions -> [sent : Packets, as : Packets]]
    BY <1>3, <1>4, <1>8 DEF Framed, FramedTypes, Wired
  <2> QED BY <2>1, <2>2 DEF Framed, FramedTypes
<1>10. \E t : States(d, t)'
  <2>1. PICK t : t = [i \in 1..Len(w) |-> s[i + 1]]
    OBVIOUS
  <2>2. /\ wire'[d] = Tail(w) /\ dec'[d] = c /\ enc'[d] = enc[d]
        /\ got'[d] = [sent |-> p, as |-> q]
    BY <1>4 DEF Framed, FramedTypes
  <2>3. Len(wire'[d]) + 1 = Len(w)
    BY <1>2, <2>2
  <2>4. t \in [1..Len(wire'[d]) + 1 -> State] /\ t[Len(wire'[d]) + 1] = enc'[d]
    BY <1>2, <1>5, <1>6, <2>1, <2>2, <2>3 DEF States
  <2>5. ASSUME NEW i \in 1..Len(wire'[d])
        PROVE  wire'[d][i] = Frame(t[i], wire'[d][i].of) /\ t[i + 1] = Sent(t[i], wire'[d][i].of)
    <3>1. wire'[d][i] = w[i + 1] /\ i + 1 \in 1..Len(w) /\ t[i] = s[i + 1] /\ t[i + 1] = s[i + 2]
      BY <1>2, <2>1, <2>2, <2>3
    <3> QED BY <1>5, <3>1 DEF States
  <2>6. Behind(d, t[1])'
    <3>1. t[1] = s[2]
      BY <1>2, <2>1
    <3> QED BY <1>8, <2>2, <3>1 DEF Behind, InStep
  <2>7. States(d, t)'
    BY <2>4, <2>5, <2>6 DEF States
  <2> QED BY <2>7
<1>11. ASSUME NEW e \in Directions, e # d PROVE \E t : States(e, t)'
  <2>1. PICK t : States(e, t)
    BY DEF Framed
  <2>2. UNCHANGED <<wire[e], dec[e], enc[e], got[e]>>
    BY <1>4, <1>11 DEF Framed, FramedTypes
  <2>3. States(e, t)'
    BY <2>1, <2>2 DEF States, Behind, InStep
  <2> QED BY <2>3
<1>12. Framed'
  BY <1>9, <1>10, <1>11 DEF Framed
<1>13. \/ got' = [got EXCEPT ![d] = [sent |-> p, as |-> p]]
       \/ /\ ~InStep(d) /\ p.kind = "data" /\ dec[d].ctr > p.ctr
          /\ got' = [got EXCEPT ![d] = [sent |-> p, as |-> [p EXCEPT !.ctr = dec[d].ctr]]]
  BY <1>4, <1>8
<1> QED BY <1>1, <1>4, <1>12, <1>13

-----------------------------------------------------------------------------
(* The refinement.  The packets under way are those the frames were made of. *)

Contents(w) == [i \in DOMAIN w |-> w[i].of]

LEMMA ContentsTypes ==
  ASSUME NEW w \in Seq(Frames)
  PROVE  /\ Contents(w) \in Seq(Packets) /\ Len(Contents(w)) = Len(w)
         /\ \A i \in 1..Len(w) : Contents(w)[i] = w[i].of
<1>1. DOMAIN w = 1..Len(w) /\ Len(w) \in Nat /\ \A i \in 1..Len(w) : w[i] \in Frames
  OBVIOUS
<1>2. \A i \in 1..Len(w) : w[i].of \in Packets
  BY <1>1 DEF Frames, Wired
<1>3. Contents(w) = [i \in 1..Len(w) |-> w[i].of]
  BY <1>1 DEF Contents
<1>4. Contents(w) \in [1..Len(w) -> Packets]
  BY <1>2, <1>3
<1>5. Contents(w) \in Seq(Packets) /\ Len(Contents(w)) = Len(w)
  BY <1>1, <1>4
<1> QED BY <1>3, <1>5

LEMMA ContentsOf ==
  ASSUME NEW w \in Seq(Frames)
  PROVE  /\ Contents(w) \in Seq(Packets) /\ Len(Contents(w)) = Len(w)
         /\ w # <<>> => /\ Contents(w) # <<>> /\ Head(Contents(w)) = Head(w).of
                        /\ Tail(Contents(w)) = Contents(Tail(w))
         /\ \A f \in Frames : Append(Contents(w), f.of) = Contents(Append(w, f))
<1> DEFINE m == Contents(w)
<1>1. m \in Seq(Packets) /\ Len(m) = Len(w) /\ \A i \in 1..Len(w) : m[i] = w[i].of
  BY ContentsTypes
<1>2. ASSUME w # <<>>
      PROVE  m # <<>> /\ Head(m) = Head(w).of /\ Tail(m) = Contents(Tail(w))
  <2>1. m # <<>> /\ Head(m) = Head(w).of
    BY <1>1, <1>2
  <2>2. /\ Tail(w) \in Seq(Frames) /\ Len(Tail(w)) = Len(w) - 1
        /\ \A i \in 1..Len(Tail(w)) : Tail(w)[i] = w[i + 1]
    BY <1>2, HeadTailProperties
  <2>3. /\ Tail(m) \in Seq(Packets) /\ Len(Tail(m)) = Len(m) - 1
        /\ \A i \in 1..Len(Tail(m)) : Tail(m)[i] = m[i + 1]
    <3> HIDE DEF m
    <3> QED BY <1>1, <2>1, HeadTailProperties
  <2>4. /\ Contents(Tail(w)) \in Seq(Packets) /\ Len(Contents(Tail(w))) = Len(Tail(w))
        /\ \A i \in 1..Len(Tail(w)) : Contents(Tail(w))[i] = Tail(w)[i].of
    BY <2>2, ContentsTypes
  <2>5. ASSUME NEW i \in 1..Len(Tail(m)) PROVE Tail(m)[i] = Contents(Tail(w))[i]
    BY <1>1, <2>2, <2>3, <2>4
  <2>6. Tail(m) = Contents(Tail(w))
    <3> HIDE DEF m
    <3> QED BY <1>1, <2>2, <2>3, <2>4, <2>5, SeqEqual
  <2> QED BY <2>1, <2>6
<1>3. ASSUME NEW f \in Frames PROVE Append(m, f.of) = Contents(Append(w, f))
  <2>1. f.of \in Packets
    BY DEF Frames, Wired
  <2>2. /\ Append(w, f) \in Seq(Frames) /\ Len(Append(w, f)) = Len(w) + 1
        /\ \A i \in 1..Len(w) : Append(w, f)[i] = w[i]
        /\ Append(w, f)[Len(w) + 1] = f
    BY AppendProperties
  <2>3. /\ Append(m, f.of) \in Seq(Packets) /\ Len(Append(m, f.of)) = Len(m) + 1
        /\ \A i \in 1..Len(m) : Append(m, f.of)[i] = m[i]
        /\ Append(m, f.of)[Len(m) + 1] = f.of
    <3> HIDE DEF m
    <3> QED BY <1>1, <2>1, AppendProperties
  <2>4. /\ Contents(Append(w, f)) \in Seq(Packets)
        /\ Len(Contents(Append(w, f))) = Len(w) + 1
        /\ \A i \in 1..Len(w) + 1 : Contents(Append(w, f))[i] = Append(w, f)[i].of
    BY <2>2, ContentsTypes
  <2>5. ASSUME NEW i \in 1..Len(w) + 1 PROVE Append(m, f.of)[i] = Contents(Append(w, f))[i]
    <3>1. CASE i \in 1..Len(w)
      BY <1>1, <2>2, <2>3, <2>4, <3>1
    <3>2. CASE i = Len(w) + 1
      BY <1>1, <2>2, <2>3, <2>4, <3>2
    <3> QED BY <1>1, <3>1, <3>2
  <2>6. Append(m, f.of) = Contents(Append(w, f))
    <3> HIDE DEF m
    <3> QED BY <1>1, <2>3, <2>4, <2>5, SeqEqual
  <2> QED BY <2>6
<1> QED BY <1>1, <1>2, <1>3

way == [d \in Directions |-> Contents(wire[d])]

LEMMA ChannelInit == BInit => Channel!DInit
<1> SUFFICES ASSUME BInit PROVE Channel!DInit
  OBVIOUS
<1>1. \A d \in Directions : wire[d] = <<>>
  BY DEF BInit, Empty
<1> QED BY <1>1 DEF BInit, Nothing, NoPacket, Channel!DInit, Channel!Nothing, Channel!NoPacket

LEMMA ChannelPut ==
  ASSUME Framed, NEW d \in Directions, NEW p \in Wired, Put(d, p), UNCHANGED got
  PROVE  Channel!Send(d)
<1> DEFINE f == Frame(enc[d], p)
<1>1. wire[d] \in Seq(Frames) /\ f \in Frames /\ f.of = p /\ wire \in [Directions -> Seq(Frames)]
  BY FramingTypes DEF Framed, FramedTypes
<1>2. wire' = [wire EXCEPT ![d] = Append(wire[d], f)]
  BY DEF Put
<1>3. wire'[d] = Append(wire[d], f) /\ \A e \in Directions : e # d => wire'[e] = wire[e]
  BY <1>1, <1>2
<1> HIDE DEF f
<1>4. way' = [way EXCEPT ![d] = Append(way[d], p)]
  <2>1. way'[d] = Append(way[d], p)
    BY <1>1, <1>3, ContentsOf DEF way
  <2>2. \A e \in Directions : e # d => way'[e] = way[e]
    BY <1>3 DEF way
  <2> QED BY <2>1, <2>2 DEF way
<1>5. /\ way[d] \in Seq(Packets) /\ way'[d] = Append(way[d], p)
      /\ p \in Packets
  BY <1>1, <1>4, ContentsOf DEF way, Wired
<1>6. Len(way'[d]) = Len(way[d]) + 1 /\ way'[d][Len(way'[d])] = p
  BY <1>5, AppendProperties
<1> QED BY <1>4, <1>5, <1>6 DEF Channel!Send, Channel!Packet, Packets, way, Contents

LEMMA ChannelTake ==
  ASSUME Framed, NEW d \in Directions, Take(d), UNCHANGED <<enc, wg>>
  PROVE  Channel!Deliver(d) \/ Channel!DeliverSkewed(d)
<1> DEFINE w == wire[d]
           p == Head(w).of
<1>1. w \in Seq(Frames) /\ wire \in [Directions -> Seq(Frames)] /\ got \in [Directions -> [sent : Packets, as : Packets]]
  BY DEF Framed, FramedTypes
<1>2. w # <<>> /\ wire' = [wire EXCEPT ![d] = Tail(w)]
  BY FramedTake
<1>3. way[d] # <<>> /\ Head(way[d]) = p /\ Contents(Tail(w)) = Tail(way[d])
  BY <1>1, <1>2, ContentsOf DEF way
<1>4. way' = [way EXCEPT ![d] = Tail(way[d])]
  <2>1. way'[d] = Tail(way[d])
    BY <1>1, <1>2, <1>3 DEF way
  <2>2. \A e \in Directions : e # d => way'[e] = way[e]
    BY <1>1, <1>2 DEF way
  <2> QED BY <2>1, <2>2 DEF way
<1>5. CASE got' = [got EXCEPT ![d] = [sent |-> p, as |-> p]]
  BY <1>3, <1>4, <1>5 DEF Channel!Deliver, way, Contents
<1>6. CASE /\ ~InStep(d) /\ p.kind = "data" /\ dec[d].ctr > p.ctr
           /\ got' = [got EXCEPT ![d] = [sent |-> p, as |-> [p EXCEPT !.ctr = dec[d].ctr]]]
  <2>1. p \in Packets
    <3>1. Head(w) \in Frames
      BY <1>1, <1>2, HeadTailProperties
    <3> QED BY <3>1 DEF Frames, Wired
  <2>2. got'[d].as = [p EXCEPT !.ctr = dec[d].ctr]
    BY <1>1, <1>6
  <2>3. got'[d].as.ctr = dec[d].ctr
    BY <2>1, <2>2 DEF Packets
  <2>4. ~Channel!InStep(d)
    BY <1>6 DEF InStep, Channel!InStep
  <2> HIDE DEF p, w
  <2> QED BY <1>3, <1>4, <1>6, <2>3, <2>4 DEF Channel!DeliverSkewed, way, Contents
<1> QED BY <1>5, <1>6, FramedTake

LEMMA ChannelReset ==
  ASSUME CloseConn
  PROVE  Channel!Reset
<1>1. \A d \in Directions : wire'[d] = <<>>
  BY DEF CloseConn, Empty
<1> QED BY <1>1 DEF CloseConn, Nothing, NoPacket, Channel!Reset, Channel!Nothing, Channel!NoPacket

\* Every step of the bind keeps the framing, and is a step of the channel or
\* none.
LEMMA ChannelStep ==
  ASSUME Framed, [BNext]_vars
  PROVE  Framed' /\ [Channel!DNext]_<<way, got>>
<1>1. CASE UNCHANGED <<tunnel, wg>>
  <2>1. UNCHANGED <<way, got>>
    BY <1>1 DEF tunnel, way
  <2> QED BY <1>1, <2>1, FramedKept
<1>2. CASE CloseConn /\ UNCHANGED wg
  BY <1>2, FramedReset, ChannelReset DEF Channel!DNext
<1>3. ASSUME NEW d \in Directions, NEW kind \in Senders, NEW p \in Outgoing(d, kind),
             Put(d, p), Counted(d, p), UNCHANGED <<dec, got>>
      PROVE  Framed' /\ Channel!DNext
  <2>1. /\ p \in Wired
        /\ wg' \in [Directions -> [key : Nat \ {0}, ctr : Nat, sent : Nat, shook : BOOLEAN]]
    BY <1>3, Sending DEF Framed
  <2>2. Framed'
    BY <1>3, <2>1, FramedPut
  <2>3. Channel!Send(d)
    BY <1>3, <2>1, ChannelPut
  <2> QED BY <2>2, <2>3 DEF Channel!DNext
<1>4. ASSUME NEW d \in Directions, Take(d), UNCHANGED <<enc, wg>>
      PROVE  Framed' /\ Channel!DNext
  BY <1>4, FramedTake, ChannelTake DEF Channel!DNext
<1>5. ASSUME NEW ok, NEW err, getConn(ok, err) PROVE UNCHANGED tunnel
  BY <1>5 DEF getConn, Keep, Dial, DialFails
<1>6. CASE Open \/ ReadFails \/ TakeReader \/ Break \/ UNCHANGED vars
  <2>1. UNCHANGED <<tunnel, wg>>
    BY <1>6 DEF Open, ReadFails, TakeReader, Break, vars, tunnel
  <2> QED BY <1>1, <2>1
<1>7. CASE Close \/ CloseFailed
  BY <1>2, <1>7 DEF Close, CloseFailed
<1>8. ASSUME NEW s \in Senders, Send(s) \/ TakeWriter(s)
      PROVE  Framed' /\ [Channel!DNext]_<<way, got>>
  <2>1. UNCHANGED <<tunnel, wg>>
    BY <1>5, <1>8 DEF Send, TakeWriter
  <2> QED BY <1>1, <2>1
<1>9. ASSUME NEW s \in Senders, WritePacket(s)
      PROVE  Framed' /\ [Channel!DNext]_<<way, got>>
  <2>1. PICK p \in Outgoing("up", s) :
             IF snd[s].conn = cur /\ ~broken THEN Put("up", p) /\ Counted("up", p)
             ELSE UNCHANGED <<wire, enc, wg>>
    BY <1>9 DEF WritePacket
  <2>2. UNCHANGED <<dec, got>> /\ "up" \in Directions
    BY <1>9 DEF WritePacket, Directions
  <2>3. CASE Put("up", p) /\ Counted("up", p)
    BY <1>3, <2>2, <2>3
  <2>4. CASE UNCHANGED <<wire, enc, wg>>
    BY <1>1, <2>2, <2>4 DEF tunnel
  <2> QED BY <2>1, <2>3, <2>4
<1>10. CASE Receive
  <2>1. UNCHANGED <<tunnel, wg>>
    BY <1>5, <1>10 DEF Receive
  <2> QED BY <1>1, <2>1
<1>11. CASE ReadPacket \/ ServerReads
  BY <1>4, <1>11 DEF ReadPacket, ServerReads, Directions
<1>12. CASE ServerSends
  BY <1>3, <1>12 DEF ServerSends, Directions
<1> QED BY <1>6, <1>7, <1>8, <1>9, <1>10, <1>11, <1>12 DEF BNext

\* The frames, each read with the state its end keeps for itself, are the
\* datagrams WireGuard expects of a bind: for any number of packets, keys and
\* connections (FramedWriter, FramedReader, TLSBind).
THEOREM TunnelRefinesDatagrams == BSpec => TunnelIsDatagrams
<1>1. BInit => Framed /\ Channel!DInit
  BY FramedInit, ChannelInit
<1>2. Framed /\ [BNext]_vars => Framed' /\ [Channel!DNext]_<<way, got>>
  BY ChannelStep
<1>3. BInit /\ [][BNext]_vars => Channel!DInit /\ [][Channel!DNext]_<<way, got>>
  BY <1>1, <1>2, PTL
<1> QED BY <1>3, PTL DEF BSpec, TunnelIsDatagrams, Channel!DSpec, way, Contents
=============================================================================
