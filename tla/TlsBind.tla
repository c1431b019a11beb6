------------------------------ MODULE TlsBind ------------------------------
(***************************************************************************)
(* The stealth bind (internal/stealth/tlsbind.go) between wireguard-go and *)
(* a server: it connects lazily under b.mu, which is held while it dials,  *)
(* and its reader and writer are used without it.  wireguard-go, external, *)
(* sends data from one goroutine and handshakes from others, and receives  *)
(* in one, which an error may end.  The server, external too, frames its   *)
(* packets the same way; frames of a closed connection are lost to it.     *)
(***************************************************************************)
EXTENDS Framing, Sequences

CONSTANTS
    MaxPackets,      \* bound: packets sent, both ways together
    MaxConns         \* bound: connections that are made

ASSUME BindAssumption == MaxPackets \in Nat \ {0} /\ MaxConns \in Nat \ {0}

VARIABLES
    up,              \* the StealthManager: "new", "up" or "down"
    closed,          \* b.closed
    cur,             \* the connection of tlsConn, reader and writer, 0 for nil
    made,            \* connections so far
    broken,          \* the connection has failed
    wire,            \* its frames under way
    enc, dec,        \* its framing states: of the sender, of the receiver
    got,             \* the last packet each side was given, as sent and as read
    wg,              \* of each side: key, next counter, packets sent, whether a
                     \* handshake was sent since the key began
    snd,             \* the goroutines in Send
    rcv,             \* the goroutine in the receive function
    panicked         \* a nil reader or writer was used

Directions == {"up", "down"}
Senders    == {"data", "other"}

tunnel == <<wire, enc, dec, got>>
vars   == <<up, closed, cur, made, broken, wire, enc, dec, got, wg, snd, rcv, panicked>>

Empty == [d \in Directions |-> <<>>]
Fresh == [d \in Directions |-> newTunSafeState]

NoPacket == [kind |-> "data", key |-> 0, ctr |-> 0]
Nothing  == [d \in Directions |-> [sent |-> NoPacket, as |-> NoPacket]]

More == wg["up"].sent + wg["down"].sent < MaxPackets

Free == [pc |-> "idle", conn |-> 0]

BInit ==
    /\ up = "new" /\ closed = FALSE /\ cur = 0 /\ made = 0 /\ broken = FALSE
    /\ wire = Empty /\ enc = Fresh /\ dec = Fresh /\ got = Nothing
    /\ wg = [d \in Directions |-> [key |-> 1, ctr |-> 0, sent |-> 0, shook |-> FALSE]]
    /\ snd = [s \in Senders |-> Free] /\ rcv = [Free EXCEPT !.pc = "ended"]
    /\ panicked = FALSE

-----------------------------------------------------------------------------
(* Under b.mu *)

\* closeLocked
CloseConn ==
    /\ cur' = 0 /\ broken' = FALSE
    /\ wire' = Empty /\ enc' = Fresh /\ dec' = Fresh /\ got' = Nothing

Keep == UNCHANGED <<closed, cur, made, broken, tunnel>>

\* dialTCP and upgradeTLS; whatever is framed on it starts afresh (CloseConn).
Dial ==
    /\ made < MaxConns
    /\ cur' = made + 1 /\ made' = made + 1
    /\ UNCHANGED <<closed, broken, tunnel>>

\* One failure to connect is final.
DialFails == closed' = TRUE /\ UNCHANGED <<cur, made, broken, tunnel>>

\* getConn does not look whether the bind is closed.
getConn_Mutant(ok, err) ==
    \/ cur # 0 /\ Keep /\ ok
    \/ cur = 0 /\ Dial /\ ok
    \/ cur = 0 /\ DialFails /\ err

\* getConn: ok and err are what the caller does next.
getConn(ok, err) ==
    \/ closed /\ Keep /\ err
    \/ ~closed /\ cur # 0 /\ Keep /\ ok
    \/ ~closed /\ cur = 0 /\ Dial /\ ok
    \/ ~closed /\ cur = 0 /\ DialFails /\ err

\* Open, called by the device as it comes up; its receive goroutine starts.
Open ==
    /\ up = "new" /\ up' = "up"
    /\ closed' = FALSE /\ rcv' = Free
    /\ UNCHANGED <<cur, made, broken, tunnel, wg, snd, panicked>>

\* Close, first thing in the manager's cleanup.
Close ==
    /\ up = "up" /\ up' = "down"
    /\ closed' = TRUE /\ CloseConn
    /\ UNCHANGED <<made, wg, snd, rcv, panicked>>

-----------------------------------------------------------------------------
(* Send *)

Goes(s, pc, n) == snd' = [snd EXCEPT ![s] = [pc |-> pc, conn |-> n]]

Send(s) ==
    /\ snd[s].pc = "idle" /\ up # "new" /\ More
    /\ getConn(Goes(s, "got", 0), UNCHANGED snd)
    /\ UNCHANGED <<up, wg, rcv, panicked>>

\* b.writer is read; WritePacket of a nil one locks its mutex.
TakeWriter(s) ==
    /\ snd[s].pc = "got"
    /\ IF cur = 0 THEN panicked' = TRUE /\ UNCHANGED snd
       ELSE Goes(s, "write", cur) /\ UNCHANGED panicked
    /\ UNCHANGED <<up, closed, cur, made, broken, tunnel, wg, rcv>>

\* What WireGuard sends next: the counter goes up, with gaps where it dropped
\* a packet; after a handshake a new key begins at zero.
Outgoing(d, kind) ==
    IF kind = "other" THEN {[kind |-> "other", key |-> 0, ctr |-> 0]}
    ELSE {[kind |-> "data", key |-> wg[d].key, ctr |-> c] : c \in {wg[d].ctr, wg[d].ctr + 1}}
           \cup (IF wg[d].shook THEN {[kind |-> "data", key |-> wg[d].key + 1, ctr |-> 0]} ELSE {})

Counted(d, p) ==
    wg' = [wg EXCEPT ![d] = IF p.kind = "other" THEN [@ EXCEPT !.sent = wg[d].sent + 1, !.shook = TRUE]
                            ELSE [key |-> p.key, ctr |-> p.ctr + 1, sent |-> @.sent + 1,
                                  shook |-> @.shook /\ p.key = @.key]]

Put(d, p) ==
    /\ wire' = [wire EXCEPT ![d] = Append(@, Frame(enc[d], p))]
    /\ enc' = [enc EXCEPT ![d] = Sent(enc[d], p)]

\* A writer whose connection fails takes the connection down.
WritePacket_Mutant(s) ==
    /\ snd[s].pc = "write"
    /\ \E p \in Outgoing("up", s) :
          IF snd[s].conn = cur /\ ~broken
          THEN Put("up", p) /\ Counted("up", p) /\ UNCHANGED <<cur, broken, dec, got>>
          ELSE CloseConn /\ UNCHANGED wg
    /\ Goes(s, "idle", 0)
    /\ UNCHANGED <<up, closed, made, rcv, panicked>>

\* WritePacket, under fw.mu; on a failed or a closed connection the packet is
\* lost and nothing else happens: the next connection is framed from scratch,
\* so that the counter it used up makes no difference and is not counted.
WritePacket(s) ==
    /\ snd[s].pc = "write"
    /\ \E p \in Outgoing("up", s) :
          IF snd[s].conn = cur /\ ~broken THEN Put("up", p) /\ Counted("up", p)
          ELSE UNCHANGED <<wire, enc, wg>>
    /\ Goes(s, "idle", 0)
    /\ UNCHANGED <<up, closed, cur, made, broken, dec, got, rcv, panicked>>

-----------------------------------------------------------------------------
(* The receive function and the loop that calls it *)

At(pc, n) == rcv' = [pc |-> pc, conn |-> n]

\* A loop that is told net.ErrClosed ends.
Receive ==
    /\ rcv.pc = "idle"
    /\ getConn(At("got", 0), At(IF closed THEN "ended" ELSE "idle", 0))
    /\ UNCHANGED <<up, wg, snd, panicked>>

TakeReader ==
    /\ rcv.pc = "got"
    /\ IF cur = 0 THEN panicked' = TRUE /\ UNCHANGED rcv
       ELSE At("read", cur) /\ UNCHANGED panicked
    /\ UNCHANGED <<up, closed, cur, made, broken, tunnel, wg, snd>>

Take(d) ==
    LET f == Head(wire[d])
    IN  /\ wire[d] # <<>>
        /\ wire' = [wire EXCEPT ![d] = Tail(@)]
        /\ got' = [got EXCEPT ![d] = [sent |-> f.of, as |-> Prepared(dec[d], f)]]
        /\ dec' = [dec EXCEPT ![d] = onRecvPacket(dec[d], f)]

ReadPacket ==
    /\ rcv.pc = "read" /\ rcv.conn = cur
    /\ Take("down") /\ At("idle", 0)
    /\ UNCHANGED <<up, closed, cur, made, broken, enc, wg, snd, panicked>>

\* The connection was closed from this side, or has failed.
ReadFails ==
    /\ rcv.pc = "read" /\ (rcv.conn # cur \/ broken)
    /\ IF rcv.conn = cur THEN At("error", cur) ELSE At("ended", 0)
    /\ UNCHANGED <<up, closed, cur, made, broken, tunnel, wg, snd, panicked>>

\* wireguard-go tries again unless the error is a final one.
CloseFailed ==
    /\ rcv.pc = "error"
    /\ CloseConn
    /\ At("idle", 0) \/ At("ended", 0)
    /\ UNCHANGED <<up, closed, made, wg, snd, panicked>>

-----------------------------------------------------------------------------
(* The server and the network, external *)

ServerSends ==
    /\ cur # 0 /\ ~broken /\ More
    /\ \E kind \in Senders : \E p \in Outgoing("down", kind) : Put("down", p) /\ Counted("down", p)
    /\ UNCHANGED <<up, closed, cur, made, broken, dec, got, snd, rcv, panicked>>

ServerReads ==
    /\ cur # 0
    /\ Take("up")
    /\ UNCHANGED <<up, closed, cur, made, broken, enc, wg, snd, rcv, panicked>>

Break ==
    /\ cur # 0 /\ ~broken
    /\ broken' = TRUE
    /\ UNCHANGED <<up, closed, cur, made, tunnel, wg, snd, rcv, panicked>>

BNext ==
    /\ ~panicked
    /\ \/ Open \/ Close
       \/ \E s \in Senders : Send(s) \/ TakeWriter(s) \/ WritePacket(s)
       \/ Receive \/ TakeReader \/ ReadPacket \/ ReadFails \/ CloseFailed
       \/ ServerSends \/ ServerReads \/ Break

BSpec == BInit /\ [][BNext]_vars

-----------------------------------------------------------------------------
(* Properties *)

Channel == INSTANCE Datagrams
    WITH way <- [d \in Directions |-> [i \in DOMAIN wire[d] |-> wire[d][i].of]]

\* The frames, read back with the state each end keeps for itself, are the
\* datagrams WireGuard expects of a bind, over reconnects and with two writers:
\* none twice, none out of order, and counters are wrong only in a run of data
\* packets that begins after one that is no data (Datagrams.DeliverSkewed).
TunnelIsDatagrams == Channel!DSpec

\* A connection that works is never given up for the failure of an earlier one
\* that a goroutine still holds.
HealthyConnectionKept == [][cur # 0 /\ cur' # cur => broken \/ up' = "down"]_vars

\* After Close there is no connection and none is made any more: a Send that
\* was waiting for the lock does not dial again.
NoConnectionAfterClose == up = "down" => closed /\ cur = 0
=============================================================================
