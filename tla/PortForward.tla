---------------------------- MODULE PortForward ----------------------------
(***************************************************************************)
(* Port forwarding (internal/vpn/portforward.go): the goroutine that maps  *)
(* a port with NAT-PMP and renews it, and the Stop of a teardown.  The     *)
(* gateway is external: it grants, refuses or does not answer, keeps a     *)
(* mapping for its lifetime and gives a renewal the port it has already.   *)
(* Time is counted in units of natPMPTimeout; the grace of Stop is shorter *)
(* than one.                                                               *)
(***************************************************************************)
EXTENDS Naturals

CONSTANTS
    Ports,                              \* external ports the gateway may assign
    natPMPLifetime, natPMPRenewEvery, natPMPTimeout,
    natPMPRetryMin, natPMPRetryMax, natPMPGraceAttempts

ASSUME PortAssumption ==
    /\ Ports \subseteq Nat \ {0}
    /\ natPMPLifetime \in Nat /\ natPMPRenewEvery \in Nat /\ natPMPTimeout \in Nat \ {0}
    /\ natPMPRetryMin \in Nat \ {0} /\ natPMPRetryMax \in Nat /\ natPMPGraceAttempts \in Nat \ {0}

\* The lifetime outlives the attempts that may fail in a row ("leaves room for
\* a lost datagram or two"): as many waits and exchanges, and one exchange of
\* each protocol in the attempt that had succeeded.
ASSUME LifetimeAssumption ==
    natPMPLifetime > natPMPGraceAttempts * (natPMPRenewEvery + natPMPTimeout) + 2 * natPMPTimeout

VARIABLES
    port, bothTCP, everMapped, stopped, \* of the PortForwarder
    failures, backoff,                  \* of run
    pc,                                 \* run: "wait", exchange "udp" or "tcp", "ended"
    timer,                              \* time left of the wait or of the exchange
    granted,                            \* mapBoth's port
    datagram,                           \* the exchange: "out", "back" or "lost"
    answer,                             \* the port of the answer, 0 for an error
    gateway,                            \* the mapping of each protocol, none: port 0
    stop,                               \* Stop: "no", "grace", unmaps "udp" or "tcp", "done"
    held,                               \* everMapped as Stop saw it
    abandoned,                          \* Stop did not wait for run to end
    unanswered                          \* an unmap was lost

vars == <<port, bothTCP, everMapped, stopped, failures, backoff, pc, timer, granted,
          datagram, answer, gateway, stop, held, abandoned, unanswered>>

shown    == <<port, bothTCP, everMapped>>
pacing   == <<failures, backoff>>
exchange == <<granted, datagram, answer>>
stopping == <<stopped, stop, held, abandoned, unanswered>>

Protocols == {"udp", "tcp"}

Unmapped == [port |-> 0, left |-> 0]

PInit ==
    /\ port = 0 /\ bothTCP = FALSE /\ everMapped = FALSE /\ stopped = FALSE
    /\ failures = 0 /\ backoff = natPMPRetryMin
    /\ pc = "wait" /\ timer = 0                   \* the first attempt is made at once
    /\ granted = 0 /\ datagram = "lost" /\ answer = 0
    /\ gateway = [p \in Protocols |-> Unmapped]
    /\ stop = "no" /\ held = FALSE /\ abandoned = FALSE /\ unanswered = FALSE

-----------------------------------------------------------------------------
(* run and mapBoth *)

\* The result of an attempt is recorded whoever has stopped meanwhile.
setPort_Mutant(p, both) ==
    port' = p /\ bothTCP' = both /\ everMapped' = (everMapped \/ p # 0)

setPort(p, both) ==
    IF stopped THEN UNCHANGED shown
    ELSE port' = p /\ bothTCP' = both /\ everMapped' = (everMapped \/ p # 0)

\* The port is given up after one failure too many.
Lapsed_Mutant(n) == n > natPMPGraceAttempts

Lapsed(n) == n >= natPMPGraceAttempts

\* The wait after an attempt.  A backoff at the limit or past it stays.
Rest ==
    /\ pc' = "wait" /\ datagram' = "lost" /\ UNCHANGED <<granted, answer>>
    /\ IF port' = 0
       THEN timer' = backoff /\ backoff' = IF backoff < natPMPRetryMax THEN 2 * backoff ELSE backoff
       ELSE timer' = natPMPRenewEvery /\ backoff' = natPMPRetryMin

\* Failures past the limit are all alike and are counted no further.
Failed ==
    /\ failures' = IF failures > natPMPGraceAttempts THEN failures ELSE failures + 1
    /\ IF Lapsed(failures + 1) THEN setPort(0, FALSE) ELSE UNCHANGED shown
    /\ Rest

Mapped(p, both) == failures' = 0 /\ setPort(p, both) /\ Rest

Ask(protocol) ==
    /\ pc' = protocol /\ timer' = natPMPTimeout /\ datagram' = "out" /\ answer' = 0
    /\ UNCHANGED <<shown, pacing>>

Attempt ==
    /\ pc = "wait" /\ timer = 0
    /\ IF stopped THEN Failed ELSE Ask("udp") /\ UNCHANGED granted
    /\ UNCHANGED <<gateway, stopping>>

UdpAnswered ==
    /\ pc = "udp" /\ datagram = "back"
    /\ IF answer = 0 \/ stopped THEN Failed ELSE Ask("tcp") /\ granted' = answer
    /\ UNCHANGED <<gateway, stopping>>

\* Whatever becomes of TCP, the UDP mapping counts.
TcpAnswered ==
    /\ pc = "tcp" /\ datagram = "back"
    /\ Mapped(granted, answer = granted)
    /\ UNCHANGED <<gateway, stopping>>

TimesOut ==
    /\ pc \in Protocols /\ timer = 0 /\ datagram # "back"
    /\ IF pc = "udp" THEN Failed ELSE Mapped(granted, FALSE)
    /\ UNCHANGED <<gateway, stopping>>

\* The context is cancelled.
Ends ==
    /\ pc = "wait" /\ stopped
    /\ pc' = "ended" /\ timer' = 0
    /\ UNCHANGED <<shown, pacing, exchange, gateway, stopping>>

-----------------------------------------------------------------------------
(* Stop *)

Stop ==
    /\ stop = "no"
    /\ stopped' = TRUE /\ held' = everMapped /\ stop' = "grace"
    /\ UNCHANGED <<shown, pacing, pc, timer, exchange, gateway, abandoned, unanswered>>

\* run has ended, or the grace is over.
Waited ==
    /\ stop = "grace"
    /\ abandoned' = (pc # "ended")
    /\ stop' = IF ~held /\ pc = "ended" THEN "done" ELSE "udp"
    /\ UNCHANGED <<shown, pacing, pc, timer, exchange, gateway, stopped, held, unanswered>>

\* TCP is forgotten.
Unmap_Mutant ==
    /\ stop \in Protocols
    /\ \/ gateway' = [gateway EXCEPT !["udp"] = Unmapped] /\ UNCHANGED unanswered
       \/ unanswered' = TRUE /\ UNCHANGED gateway
    /\ IF stop = "udp" THEN stop' = "tcp" /\ UNCHANGED <<port, bothTCP>>
       ELSE stop' = "done" /\ port' = 0 /\ bothTCP' = FALSE
    /\ UNCHANGED <<everMapped, pacing, pc, timer, exchange, stopped, held, abandoned>>

\* The port is shown until both deletions were answered or given up.
Unmap ==
    /\ stop \in Protocols
    /\ \/ gateway' = [gateway EXCEPT ![stop] = Unmapped] /\ UNCHANGED unanswered
       \/ unanswered' = TRUE /\ UNCHANGED gateway
    /\ IF stop = "udp" THEN stop' = "tcp" /\ UNCHANGED <<port, bothTCP>>
       ELSE stop' = "done" /\ port' = 0 /\ bothTCP' = FALSE
    /\ UNCHANGED <<everMapped, pacing, pc, timer, exchange, stopped, held, abandoned>>

-----------------------------------------------------------------------------
(* The gateway, external, and time *)

Grant ==
    /\ pc \in Protocols /\ datagram = "out"
    /\ \E p \in IF gateway[pc].left > 0 THEN {gateway[pc].port} ELSE Ports :
          /\ gateway' = [gateway EXCEPT ![pc] = [port |-> p, left |-> natPMPLifetime]]
          /\ answer' = p
    /\ datagram' = "back"
    /\ UNCHANGED <<shown, pacing, pc, timer, granted, stopping>>

Refuse ==
    /\ pc \in Protocols /\ datagram = "out"
    /\ answer' = 0 /\ datagram' = "back"
    /\ UNCHANGED <<shown, pacing, pc, timer, granted, gateway, stopping>>

Lose ==
    /\ datagram \in {"out", "back"}
    /\ datagram' = "lost"
    /\ UNCHANGED <<shown, pacing, pc, timer, granted, answer, gateway, stopping>>

Aged(m) == IF m.left <= 1 THEN Unmapped ELSE [m EXCEPT !.left = @ - 1]

Tick ==
    /\ (pc # "ended" /\ timer > 0) \/ (pc = "ended" /\ \E p \in Protocols : gateway[p].left > 0)
    /\ stop # "grace"
    /\ timer' = IF timer = 0 THEN 0 ELSE timer - 1
    /\ gateway' = [p \in Protocols |-> Aged(gateway[p])]
    /\ UNCHANGED <<shown, pacing, pc, exchange, stopping>>

PNext ==
    \/ Attempt \/ UdpAnswered \/ TcpAnswered \/ TimesOut \/ Ends
    \/ Stop \/ Waited \/ Unmap
    \/ Grant \/ Refuse \/ Lose \/ Tick

PSpec == PInit /\ [][PNext]_vars

-----------------------------------------------------------------------------
(* Properties *)

\* A stopped forwarder shows no port, though an attempt that was under way when
\* Stop gave up on it is answered later (setPort).
StoppedShowsNothing == stop = "done" => port = 0 /\ ~bothTCP

\* A port that is shown is mapped at the gateway, for each protocol that is
\* shown with it, whatever was lost or refused: before a mapping can lapse the
\* port is taken back (natPMPGraceAttempts against natPMPLifetime).
ShownPortIsMapped ==
    port # 0 /\ ~stopped =>
        \A p \in {"udp"} \cup (IF bothTCP THEN {"tcp"} ELSE {}) :
            gateway[p].port = port /\ gateway[p].left > 0

\* Once Stop is over the gateway keeps nothing of a forwarder that ever had a
\* port, unless Stop could not wait for the attempt under way or its deletions
\* were lost (Stop, "an orphaned mapping expires on its own").
StopReleases ==
    stop = "done" /\ held /\ ~abandoned /\ ~unanswered => \A p \in Protocols : gateway[p] = Unmapped
=============================================================================
