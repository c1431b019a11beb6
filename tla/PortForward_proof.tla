-------------------------- MODULE PortForward_proof --------------------------
(***************************************************************************)
(* Proofs about PortForward, for every lifetime, interval and number of    *)
(* attempts: a stopped forwarder shows nothing and, where it could, has    *)
(* released what it held; a port that is shown is mapped.                  *)
(***************************************************************************)
EXTENDS PortForward, Integers, TLAPS

\* What is shown before Stop.  A forwarder that never had a port shows none,
\* and the exchange for TCP has a UDP port behind it.
NeverMapped == ~everMapped => port = 0 /\ ~bothTCP
UdpFirst    == pc = "tcp" => granted # 0

\* What Stop knows: the flag is up as long as it works, and what it saw of
\* everMapped stays true, since setPort obeys the flag.
StopKnows ==
    /\ stopped <=> stop # "no"
    /\ stopped => held = everMapped

Shows == /\ NeverMapped /\ UdpFirst /\ StopKnows
         /\ StoppedShowsNothing

\* What Stop leaves: if it waited for run, nothing is mapped behind it, and
\* UDP goes before TCP.
Releases ==
    /\ stop \notin {"no", "grace"} /\ ~abandoned => pc = "ended"
    /\ stop \in {"tcp", "done"} /\ held /\ ~abandoned /\ ~unanswered
          => gateway["udp"] = Unmapped
    /\ stop = "done" /\ held /\ ~abandoned /\ ~unanswered
          => gateway["tcp"] = Unmapped
    /\ DOMAIN gateway = Protocols

-----------------------------------------------------------------------------
LEMMA ShowsInit == PInit => Shows
  BY DEF PInit, Shows, NeverMapped, UdpFirst, StopKnows, StoppedShowsNothing

\* An attempt that ends records what it found unless Stop has begun.
LEMMA FailedShows ==
  ASSUME Shows, Failed, UNCHANGED stopping
  PROVE  Shows'
<1>1. pc' = "wait" /\ UNCHANGED granted
  BY DEF Failed, Rest
<1>2. UNCHANGED shown \/ (~stopped /\ port' = 0 /\ bothTCP' = FALSE /\ everMapped' = (everMapped \/ FALSE))
  BY DEF Failed, setPort
<1>3. CASE UNCHANGED shown
  BY <1>1, <1>3 DEF Shows, NeverMapped, UdpFirst, StopKnows, StoppedShowsNothing, shown, stopping
<1>4. CASE ~stopped /\ port' = 0 /\ bothTCP' = FALSE /\ everMapped' = (everMapped \/ FALSE)
  BY <1>1, <1>4 DEF Shows, NeverMapped, UdpFirst, StopKnows, StoppedShowsNothing, stopping
<1> QED BY <1>2, <1>3, <1>4

LEMMA MappedShows ==
  ASSUME Shows, pc = "tcp", NEW both, Mapped(granted, both), UNCHANGED stopping
  PROVE  Shows'
<1>1. pc' = "wait" /\ UNCHANGED granted /\ granted # 0
  BY DEF Mapped, Rest, Shows, UdpFirst
<1>2. UNCHANGED shown \/ (~stopped /\ everMapped' = TRUE)
  BY <1>1 DEF Mapped, setPort
<1>3. CASE UNCHANGED shown
  BY <1>1, <1>3 DEF Shows, NeverMapped, UdpFirst, StopKnows, StoppedShowsNothing, shown, stopping
<1>4. CASE ~stopped /\ everMapped' = TRUE
  BY <1>1, <1>4 DEF Shows, NeverMapped, UdpFirst, StopKnows, StoppedShowsNothing, stopping
<1> QED BY <1>2, <1>3, <1>4

LEMMA ShowsStep == Shows /\ [PNext]_vars => Shows'
<1> SUFFICES ASSUME Shows, [PNext]_vars PROVE Shows' OBVIOUS
<1> USE DEF Shows, NeverMapped, UdpFirst, StopKnows, StoppedShowsNothing
<1>1. CASE Attempt
  <2>1. CASE stopped
    BY <1>1, <2>1, FailedShows DEF Attempt
  <2>2. CASE ~stopped
    BY <1>1, <2>2 DEF Attempt, Ask, shown, stopping
  <2> QED BY <2>1, <2>2
<1>2. CASE UdpAnswered
  <2>1. CASE answer = 0 \/ stopped
    BY <1>2, <2>1, FailedShows DEF UdpAnswered
  <2>2. CASE ~(answer = 0 \/ stopped)
    BY <1>2, <2>2 DEF UdpAnswered, Ask, shown, stopping
  <2> QED BY <2>1, <2>2
<1>3. CASE TcpAnswered
  BY <1>3, MappedShows DEF TcpAnswered
<1>4. CASE TimesOut
  <2>1. CASE pc = "udp"
    BY <1>4, <2>1, FailedShows DEF TimesOut
  <2>2. CASE pc # "udp"
    BY <1>4, <2>2, MappedShows DEF TimesOut, Protocols
  <2> QED BY <2>1, <2>2
<1>5. CASE Ends
  BY <1>5 DEF Ends, shown, exchange, stopping
<1>6. CASE Stop
  BY <1>6 DEF Stop, shown, exchange
<1>7. CASE Waited
  BY <1>7 DEF Waited, shown, exchange
<1>8. CASE Unmap
  BY <1>8 DEF Unmap, exchange, Protocols
<1>9. CASE Grant \/ Refuse \/ Lose \/ Tick
  BY <1>9 DEF Grant, Refuse, Lose, Tick, shown, exchange, stopping
<1>10. CASE UNCHANGED vars
  BY <1>10 DEF vars
<1> QED BY <1>1, <1>2, <1>3, <1>4, <1>5, <1>6, <1>7, <1>8, <1>9, <1>10 DEF PNext

\* Whatever the loop and the gateway were doing, a forwarder whose Stop is over
\* shows no port and claims no protocol (setPort, Stop).
THEOREM ShowsNothingOnceStopped == PSpec => []StoppedShowsNothing
<1>1. Shows => StoppedShowsNothing
  BY DEF Shows
<1> QED BY ShowsInit, ShowsStep, <1>1, PTL DEF PSpec

-----------------------------------------------------------------------------
LEMMA ReleasesInit == PInit => Releases
  BY DEF PInit, Releases

\* A mapping that is gone does not come back with time.
LEMMA AgedUnmapped == Aged(Unmapped) = Unmapped
  BY DEF Aged, Unmapped

LEMMA ReleasesStep == Releases /\ [PNext]_vars => Releases'
<1> SUFFICES ASSUME Releases, [PNext]_vars PROVE Releases' OBVIOUS
<1>1. CASE Attempt \/ UdpAnswered \/ TcpAnswered \/ TimesOut
  <2>1. UNCHANGED stopping /\ UNCHANGED gateway /\ pc # "ended"
    BY <1>1 DEF Attempt, UdpAnswered, TcpAnswered, TimesOut, Protocols
  <2> QED BY <2>1 DEF Releases, stopping
<1>2. CASE Ends
  BY <1>2 DEF Ends, Releases, stopping
<1>3. CASE Stop
  BY <1>3 DEF Stop, Releases
<1>4. CASE Waited
  BY <1>4 DEF Waited, Releases
<1>5. CASE Unmap
  BY <1>5 DEF Unmap, Releases, Protocols
<1>6. CASE Grant
  BY <1>6 DEF Grant, Releases, stopping, Protocols
<1>7. CASE Refuse \/ Lose
  BY <1>7 DEF Refuse, Lose, Releases, stopping
<1>8. CASE Tick
  <2>1. /\ UNCHANGED <<pc, stopping>>
        /\ gateway' = [p \in Protocols |-> Aged(gateway[p])]
    BY <1>8 DEF Tick
  <2>2. \A p \in Protocols : gateway[p] = Unmapped => gateway'[p] = Unmapped
    BY <2>1, AgedUnmapped
  <2> QED BY <2>1, <2>2 DEF Releases, stopping, Protocols
<1>9. CASE UNCHANGED vars
  BY <1>9 DEF vars, Releases
<1> QED BY <1>1, <1>2, <1>3, <1>4, <1>5, <1>6, <1>7, <1>8, <1>9 DEF PNext

\* A Stop that waited for the loop and was answered leaves no mapping of a
\* forwarder that had a port, for either protocol (Stop).
THEOREM StopReleasesMappings == PSpec => []StopReleases
<1>1. Releases => StopReleases
  BY DEF Releases, StopReleases, Protocols
<1> QED BY ReleasesInit, ReleasesStep, <1>1, PTL DEF PSpec

-----------------------------------------------------------------------------
(* A mapping outlives the attempts to renew it that may still fail *)

Round   == natPMPRenewEvery + natPMPTimeout
Room(n) == (natPMPGraceAttempts - n) * Round

PortTypes ==
    /\ failures \in Nat /\ timer \in Nat /\ backoff \in Nat
    /\ pc \in {"wait", "ended"} \cup Protocols
    /\ pc \in Protocols => timer <= natPMPTimeout
    /\ gateway \in [Protocols -> [port : Nat, left : Nat]]
    /\ port \in Nat /\ granted \in Nat /\ answer \in Nat

\* The gateway knows what it has just granted, and for how long.
Granted ==
    /\ pc = "tcp" =>
         /\ gateway["udp"].port = granted /\ granted # 0
         /\ gateway["udp"].left >= natPMPLifetime - 2 * natPMPTimeout + timer
         /\ port # 0 => port = granted
    /\ pc \in Protocols /\ datagram = "back" /\ answer # 0 =>
         /\ gateway[pc].port = answer
         /\ gateway[pc].left >= natPMPLifetime - natPMPTimeout + timer

\* What is shown lasts for the wait, the exchanges and the failures to come.
Lasts(p, spare) ==
    /\ gateway[p].port = port
    /\ CASE pc = "wait" -> gateway[p].left > timer + natPMPTimeout + spare + Room(failures + 1)
         [] pc = "udp"  -> gateway[p].left > timer + spare + Room(failures + 1)
         [] OTHER       -> gateway[p].left > timer

Renewed ==
    port # 0 =>
        /\ failures < natPMPGraceAttempts
        /\ Lasts("udp", 0)
        /\ bothTCP => Lasts("tcp", natPMPTimeout)

Running == ~stopped => /\ stop = "no" /\ pc # "ended"
                       /\ Granted /\ Renewed

LEMMA Rooms ==
  /\ Round \in Nat /\ Room(0) = natPMPGraceAttempts * Round
  /\ \A n \in Nat : /\ Room(n) \in Int
                    /\ n <= natPMPGraceAttempts => Room(n) >= 0 /\ Room(n) <= Room(0)
                    /\ Room(n) = Room(n + 1) + Round
<1>1. Round \in Nat /\ natPMPGraceAttempts \in Nat
  BY PortAssumption DEF Round
<1> DEFINE g == natPMPGraceAttempts
           r == Round
<1> HIDE DEF g, r
<1>2. g \in Nat /\ r \in Nat
  BY <1>1 DEF g, r
<1>3. \A n \in Nat : (g - n) * r = (g - (n + 1)) * r + r
  BY <1>2
<1>4. \A n \in Nat : n <= g => (g - n) * r >= 0
  BY <1>2
<1>5. \A n \in Nat : n <= g => (g - n) * r <= (g - 0) * r
  BY <1>2
<1> QED BY <1>1, <1>2, <1>3, <1>4, <1>5 DEF g, r, Room

LEMMA Times ==
  /\ natPMPLifetime \in Nat /\ natPMPRenewEvery \in Nat /\ natPMPTimeout \in Nat \ {0}
  /\ natPMPGraceAttempts \in Nat \ {0} /\ Ports \subseteq Nat \ {0}
  /\ natPMPRetryMin \in Nat /\ natPMPRetryMax \in Nat
  /\ Round = natPMPRenewEvery + natPMPTimeout
  /\ natPMPLifetime > Room(0) + 2 * natPMPTimeout
  BY PortAssumption, LifetimeAssumption, Rooms DEF Round

LEMMA NextRoom ==
  ASSUME NEW n \in Nat
  PROVE  /\ Room(n) = Room(n + 1) + natPMPRenewEvery + natPMPTimeout
         /\ Room(n) \in Int /\ Room(n + 1) \in Int
<1>1. n + 1 \in Nat
  OBVIOUS
<1>2. Room(n) \in Int /\ Room(n + 1) \in Int /\ Room(n) = Room(n + 1) + Round
  BY <1>1, Rooms
<1> QED BY <1>2, Times

LEMMA PortTypesInit == PInit => PortTypes /\ Running
<1> SUFFICES ASSUME PInit PROVE PortTypes /\ Running
  OBVIOUS
<1>1. \A p \in Protocols : gateway[p] = Unmapped /\ Unmapped \in [port : Nat, left : Nat]
  BY DEF PInit, Unmapped
<1> QED BY <1>1, Times DEF PInit, PortTypes, Running, Granted, Renewed, Protocols

\* A mapping grows older by one unit, until it lapses.
LEMMA Older ==
  ASSUME NEW m \in [port : Nat, left : Nat]
  PROVE  /\ Aged(m) \in [port : Nat, left : Nat]
         /\ m.left > 1 => Aged(m).port = m.port /\ Aged(m).left = m.left - 1
  BY DEF Aged, Unmapped

LEMMA PortTypesStep ==
  ASSUME PortTypes, [PNext]_vars
  PROVE  PortTypes'
<1> USE Times DEF PortTypes
<1>1. ASSUME Rest, port' \in Nat, PortTypes
      PROVE  pc' = "wait" /\ timer' \in Nat /\ backoff' \in Nat /\ UNCHANGED <<granted, answer>>
  BY <1>1 DEF Rest
<1>2. ASSUME Failed, UNCHANGED gateway PROVE PortTypes'
  <2>1. failures' \in Nat /\ port' \in Nat
    BY <1>2 DEF Failed, setPort, shown
  <2> QED BY <1>1, <1>2, <2>1 DEF Failed, Protocols
<1>3. ASSUME NEW both, Mapped(granted, both), UNCHANGED gateway PROVE PortTypes'
  <2>1. failures' \in Nat /\ port' \in Nat
    BY <1>3 DEF Mapped, setPort, shown
  <2> QED BY <1>1, <1>3, <2>1 DEF Mapped, Protocols
<1>4. ASSUME NEW p \in Protocols, Ask(p), granted' \in Nat, UNCHANGED gateway PROVE PortTypes'
  BY <1>4 DEF Ask, shown, pacing, Protocols
<1>5. CASE Attempt
  BY <1>2, <1>4, <1>5 DEF Attempt, Protocols
<1>6. CASE UdpAnswered
  BY <1>2, <1>4, <1>6 DEF UdpAnswered, Protocols
<1>7. CASE TcpAnswered
  BY <1>3, <1>7 DEF TcpAnswered
<1>8. CASE TimesOut
  BY <1>2, <1>3, <1>8 DEF TimesOut
<1>9. CASE Ends
  BY <1>9 DEF Ends, shown, pacing, exchange, Protocols
<1>10. CASE Stop \/ Waited \/ Refuse \/ Lose
  BY <1>10 DEF Stop, Waited, Refuse, Lose, shown, pacing, exchange
<1>11. CASE Unmap
  <2>1. gateway' \in [Protocols -> [port : Nat, left : Nat]]
    <3>1. Unmapped \in [port : Nat, left : Nat]
      BY DEF Unmapped
    <3> QED BY <1>11, <3>1 DEF Unmap
  <2>2. port' \in Nat
    BY <1>11 DEF Unmap
  <2> QED BY <1>11, <2>1, <2>2 DEF Unmap, pacing, exchange
<1>12. CASE Grant
  <2>1. PICK p \in IF gateway[pc].left > 0 THEN {gateway[pc].port} ELSE Ports :
          /\ gateway' = [gateway EXCEPT ![pc] = [port |-> p, left |-> natPMPLifetime]]
          /\ answer' = p
    BY <1>12 DEF Grant
  <2>2. p \in Nat
    BY <1>12, <2>1 DEF Grant
  <2>3. gateway' \in [Protocols -> [port : Nat, left : Nat]]
    BY <2>1, <2>2
  <2> QED BY <1>12, <2>1, <2>2, <2>3 DEF Grant, shown, pacing
<1>13. CASE Tick
  <2>1. gateway' = [p \in Protocols |-> Aged(gateway[p])]
    BY <1>13 DEF Tick
  <2>2. gateway' \in [Protocols -> [port : Nat, left : Nat]]
    BY <2>1, Older
  <2>3. timer' \in Nat /\ timer' <= timer
    BY <1>13 DEF Tick
  <2> QED BY <1>13, <2>2, <2>3 DEF Tick, shown, pacing, exchange
<1>14. CASE UNCHANGED vars
  BY <1>14 DEF vars
<1> QED
  BY <1>5, <1>6, <1>7, <1>8, <1>9, <1>10, <1>11, <1>12, <1>13, <1>14 DEF PNext

\* A failed attempt before the last one that is allowed leaves room for the
\* next; the last takes the port back.
LEMMA FailedRuns ==
  ASSUME PortTypes, Running, Failed, pc = "udp", ~stopped, UNCHANGED gateway, UNCHANGED stopping
  PROVE  Running'
<1>1. /\ pc' = "wait" /\ stop' = "no" /\ ~stopped' /\ failures' \in {failures, failures + 1}
      /\ port' # 0 => timer' = natPMPRenewEvery
  BY DEF Failed, Rest, Running, stopping
<1>2. Granted'
  BY <1>1 DEF Granted, Protocols
<1>3. ASSUME port' # 0 PROVE Renewed'
  <2>1. ~Lapsed(failures + 1) /\ UNCHANGED shown
    BY <1>3 DEF Failed, setPort
  <2>2. port' = port /\ bothTCP' = bothTCP /\ port # 0
    BY <1>3, <2>1 DEF shown
  <2>3. failures + 1 < natPMPGraceAttempts /\ failures' = failures + 1
    BY <2>1, Times DEF Lapsed, Failed, PortTypes
  <2>4. /\ Room(failures + 1) = Room(failures + 1 + 1) + natPMPRenewEvery + natPMPTimeout
        /\ Room(failures + 1) \in Int /\ Room(failures + 1 + 1) \in Int
    <3>1. failures + 1 \in Nat
      BY DEF PortTypes
    <3> QED BY <3>1, NextRoom
  <2>5. \A p \in Protocols, spare \in Nat : Lasts(p, spare) =>
           /\ gateway'[p].port = port'
           /\ gateway'[p].left > timer' + natPMPTimeout + spare + Room(failures' + 1)
    BY <1>1, <1>3, <2>2, <2>3, <2>4, Times DEF Lasts, PortTypes
  <2>6. Lasts("udp", 0)' /\ (bothTCP' => Lasts("tcp", natPMPTimeout)')
    BY <1>1, <2>2, <2>5, Times DEF Lasts, Protocols, Running, Renewed
  <2> QED BY <2>3, <2>6 DEF Renewed
<1> QED BY <1>1, <1>2, <1>3 DEF Running, Renewed

\* A successful attempt has just renewed what it will show.
LEMMA MappedRuns ==
  ASSUME PortTypes, Running, NEW both \in BOOLEAN, Mapped(granted, both), pc = "tcp", ~stopped,
         both => datagram = "back" /\ answer = granted,
         UNCHANGED gateway, UNCHANGED stopping
  PROVE  Running'
<1>1. /\ pc' = "wait" /\ stop' = "no" /\ ~stopped' /\ failures' = 0
      /\ port' = granted /\ bothTCP' = both /\ granted # 0 /\ timer' = natPMPRenewEvery
  BY DEF Mapped, setPort, Rest, Running, stopping, Granted
<1>2. Granted'
  BY <1>1 DEF Granted, Protocols
<1>3. /\ gateway["udp"].port = granted
      /\ gateway["udp"].left >= natPMPLifetime - 2 * natPMPTimeout + timer
      /\ both => /\ gateway["tcp"].port = granted
                 /\ gateway["tcp"].left >= natPMPLifetime - natPMPTimeout + timer
  BY <1>1 DEF Running, Granted, Protocols
<1>4. /\ Room(0) = Room(0 + 1) + natPMPRenewEvery + natPMPTimeout
      /\ Room(0 + 1) \in Int /\ Room(0) \in Int
  BY NextRoom
<1>5. gateway["udp"].left \in Nat /\ gateway["tcp"].left \in Nat /\ timer \in Nat
  BY DEF PortTypes, Protocols
<1>6. Lasts("udp", 0)' /\ (both => Lasts("tcp", natPMPTimeout)')
  BY <1>1, <1>3, <1>4, <1>5, Times DEF Lasts
<1> QED BY <1>1, <1>2, <1>6, Times DEF Running, Renewed

LEMMA RunningStep ==
  ASSUME PortTypes, Running, [PNext]_vars
  PROVE  Running'
<1>0. ASSUME stopped' PROVE Running'
  BY <1>0 DEF Running
<1> SUFFICES ASSUME ~stopped' PROVE Running'
  BY <1>0
<1>1. ~stopped /\ stop = "no" /\ pc # "ended" /\ Granted /\ Renewed
  <2>1. ~stopped
    BY DEF PNext, vars, Attempt, UdpAnswered, TcpAnswered, TimesOut, Ends, Stop, Waited, Unmap,
       Grant, Refuse, Lose, Tick, stopping
  <2> QED BY <2>1 DEF Running
<1>2. /\ timer \in Nat /\ gateway["udp"].left \in Nat /\ gateway["tcp"].left \in Nat
      /\ pc \in Protocols => timer <= natPMPTimeout
      /\ failures \in Nat
  BY DEF PortTypes, Protocols
<1>3. /\ Room(failures + 1) \in Int
      /\ port # 0 => Room(failures + 1) >= 0 /\ Room(failures + 1) <= Room(0)
  <2>1. failures + 1 \in Nat
    BY <1>2
  <2>2. port # 0 => failures + 1 <= natPMPGraceAttempts
    BY <1>1, <1>2, Times DEF Renewed
  <2> QED BY <2>1, <2>2, Rooms
<1>4. Room(0) \in Int /\ Room(0) >= 0
  BY Rooms, Times
<1>5. CASE Attempt
  <2>1. /\ pc = "wait" /\ timer = 0 /\ pc' = "udp" /\ timer' = natPMPTimeout /\ datagram' = "out"
        /\ UNCHANGED <<gateway, granted>> /\ UNCHANGED stopping /\ UNCHANGED shown /\ UNCHANGED pacing
    BY <1>1, <1>5 DEF Attempt, Ask
  <2>2. Granted'
    BY <2>1 DEF Granted
  <2>3. Renewed'
    BY <1>1, <1>2, <1>3, <2>1, Times DEF Renewed, Lasts, shown, pacing
  <2> QED BY <1>1, <2>1, <2>2, <2>3 DEF Running, stopping
<1>6. CASE UdpAnswered
  <2>1. CASE answer = 0
    BY <1>1, <1>6, <2>1, FailedRuns DEF UdpAnswered
  <2>2. CASE answer # 0
    <3>1. /\ pc = "udp" /\ datagram = "back" /\ pc' = "tcp" /\ timer' = natPMPTimeout
          /\ datagram' = "out" /\ granted' = answer /\ answer' = 0
          /\ UNCHANGED gateway /\ UNCHANGED stopping /\ UNCHANGED shown /\ UNCHANGED pacing
      BY <1>1, <1>6, <2>2 DEF UdpAnswered, Ask
    <3>2. gateway["udp"].port = answer /\ gateway["udp"].left >= natPMPLifetime - natPMPTimeout + timer
      BY <1>1, <2>2, <3>1 DEF Granted, Protocols
    <3>3. port # 0 => port = answer
      BY <1>1, <3>1, <3>2 DEF Renewed, Lasts
    <3>4. Granted'
      BY <1>2, <2>2, <3>1, <3>2, <3>3, Times DEF Granted, shown
    <3>5. Renewed'
      BY <1>1, <1>2, <1>3, <1>4, <3>1, <3>2, <3>3, Times DEF Renewed, Lasts, shown, pacing
    <3> QED BY <1>1, <3>1, <3>4, <3>5 DEF Running, stopping
  <2> QED BY <2>1, <2>2
<1>7. CASE TcpAnswered
  BY <1>1, <1>7, MappedRuns DEF TcpAnswered
<1>8. CASE TimesOut
  BY <1>1, <1>8, FailedRuns, MappedRuns DEF TimesOut, Protocols
<1>9. CASE Ends
  BY <1>1, <1>9 DEF Ends
<1>10. CASE Stop
  BY <1>10 DEF Stop
<1>11. CASE Waited \/ Unmap
  BY <1>1, <1>11 DEF Waited, Unmap, Protocols
<1>12. CASE Grant
  <2>1. PICK p \in IF gateway[pc].left > 0 THEN {gateway[pc].port} ELSE Ports :
          /\ gateway' = [gateway EXCEPT ![pc] = [port |-> p, left |-> natPMPLifetime]]
          /\ answer' = p
    BY <1>12 DEF Grant
  <2>2. /\ pc \in Protocols /\ datagram' = "back" /\ UNCHANGED <<pc, timer, granted>>
        /\ UNCHANGED stopping /\ UNCHANGED shown /\ UNCHANGED pacing
    BY <1>12 DEF Grant
  <2>3. /\ gateway'[pc].port = p /\ gateway'[pc].left = natPMPLifetime
        /\ \A q \in Protocols : q # pc => gateway'[q] = gateway[q]
        /\ gateway[pc].left > 0 => p = gateway[pc].port
    BY <2>1, <2>2 DEF PortTypes
  <2>4. Granted'
    BY <1>1, <1>2, <2>1, <2>2, <2>3, Times DEF Granted, Protocols, shown
  <2>5. ASSUME port # 0 PROVE Lasts("udp", 0)'
    <3>1. Lasts("udp", 0)
      BY <1>1, <2>5 DEF Renewed
    <3>2. CASE pc = "udp"
      BY <1>2, <1>3, <1>4, <2>2, <2>3, <2>5, <3>1, <3>2, Times DEF Lasts, shown, pacing
    <3>3. CASE pc = "tcp"
      BY <2>2, <2>3, <3>1, <3>3 DEF Lasts, shown, pacing, Protocols
    <3> QED BY <2>2, <3>2, <3>3 DEF Protocols
  <2>6. ASSUME port # 0, bothTCP PROVE Lasts("tcp", natPMPTimeout)'
    <3>1. Lasts("tcp", natPMPTimeout)
      BY <1>1, <2>6 DEF Renewed
    <3>2. CASE pc = "udp"
      BY <2>2, <2>3, <3>1, <3>2 DEF Lasts, shown, pacing, Protocols
    <3>3. CASE pc = "tcp"
      BY <1>2, <1>4, <2>2, <2>3, <3>1, <3>3, Times DEF Lasts, shown, pacing
    <3> QED BY <2>2, <3>2, <3>3 DEF Protocols
  <2>7. Renewed'
    BY <1>1, <2>2, <2>5, <2>6 DEF Renewed, shown, pacing
  <2> QED BY <1>1, <2>2, <2>4, <2>7 DEF Running, stopping
<1>13. CASE Refuse \/ Lose
  <2>1. /\ datagram' \in {"back", "lost"} /\ UNCHANGED <<pc, timer, granted, gateway>>
        /\ UNCHANGED stopping /\ UNCHANGED shown /\ UNCHANGED pacing
        /\ datagram' = "back" => answer' = 0
    BY <1>13 DEF Refuse, Lose
  <2>2. Granted'
    BY <1>1, <2>1 DEF Granted, shown
  <2>3. Renewed'
    BY <1>1, <2>1 DEF Renewed, Lasts, shown, pacing
  <2> QED BY <1>1, <2>1, <2>2, <2>3 DEF Running, stopping
<1>14. CASE Tick
  <2>1. /\ timer > 0 /\ timer' = timer - 1 /\ UNCHANGED pc /\ UNCHANGED exchange
        /\ UNCHANGED stopping /\ UNCHANGED shown /\ UNCHANGED pacing
        /\ \A p \in Protocols : gateway'[p] = Aged(gateway[p])
    BY <1>1, <1>2, <1>14 DEF Tick
  <2>2. \A p \in Protocols : gateway[p].left > 1 =>
           gateway'[p].port = gateway[p].port /\ gateway'[p].left = gateway[p].left - 1
    BY <2>1, Older DEF PortTypes
  <2>3. Granted'
    BY <1>1, <1>2, <1>4, <2>1, <2>2, Times DEF Granted, exchange, shown, Protocols
  <2>4. \A p \in Protocols, spare \in Nat : port # 0 /\ Lasts(p, spare) =>
           /\ gateway'[p].port = port
           /\ CASE pc = "wait" -> gateway'[p].left > timer' + natPMPTimeout + spare + Room(failures + 1)
                [] pc = "udp"  -> gateway'[p].left > timer' + spare + Room(failures + 1)
                [] OTHER       -> gateway'[p].left > timer'
    BY <1>2, <1>3, <2>1, <2>2, Times DEF Lasts, PortTypes
  <2>5. Renewed'
    BY <1>1, <2>1, <2>4, Times DEF Renewed, Lasts, shown, pacing, Protocols
  <2> QED BY <1>1, <2>1, <2>3, <2>5 DEF Running, stopping
<1>15. CASE UNCHANGED vars
  BY <1>1, <1>15 DEF vars, Running, Granted, Renewed, Lasts
<1> QED
  BY <1>5, <1>6, <1>7, <1>8, <1>9, <1>10, <1>11, <1>12, <1>13, <1>14, <1>15 DEF PNext

\* A port is shown only while the gateway still maps it, for each protocol that
\* is claimed: whatever datagrams are lost or refused, it is taken back before
\* the mapping lapses (natPMPGraceAttempts, natPMPRenewEvery, natPMPLifetime).
THEOREM NoStalePort == PSpec => []ShownPortIsMapped
<1>1. PortTypes /\ Running /\ [PNext]_vars => (PortTypes /\ Running)'
  BY PortTypesStep, RunningStep
<1>2. PortTypes /\ Running => ShownPortIsMapped
  <2> SUFFICES ASSUME PortTypes, Running, port # 0, ~stopped,
                      NEW p \in {"udp"} \cup (IF bothTCP THEN {"tcp"} ELSE {})
               PROVE  gateway[p].port = port /\ gateway[p].left > 0
    BY DEF ShownPortIsMapped
  <2>1. Lasts(p, IF p = "udp" THEN 0 ELSE natPMPTimeout) /\ failures < natPMPGraceAttempts
    BY DEF Running, Renewed
  <2>2. failures + 1 \in Nat /\ failures + 1 <= natPMPGraceAttempts
    BY <2>1, Times DEF PortTypes
  <2>3. Room(failures + 1) \in Int /\ Room(failures + 1) >= 0
    BY <2>2, Rooms
  <2>4. p \in Protocols /\ timer \in Nat /\ gateway[p].left \in Nat
    BY DEF Protocols, PortTypes
  <2> QED BY <2>1, <2>3, <2>4, Times DEF Lasts
<1> QED BY PortTypesInit, <1>1, <1>2, PTL DEF PSpec
=============================================================================
