-------------------------- MODULE Connection_proof --------------------------
(***************************************************************************)
(* Proofs about Connection, for every set of connections and callers and   *)
(* every value of the other constants.                                     *)
(*                                                                         *)
(* Three layers, each inductive given the ones before it:                  *)
(*   TInv   types, and the connection each goroutine works on;             *)
(*   Roles  which labels callers and monitors reach, and that one caller   *)
(*          at a time is inside Connect for a given connection;            *)
(*   Kept   MonitorStoppable, and that sysctl values are in a goroutine's  *)
(*          hands only in teardown; on top of it every step keeps          *)
(*          SysctlRecoverable.                                             *)
(* Each layer has one lemma per action and one for Next.                   *)
(*                                                                         *)
(* Then what a Connection holds and leaves behind.                         *)
(*                                                                         *)
(* First its own fields, for any number of connections and callers:        *)
(* whoever dials, fails or disconnects clears them on the way out, however *)
(* the monitor's own teardown overlaps with a Disconnect.                  *)
(*                                                                         *)
(* Then the host, for any number of callers but one Connection object      *)
(* (OneConnection): every object edits the same table, device, rules and   *)
(* resolver file, so with two at work none of this is true, and the daemon *)
(* is what keeps them apart.  Three layers, each an inductive invariant    *)
(* over the ones before: the network (Net), the sysctls (Sys) and the kill *)
(* switch table (Tab).  Each has a part on the fields (NetOK, ...) and a   *)
(* part on every goroutine's place (NetAt, ...), both given up once a call *)
(* has raced with a reconnect (raced).                                     *)
(***************************************************************************)
EXTENDS Connection, TLAPS

\* A goroutine at work has a connection, and a monitor has its own.
TargetOK ==
    /\ \A t \in Thread : pc[t] # "idle" => arg[t].conn \in Conn
    /\ \A c \in Conn : pc[c] # "idle" => arg[c].conn = c

TInv == TypeOK /\ TargetOK

\* Every operation on the host keeps it a host state.
LEMMA HostOps ==
  ASSUME NEW h \in HostState
  PROVE  /\ ShieldOff(h) \in HostState
         /\ \A c \in Conn : ShieldOn(h, c) \in HostState
         /\ WriteFlag(h) \in HostState
         /\ LinkDel(h) \in HostState
         /\ \A i \in IfIndex : LinkAdd(h, i) \in HostState
         /\ \A i \in Link : LinkDrop(h, i) \in HostState
         /\ RoutesOff(h) \in HostState
         /\ \A i \in IfIndex : RoutesOn(h, i) \in HostState
         /\ DNSOn(h) \in HostState
         /\ DNSOff(h) \in HostState
         /\ Harden(h) \in HostState
         /\ \A s \in Hardener : Relax(h, s) \in HostState
         /\ ApplySaves(h) \in Hardener
<1> USE DEF HostState, Link, NoLink
<1>1. ShieldOff(h) \in HostState
  BY DEF ShieldOff
<1>2. \A c \in Conn : ShieldOn(h, c) \in HostState
  BY DEF ShieldOn
<1>3. WriteFlag(h) \in HostState
  BY DEF WriteFlag
<1>4. LinkDel(h) \in HostState
  BY DEF LinkDel
<1>5. \A i \in IfIndex : LinkAdd(h, i) \in HostState
  BY DEF LinkAdd
<1>6. \A i \in Link : LinkDrop(h, i) \in HostState
  BY <1>4 DEF LinkDrop
<1>7. RoutesOff(h) \in HostState
  BY DEF RoutesOff
<1>8. \A i \in IfIndex : RoutesOn(h, i) \in HostState
  BY DEF RoutesOn
<1>9. DNSOn(h) \in HostState
  BY DEF DNSOn
<1>10. DNSOff(h) \in HostState
  BY DEF DNSOff
<1>11. Harden(h) \in HostState
  BY DEF Harden
<1>12. \A s \in Hardener : Relax(h, s) \in HostState
  BY DEF Relax
<1>13. ApplySaves(h) \in Hardener
  BY DEF ApplySaves, Hardener
<1> QED
  BY <1>1, <1>2, <1>3, <1>4, <1>5, <1>6, <1>7, <1>8, <1>9, <1>10, <1>11, <1>12, <1>13

\* The initial states are well typed.
LEMMA InitType == Init => TInv
<1> SUFFICES ASSUME Init PROVE TInv
  OBVIOUS
<1>1. host \in HostState
  <2>1. CleanHost \in HostState
    BY DEF CleanHost, HostState, Link, NoLink
  <2>2. [CleanHost EXCEPT !.table = BootTable, !.flag = TRUE] \in HostState
    BY <2>1 DEF HostState
  <2> QED
    BY <2>1, <2>2 DEF Init
<1>2. FieldsOK
  BY DEF Init, FieldsOK, State, Hardener, Link, NoLink
<1>3. LocalsOK
  <2>1. NoArg \in Arg
    BY DEF NoArg, Arg, Proto, Link, NoLink
  <2>2. NoSnap \in Snap
    BY DEF NoSnap, Snap, Hardener, Link, NoLink
  <2> QED
    BY <2>1, <2>2 DEF Init, LocalsOK, PC, Ret
<1>4. net \in BOOLEAN /\ faults \in Nat
  BY ConnectionAssumption DEF Init
<1> QED
  BY <1>1, <1>2, <1>3, <1>4 DEF TInv, TypeOK, TargetOK, Init, Thread

\* Entering teardown keeps the locals well typed and the targets.
LEMMA CallTeardownType ==
  ASSUME LocalsOK, NEW t \in Thread, NEW keep \in BOOLEAN, NEW next \in Ret,
         CallTeardown(t, keep, next)
  PROVE  LocalsOK' /\ \A u \in Thread : arg'[u].conn = arg[u].conn
<1>1. pc' \in [Thread -> PC] /\ ret' \in [Thread -> Ret]
  <2>1. "teardown" \in PC
    BY DEF PC, TearingDown
  <2> QED
    BY <2>1 DEF LocalsOK, CallTeardown, Goto
<1>2. arg' \in [Thread -> Arg] 
  BY DEF LocalsOK, CallTeardown, Arg, Link, NoLink
<1>3. snap' \in [Thread -> Snap]
  BY DEF LocalsOK, CallTeardown, Snap
<1>4. \A u \in Thread : arg'[u].conn = arg[u].conn
  BY DEF LocalsOK, CallTeardown, Arg
<1> QED
  BY <1>1, <1>2, <1>3, <1>4 DEF LocalsOK

\* So does ending a goroutine.
LEMMA FinishType ==
  ASSUME LocalsOK, TargetOK, NEW t \in Thread, Finish(t)
  PROVE  LocalsOK' /\ TargetOK'
<1>1. NoArg \in Arg
  BY DEF NoArg, Arg, Proto, Link, NoLink
<1>2. NoSnap \in Snap
  BY DEF NoSnap, Snap, Hardener, Link, NoLink
<1>3. LocalsOK'
  BY <1>1, <1>2 DEF LocalsOK, Finish, Goto, PC, Ret
<1>4. TargetOK'
  <2>1. \A u \in Thread : u # t => pc'[u] = pc[u] /\ arg'[u] = arg[u]
    BY DEF Finish, Goto, LocalsOK
  <2>2. pc'[t] = "idle"
    BY DEF Finish, Goto, LocalsOK
  <2> QED
    BY <2>1, <2>2 DEF TargetOK, Thread
<1> QED
  BY <1>3, <1>4

\* So does a failure of doConnect.
LEMMA ConnectErrorType ==
  ASSUME LocalsOK, NEW t \in Thread, ConnectError(t)
  PROVE  LocalsOK' /\ \A u \in Thread : arg'[u].conn = arg[u].conn
<1>1. arg[t].has \in BOOLEAN
  BY DEF LocalsOK, Arg
<1>2. (IF ret[t] = "connect" THEN "connectFailed" ELSE "attemptFailed") \in Ret
  BY DEF Ret
<1> QED
  BY <1>1, <1>2, CallTeardownType DEF ConnectError

\* A step of doConnect that fails and changes nothing on the host.
LEMMA StepFailsType ==
  ASSUME TInv, NEW t \in Thread, pc[t] # "idle", StepFails(t)
  PROVE  /\ LocalsOK' /\ TargetOK' /\ host' \in HostState /\ faults' \in Nat
<1>1. LocalsOK' /\ \A u \in Thread : arg'[u].conn = arg[u].conn
  BY ConnectErrorType DEF StepFails, TInv, TypeOK
<1>2. faults' \in Nat
  BY DEF StepFails, Fault, TInv, TypeOK
<1>3. TargetOK'
  BY <1>1 DEF TInv, TypeOK, LocalsOK, TargetOK, StepFails, ConnectError, CallTeardown, Goto, Thread
<1> QED
  BY <1>1, <1>2, <1>3 DEF StepFails, TInv, TypeOK

\* A step of doConnect that succeeds.
LEMMA AdvanceType ==
  ASSUME TInv, NEW t \in Thread, pc[t] # "idle", NEW label \in PC \ {"idle"}, Advance(t, label)
  PROVE  /\ LocalsOK' /\ TargetOK' /\ faults' \in Nat
<1>1. LocalsOK'
  BY DEF Advance, Goto, TInv, TypeOK, LocalsOK
<1>3. TargetOK'
  BY <1>1 DEF TInv, TypeOK, LocalsOK, TargetOK, Advance, Goto, Thread
<1> QED
  BY <1>1, <1>3 DEF Advance, TInv, TypeOK

\* A failing doConnect keeps its target.
LEMMA ConnectErrorTarget ==
  ASSUME TInv, NEW t \in Thread, pc[t] # "idle", ConnectError(t)
  PROVE  LocalsOK' /\ TargetOK'
<1>1. LocalsOK' /\ \A u \in Thread : arg'[u].conn = arg[u].conn
  BY ConnectErrorType DEF TInv, TypeOK
<1> QED
  BY <1>1
  DEF ConnectError, CallTeardown, Goto, TInv, TypeOK, LocalsOK, TargetOK, Thread

\* Entering teardown keeps the target.
LEMMA TeardownCallTarget ==
  ASSUME TInv, NEW t \in Thread, pc[t] # "idle", NEW keep \in BOOLEAN, NEW next \in Ret,
         CallTeardown(t, keep, next)
  PROVE  LocalsOK' /\ TargetOK'
<1>1. LocalsOK' /\ \A u \in Thread : arg'[u].conn = arg[u].conn
  BY CallTeardownType DEF TInv, TypeOK
<1> QED
  BY <1>1 DEF CallTeardown, Goto, TInv, TypeOK, LocalsOK, TargetOK, Thread

\* A goroutine that only moves to another label.
LEMMA GotoType ==
  ASSUME TInv, NEW t \in Thread, pc[t] # "idle", NEW label \in PC,
         Goto(t, label), UNCHANGED <<ret, arg, snap>>
  PROVE  LocalsOK' /\ TargetOK'
<1>1. LocalsOK'
  BY DEF Goto, TInv, TypeOK, LocalsOK
<1>2. TargetOK'
  BY DEF Goto, TInv, TypeOK, LocalsOK, TargetOK, Thread
<1> QED
  BY <1>1, <1>2

\* The locals a call or a reconnect starts with.
LEMMA FreshArgType ==
  ASSUME NEW c \in Conn
  PROVE  /\ [NoArg EXCEPT !.conn = c] \in Arg
         /\ \A k \in BOOLEAN : [NoArg EXCEPT !.conn = c, !.ks = k] \in Arg
         /\ \A p \in Proto : [NoArg EXCEPT !.conn = c, !.proto = p] \in Arg
         /\ \A k, h \in BOOLEAN, p \in Proto :
               [NoArg EXCEPT !.conn = c, !.ks = k, !.has = h, !.proto = p] \in Arg
  BY DEF NoArg, Arg, Proto, Link, NoLink

-----------------------------------------------------------------------------
(* doConnect and its callers. *)

USE DEF TInv, TypeOK, slots, memory, control, history

\* Connect keeps types and targets.
LEMMA ConnectT ==
  ASSUME TInv, NEW t \in Thread, NEW c \in Conn, Connect(t, c)
  PROVE  TInv'
<1>1. FieldsOK'
  BY DEF Connect, FieldsOK, State
<1>2. PICK p \in Proto \cup {"smart"}, k \in BOOLEAN :
        arg' = [arg EXCEPT ![t] =
                  [NoArg EXCEPT !.conn = c, !.ks = k, !.has = ks[c],
                                !.proto = IF p = "smart" THEN "wireguard" ELSE p]]
  BY DEF Connect
<1> DEFINE a == [NoArg EXCEPT !.conn = c, !.ks = k, !.has = ks[c],
                              !.proto = IF p = "smart" THEN "wireguard" ELSE p]
<1>3. a \in Arg /\ a.conn = c
  <2>1. ks[c] \in BOOLEAN
    BY DEF FieldsOK
  <2>2. (IF p = "smart" THEN "wireguard" ELSE p) \in Proto
    BY DEF Proto
  <2>3. a \in Arg
    BY <2>1, <2>2, FreshArgType
  <2>4. a.conn = c
    BY DEF NoArg
  <2> QED
    BY <2>3, <2>4
<1> HIDE DEF a
<1>4. LocalsOK'
  <2>1. pc' \in [Thread -> PC]
    BY DEF Connect, Goto, LocalsOK, PC, Dialing
  <2>2. ret' \in [Thread -> Ret]
    BY DEF Connect, LocalsOK, Ret
  <2>3. arg' \in [Thread -> Arg]
    BY <1>2, <1>3 DEF LocalsOK, a
  <2>4. snap' = snap
    BY DEF Connect
  <2> QED
    BY <2>1, <2>2, <2>3, <2>4 DEF LocalsOK
<1>5. TargetOK'
  BY <1>2, <1>3, ConnectionAssumption
  DEF Connect, Goto, LocalsOK, TargetOK, Thread, a
<1> QED
  BY <1>1, <1>4, <1>5 DEF Connect

\* SmartFallback keeps types and targets.
LEMMA SmartFallbackT ==
  ASSUME TInv, NEW t \in Thread, SmartFallback(t)
  PROVE  TInv'
<1>1. Target(t) \in Conn
  BY DEF SmartFallback, Target, TargetOK
<1>2. FieldsOK'
  BY <1>1 DEF SmartFallback, FieldsOK, State
<1>3. CASE Finish(t)
  <2>1. LocalsOK' /\ TargetOK'
    BY <1>3, FinishType
  <2>2. faults' \in Nat /\ host' = host /\ net' = net
    BY <1>3 DEF SmartFallback, Fault
  <2> QED
    BY <1>2, <2>1, <2>2
<1>4. CASE arg' = [arg EXCEPT ![t].proto = "stealth", ![t].has = ks[Target(t)],
                              ![t].cred = "good"]
           /\ Goto(t, "shield") /\ ret' = [ret EXCEPT ![t] = "connect"]
           /\ UNCHANGED <<snap, ref, faults>>
  <2>1. ks[Target(t)] \in BOOLEAN
    BY <1>1 DEF FieldsOK
  <2>2. arg' \in [Thread -> Arg] /\ \A u \in Thread : arg'[u].conn = arg[u].conn
    <3> DEFINE a == [arg[t] EXCEPT !.proto = "stealth", !.has = ks[Target(t)],
                                   !.cred = "good"]
    <3>1. arg[t] \in Arg
      BY DEF LocalsOK
    <3>2. a \in Arg /\ a.conn = arg[t].conn
      BY <2>1, <3>1 DEF Arg, Proto
    <3>3. arg' = [arg EXCEPT ![t] = a]
      BY <1>4
    <3> QED
      BY <3>2, <3>3 DEF LocalsOK
  <2>3. LocalsOK'
    BY <1>4, <2>2 DEF LocalsOK, Goto, PC, Ret, Dialing
  <2>4. TargetOK'
    BY <1>4, <2>2 DEF LocalsOK, Goto, TargetOK, Thread, SmartFallback
  <2> QED
    BY <1>2, <1>4, <2>3, <2>4 DEF SmartFallback
<1> QED
  BY <1>3, <1>4 DEF SmartFallback

\* ShieldDown keeps types and targets.
LEMMA ShieldDownT ==
  ASSUME TInv, NEW t \in Thread, ShieldDown(t)
  PROVE  TInv'
<1>1. FieldsOK'
  BY DEF ShieldDown, FieldsOK
<1>2. LocalsOK' /\ TargetOK' /\ faults' \in Nat
  BY AdvanceType, StepFailsType DEF ShieldDown, PC, Dialing
<1>3. host' \in HostState
  BY HostOps, StepFailsType DEF ShieldDown
<1> QED
  BY <1>1, <1>2, <1>3 DEF ShieldDown

\* ApplyRules keeps types and targets.
LEMMA ApplyRulesT ==
  ASSUME TInv, NEW t \in Thread, ApplyRules(t)
  PROVE  TInv'
<1>1. Target(t) \in Conn
  BY DEF ApplyRules, Target, TargetOK
<1>2. FieldsOK'
  BY DEF ApplyRules, FieldsOK
<1>3. LocalsOK' /\ TargetOK' /\ faults' \in Nat
  BY AdvanceType, StepFailsType DEF ApplyRules, PC, Dialing
<1>4. host' \in HostState
  BY <1>1, HostOps, StepFailsType DEF ApplyRules
<1> QED
  BY <1>2, <1>3, <1>4 DEF ApplyRules

\* SeedAPIs keeps types and targets.
LEMMA SeedAPIsT ==
  ASSUME TInv, NEW t \in Thread, SeedAPIs(t)
  PROVE  TInv'
<1>1. FieldsOK'
  BY DEF SeedAPIs, FieldsOK
<1>2. LocalsOK' /\ TargetOK' /\ faults' \in Nat /\ host' \in HostState
  <2>1. CASE Advance(t, "harden") /\ host' = WriteFlag(host)
    BY <2>1, AdvanceType, HostOps DEF SeedAPIs, PC, Dialing
  <2>2. CASE Fault /\ Goto(t, "harden") /\ UNCHANGED <<host, ret, arg, snap>>
    BY <2>2 DEF SeedAPIs, Fault, Goto, LocalsOK, TargetOK, PC, Dialing, Thread
  <2>3. CASE StepFails(t)
    BY <2>3, StepFailsType DEF SeedAPIs
  <2>4. CASE ConnectError(t) /\ UNCHANGED <<host, ks, faults>>
    BY <2>4, ConnectErrorTarget DEF SeedAPIs
  <2> QED
    BY <2>1, <2>2, <2>3, <2>4 DEF SeedAPIs
<1> QED
  BY <1>1, <1>2 DEF SeedAPIs

\* HardenHost keeps types and targets.
LEMMA HardenHostT ==
  ASSUME TInv, NEW t \in Thread, HardenHost(t)
  PROVE  TInv'
<1>1. FieldsOK' /\ host' \in HostState
  BY HostOps DEF HardenHost, FieldsOK
<1>2. LocalsOK' /\ TargetOK' /\ faults' \in Nat
  BY AdvanceType DEF HardenHost, PC, Dialing
<1> QED
  BY <1>1, <1>2 DEF HardenHost

\* BringUpTunnel keeps types and targets.
LEMMA BringUpTunnelT ==
  ASSUME TInv, NEW t \in Thread, BringUpTunnel(t)
  PROVE  TInv'
<1> DEFINE base == IF arg[t].proto = "wireguard" THEN LinkDel(host) ELSE host
<1>1. base \in HostState
  BY HostOps
<1>2. CASE \E i \in IfIndex :
             /\ host' = LinkAdd(base, i)
             /\ tun' = [tun EXCEPT ![Target(t)] = i]
             /\ arg' = [arg EXCEPT ![t].link = i]
             /\ Goto(t, "routes")
             /\ UNCHANGED <<ret, snap, faults>>
  <2>1. PICK i \in IfIndex :
             /\ host' = LinkAdd(base, i)
             /\ tun' = [tun EXCEPT ![Target(t)] = i]
             /\ arg' = [arg EXCEPT ![t].link = i]
             /\ Goto(t, "routes")
             /\ UNCHANGED <<ret, snap, faults>>
    BY <1>2
  <2>2. host' \in HostState
    BY <1>1, <2>1, HostOps
  <2>3. FieldsOK'
    BY <2>1 DEF BringUpTunnel, FieldsOK, Link
  <2>4. arg' \in [Thread -> Arg] /\ \A u \in Thread : arg'[u].conn = arg[u].conn
    BY <2>1 DEF LocalsOK, Arg, Link
  <2>5. LocalsOK'
    BY <2>1, <2>4 DEF LocalsOK, Goto, PC, Dialing
  <2>6. TargetOK'
    BY <2>1, <2>4 DEF LocalsOK, Goto, TargetOK, Thread, BringUpTunnel
  <2> QED
    BY <2>1, <2>2, <2>3, <2>5, <2>6 DEF BringUpTunnel
<1>3. CASE /\ host' = base
           /\ ConnectError(t)
           /\ faults' \in Nat
           /\ UNCHANGED tun
  <2>1. FieldsOK'
    BY <1>3 DEF BringUpTunnel, FieldsOK
  <2>2. LocalsOK' /\ TargetOK'
    BY <1>3, ConnectErrorTarget DEF BringUpTunnel
  <2> QED
    BY <1>1, <1>3, <2>1, <2>2 DEF BringUpTunnel
<1> QED
  BY <1>2, <1>3 DEF BringUpTunnel, Fault

\* SetUpRoutes keeps types and targets.
LEMMA SetUpRoutesT ==
  ASSUME TInv, NEW t \in Thread, SetUpRoutes(t)
  PROVE  TInv'
<1>1. CASE /\ host.link = arg[t].link
           /\ host' = RoutesOn(host, arg[t].link)
           /\ routes' = [routes EXCEPT ![Target(t)] = TRUE]
           /\ Advance(t, "agent")
  <2>1. arg[t].link \in Link
    BY DEF LocalsOK, Arg
  <2>2. host' \in HostState
    BY <1>1, <2>1 DEF RoutesOn, HostState
  <2>3. FieldsOK'
    BY <1>1 DEF SetUpRoutes, FieldsOK
  <2>4. LocalsOK' /\ TargetOK' /\ faults' \in Nat
    BY <1>1, AdvanceType DEF SetUpRoutes, PC, Dialing
  <2> QED
    BY <2>2, <2>3, <2>4 DEF SetUpRoutes
<1>2. CASE /\ host' = RoutesOff(host)
           /\ ConnectError(t)
           /\ faults' \in Nat
           /\ UNCHANGED routes
  <2>1. FieldsOK' /\ host' \in HostState
    BY <1>2, HostOps DEF SetUpRoutes, FieldsOK
  <2>2. LocalsOK' /\ TargetOK'
    BY <1>2, ConnectErrorTarget DEF SetUpRoutes
  <2> QED
    BY <1>2, <2>1, <2>2 DEF SetUpRoutes
<1> QED
  BY <1>1, <1>2 DEF SetUpRoutes, Fault

\* WaitLocalAgent keeps types and targets.
LEMMA WaitLocalAgentT ==
  ASSUME TInv, NEW t \in Thread, WaitLocalAgent(t)
  PROVE  TInv'
<1>1. FieldsOK' /\ host' \in HostState
  BY DEF WaitLocalAgent, FieldsOK
<1>2. CASE /\ Goto(t, "dns")
           /\ arg' = [arg EXCEPT ![t].link = NoLink]
           /\ UNCHANGED <<ret, snap, faults>>
  <2>1. arg' \in [Thread -> Arg] /\ \A u \in Thread : arg'[u].conn = arg[u].conn
    BY <1>2 DEF LocalsOK, Arg, Link, NoLink
  <2>2. LocalsOK'
    BY <1>2, <2>1 DEF LocalsOK, Goto, PC, Dialing
  <2>3. TargetOK'
    BY <1>2, <2>1 DEF LocalsOK, Goto, TargetOK, Thread, WaitLocalAgent
  <2> QED
    BY <1>1, <1>2, <2>2, <2>3 DEF WaitLocalAgent
<1>3. CASE ConnectError(t) /\ faults' \in Nat
  BY <1>1, <1>3, ConnectErrorTarget DEF WaitLocalAgent
<1> QED
  BY <1>2, <1>3 DEF WaitLocalAgent, Fault

\* TakeOverDNS keeps types and targets.
LEMMA TakeOverDNST ==
  ASSUME TInv, NEW t \in Thread, TakeOverDNS(t)
  PROVE  TInv'
<1>1. FieldsOK'
  BY DEF TakeOverDNS, FieldsOK
<1>2. LocalsOK' /\ TargetOK' /\ faults' \in Nat
  BY AdvanceType, StepFailsType DEF TakeOverDNS, PC, Dialing
<1>3. host' \in HostState
  BY HostOps, StepFailsType DEF TakeOverDNS
<1> QED
  BY <1>1, <1>2, <1>3 DEF TakeOverDNS

\* PersistBootState keeps types and targets.
LEMMA PersistBootStateT ==
  ASSUME TInv, NEW t \in Thread, PersistBootState(t)
  PROVE  TInv'
<1>1. FieldsOK' /\ host' \in HostState
  BY HostOps DEF PersistBootState, FieldsOK
<1>2. LocalsOK' /\ TargetOK' /\ faults' \in Nat
  BY AdvanceType DEF PersistBootState, PC, Dialing
<1> QED
  BY <1>1, <1>2 DEF PersistBootState

\* Connected keeps types and targets.
LEMMA ConnectedT ==
  ASSUME TInv, NEW t \in Thread, Connected(t)
  PROVE  TInv'
<1>1. arg[t].cred \in {"good", "bad"}
  BY DEF LocalsOK, Arg
<1>2. FieldsOK'
  BY <1>1 DEF Connected, FieldsOK, State
<1>3. LocalsOK' /\ TargetOK' /\ faults' \in Nat
  BY AdvanceType DEF Connected, PC, Dialing
<1> QED
  BY <1>2, <1>3 DEF Connected

\* StartMonitor keeps types and targets.
LEMMA StartMonitorT ==
  ASSUME TInv, NEW t \in Thread, StartMonitor(t)
  PROVE  TInv'
<1> DEFINE c == Target(t)
           a == [NoArg EXCEPT !.conn = c, !.proto = arg[t].proto]
<1>1. c \in Conn
  BY DEF StartMonitor, Target, TargetOK
<1>2. FieldsOK'
  BY <1>1, ConnectionAssumption DEF StartMonitor, FieldsOK, InstallsCancel
<1>3. a \in Arg /\ a.conn = c
  <2>1. arg[t].proto \in Proto
    BY DEF LocalsOK, Arg
  <2> QED
    BY <1>1, <2>1, FreshArgType DEF NoArg
<1>4. NoArg \in Arg
  BY DEF NoArg, Arg, Proto, Link, NoLink
<1>5. pc' \in [Thread -> PC] /\ ret' \in [Thread -> Ret] /\ snap' \in [Thread -> Snap]
  BY DEF StartMonitor, LocalsOK, PC, Ret
<1>6. arg' = [arg EXCEPT ![t] = NoArg, ![c] = a]
  BY DEF StartMonitor
<1>7. arg' \in [Thread -> Arg]
  BY <1>3, <1>4, <1>6 DEF LocalsOK
<1>8. TargetOK'
  <2>1. c \in Thread
    BY <1>1 DEF Thread
  <2>2. \A u \in Thread \ {t, c} : pc'[u] = pc[u] /\ arg'[u] = arg[u]
    BY <1>6 DEF StartMonitor, LocalsOK
  <2>3. t # c => pc'[t] = "idle"
    BY <2>1 DEF StartMonitor, LocalsOK
  <2>4. arg'[c].conn = c
    BY <1>3, <1>6, <2>1 DEF LocalsOK
  <2> HIDE DEF c, a
  <2> QED
    BY <1>1, <2>1, <2>2, <2>3, <2>4 DEF TargetOK, Thread
<1> QED
  BY <1>2, <1>5, <1>7, <1>8 DEF StartMonitor, LocalsOK

-----------------------------------------------------------------------------
(* teardown. *)

\* TearDown keeps types and targets.
LEMMA TearDownT ==
  ASSUME TInv, NEW t \in Thread, TearDown(t)
  PROVE  TInv'
<1> DEFINE c == Target(t)
           r == [ keep |-> snap[t].keep, ks |-> ks[c], routes |-> routes[c],
                  tun |-> tun[c],
                  saved |-> IF TakesHardener(t) THEN hard[c] ELSE "nil",
                  err |-> FALSE ]
<1>1. c \in Conn
  BY DEF TearDown, Target, TargetOK
<1>2. FieldsOK' /\ host' \in HostState
  BY DEF TearDown, FieldsOK, Hardener
<1>3. r \in Snap
  BY <1>1 DEF FieldsOK, LocalsOK, Snap, Hardener
<1>4. snap' \in [Thread -> Snap]
  <2>1. snap' = [snap EXCEPT ![t] = r]
    BY DEF TearDown
  <2> QED
    BY <1>3, <2>1 DEF LocalsOK
<1>5. LocalsOK' /\ TargetOK'
  BY <1>4 DEF TearDown, Goto, LocalsOK, TargetOK, PC, TearingDown, Thread
<1> QED
  BY <1>2, <1>5 DEF TearDown

\* DropShield keeps types and targets.
LEMMA DropShieldT ==
  ASSUME TInv, NEW t \in Thread, DropShield(t)
  PROVE  TInv'
<1>1. FieldsOK' /\ host' \in HostState
  BY HostOps DEF DropShield, FieldsOK
<1>2. LocalsOK' /\ TargetOK' /\ faults' \in Nat
  BY AdvanceType DEF DropShield, PC, TearingDown
<1> QED
  BY <1>1, <1>2 DEF DropShield

\* GiveBackDNS keeps types and targets.
LEMMA GiveBackDNST ==
  ASSUME TInv, NEW t \in Thread, GiveBackDNS(t)
  PROVE  TInv'
<1>1. FieldsOK' /\ host' \in HostState
  BY HostOps DEF GiveBackDNS, FieldsOK
<1>2. LocalsOK' /\ TargetOK' /\ faults' \in Nat
  BY AdvanceType DEF GiveBackDNS, PC, TearingDown
<1> QED
  BY <1>1, <1>2 DEF GiveBackDNS

\* An undo step, with or without an error.
LEMMA UndoneType ==
  ASSUME TInv, NEW t \in Thread, pc[t] # "idle", NEW label \in PC \ {"idle"},
         NEW stale \in BOOLEAN, Undone(t, label, stale)
  PROVE  LocalsOK' /\ TargetOK' /\ faults' \in Nat
<1>1. snap' \in [Thread -> Snap]
  <2>1. snap \in [Thread -> Snap]
    BY DEF LocalsOK
  <2>2. [snap[t] EXCEPT !.err = TRUE] \in Snap
    BY <2>1 DEF Snap
  <2>3. snap' = snap \/ snap' = [snap EXCEPT ![t] = [snap[t] EXCEPT !.err = TRUE]]
    BY DEF Undone
  <2> QED
    BY <2>1, <2>2, <2>3
<1>2. LocalsOK'
  BY <1>1 DEF Undone, Goto, LocalsOK
<1>3. TargetOK'
  BY DEF Undone, Goto, LocalsOK, TargetOK, Thread
<1> QED
  BY <1>2, <1>3 DEF Undone

\* DropRoutes keeps types and targets.
LEMMA DropRoutesT ==
  ASSUME TInv, NEW t \in Thread, DropRoutes(t)
  PROVE  TInv'
<1>1. FieldsOK' /\ host' \in HostState
  BY HostOps DEF DropRoutes, FieldsOK
<1>2. LocalsOK' /\ TargetOK' /\ faults' \in Nat
  <2>1. "tdTunnel" \in PC \ {"idle"}
    BY DEF PC, TearingDown
  <2>2. /\ pc[t] # "idle"
        /\ Undone(t, "tdTunnel", snap[t].routes /\ ~host.rules)
    BY DEF DropRoutes
  <2>3. (snap[t].routes /\ ~host.rules) \in BOOLEAN
    OBVIOUS
  <2> QED
    BY <2>1, <2>2, <2>3, UndoneType
<1> QED
  BY <1>1, <1>2 DEF DropRoutes

\* DropTunnel keeps types and targets.
LEMMA DropTunnelT ==
  ASSUME TInv, NEW t \in Thread, DropTunnel(t)
  PROVE  TInv'
<1>1. snap[t].tun \in Link
  BY DEF LocalsOK, Snap
<1>2. FieldsOK'
  BY DEF DropTunnel, FieldsOK, Link, NoLink
<1>3. host' \in HostState
  BY <1>1, HostOps DEF DropTunnel
<1>4. LocalsOK' /\ TargetOK' /\ faults' \in Nat
  BY UndoneType DEF DropTunnel, PC, TearingDown
<1> QED
  BY <1>2, <1>3, <1>4 DEF DropTunnel

\* A goroutine leaves teardown for another label of its caller.
LEMMA ReturnType ==
  ASSUME TInv, NEW t \in Thread, pc[t] # "idle", NEW label \in PC \ {"idle"},
         Goto(t, label), snap' = [snap EXCEPT ![t] = NoSnap], arg' = arg,
         ret' = ret \/ ret' = [ret EXCEPT ![t] = "none"]
  PROVE  LocalsOK' /\ TargetOK'
<1>1. NoSnap \in Snap
  BY DEF NoSnap, Snap, Hardener, Link, NoLink
<1>2. LocalsOK'
  BY <1>1 DEF Goto, LocalsOK, Ret
<1>3. TargetOK'
  BY DEF Goto, LocalsOK, TargetOK, Thread
<1> QED
  BY <1>2, <1>3

\* RelaxHost keeps types and targets.
LEMMA RelaxHostT ==
  ASSUME TInv, NEW t \in Thread, RelaxHost(t)
  PROVE  TInv'
<1>1. snap[t].saved \in Hardener
  BY DEF LocalsOK, Snap
<1>2. host' \in HostState
  BY <1>1, HostOps DEF RelaxHost
<1>3. CASE ReturnToConnect(t)
  <2>1. FieldsOK'
    BY <1>3 DEF RelaxHost, ReturnToConnect, FieldsOK, State
  <2>2. CASE Finish(t)
    BY <1>2, <2>1, <2>2, FinishType DEF RelaxHost
  <2>3. CASE /\ Goto(t, "fallback")
             /\ snap' = [snap EXCEPT ![t] = NoSnap]
             /\ UNCHANGED <<ret, arg>>
    BY <1>2, <2>1, <2>3, ReturnType DEF RelaxHost, PC
  <2> QED
    BY <1>3, <2>2, <2>3 DEF ReturnToConnect
<1>4. CASE ReturnToReconnect(t)
  <2>1. FieldsOK'
    BY <1>4 DEF RelaxHost, ReturnToReconnect, FieldsOK
  <2>2. LocalsOK' /\ TargetOK'
    BY <1>4, ReturnType DEF RelaxHost, ReturnToReconnect, PC, Waiting
  <2> QED
    BY <1>2, <2>1, <2>2 DEF RelaxHost
<1>5. CASE ReturnToEnd(t)
  <2>1. FieldsOK'
    BY <1>5 DEF RelaxHost, ReturnToEnd, FieldsOK, State
  <2>2. LocalsOK' /\ TargetOK'
    BY <1>5, FinishType DEF ReturnToEnd
  <2> QED
    BY <1>2, <2>1, <2>2 DEF RelaxHost
<1> QED
  BY <1>3, <1>4, <1>5 DEF RelaxHost

-----------------------------------------------------------------------------
(* The monitor goroutine. *)

\* MonitorStops keeps types and targets.
LEMMA MonitorStopsT ==
  ASSUME TInv, NEW c \in Conn, MonitorStops(c)
  PROVE  TInv'
<1>1. FieldsOK'
  BY DEF MonitorStops, FieldsOK
<1>2. LocalsOK' /\ TargetOK'
  BY FinishType DEF MonitorStops, Thread
<1> QED
  BY <1>1, <1>2 DEF MonitorStops

\* MonitorWakes keeps types and targets.
LEMMA MonitorWakesT ==
  ASSUME TInv, NEW c \in Conn, MonitorWakes(c)
  PROVE  TInv'
<1>1. FieldsOK'
  BY DEF MonitorWakes, FieldsOK
<1>2. LocalsOK' /\ TargetOK'
  BY GotoType DEF MonitorWakes, Thread, PC
<1> QED
  BY <1>1, <1>2 DEF MonitorWakes

\* Stale keeps types and targets.
LEMMA StaleT ==
  ASSUME TInv, NEW c \in Conn, TunnelStale(c) \/ CheckAfterWake(c)
  PROVE  TInv'
<1>1. FieldsOK'
  BY DEF TunnelStale, CheckAfterWake, GoesStale, FieldsOK, State
<1>2. LocalsOK' /\ TargetOK'
  BY GotoType DEF TunnelStale, CheckAfterWake, GoesStale, Thread, PC
<1> QED
  BY <1>1, <1>2 DEF TunnelStale, CheckAfterWake

\* BeginReconnect keeps types and targets.
LEMMA BeginReconnectT ==
  ASSUME TInv, NEW c \in Conn, BeginReconnect(c)
  PROVE  TInv'
<1> DEFINE p == IF lastProto[c] = "stealth" THEN "stealth" ELSE "wireguard"
           a == [NoArg EXCEPT !.conn = c, !.ks = lastKS[c], !.has = ks[c], !.proto = p]
<1>1. FieldsOK'
  BY DEF BeginReconnect, FieldsOK
<1>2. a \in Arg /\ a.conn = c
  <2>1. p \in Proto
    BY DEF Proto
  <2>2. lastKS[c] \in BOOLEAN /\ ks[c] \in BOOLEAN
    BY DEF FieldsOK
  <2> HIDE DEF p
  <2> QED
    BY <2>1, <2>2, FreshArgType DEF NoArg
<1>3. arg' = [arg EXCEPT ![c] = a]
  BY DEF BeginReconnect
<1> HIDE DEF a
<1>4. snap' \in [Thread -> Snap]
  <2>1. [snap[c] EXCEPT !.keep = ks[c]] \in Snap
    <3>1. snap[c] \in Snap /\ ks[c] \in BOOLEAN
      BY DEF FieldsOK, LocalsOK, Thread
    <3> QED
      BY <3>1 DEF Snap
  <2>2. snap' = [snap EXCEPT ![c] = [snap[c] EXCEPT !.keep = ks[c]]]
    BY DEF BeginReconnect
  <2> QED
    BY <2>1, <2>2 DEF LocalsOK
<1>5. LocalsOK'
  BY <1>2, <1>3, <1>4 DEF BeginReconnect, Goto, LocalsOK, PC, TearingDown, Ret
<1>6. TargetOK'
  BY <1>2, <1>3 DEF BeginReconnect, Goto, LocalsOK, TargetOK, Thread
<1> QED
  BY <1>1, <1>5, <1>6 DEF BeginReconnect

\* ReconnectCancelled keeps types and targets.
LEMMA ReconnectCancelledT ==
  ASSUME TInv, NEW c \in Conn, ReconnectCancelled(c)
  PROVE  TInv'
<1>1. FieldsOK'
  BY DEF ReconnectCancelled, FieldsOK, State
<1>2. LocalsOK' /\ TargetOK'
  BY FinishType, TeardownCallTarget DEF ReconnectCancelled, Thread, Waiting, Ret
<1> QED
  BY <1>1, <1>2 DEF ReconnectCancelled

\* Waits keeps types and targets.
LEMMA WaitsT ==
  ASSUME TInv, NEW c \in Conn, LoopHead(c) \/ WaitNetwork(c) \/ WaitExpires(c)
  PROVE  TInv'
<1>1. FieldsOK'
  BY DEF LoopHead, WaitNetwork, WaitExpires, FieldsOK
<1>2. LocalsOK' /\ TargetOK'
  BY GotoType DEF LoopHead, WaitNetwork, WaitExpires, Thread, PC, Waiting
<1> QED
  BY <1>1, <1>2 DEF LoopHead, WaitNetwork, WaitExpires

\* WakeFromBackoff keeps types and targets.
LEMMA WakeFromBackoffT ==
  ASSUME TInv, NEW c \in Conn, WakeFromBackoff(c)
  PROVE  TInv'
<1>1. FieldsOK'
  BY DEF WakeFromBackoff, FieldsOK
<1>2. LocalsOK' /\ TargetOK'
  BY GotoType DEF WakeFromBackoff, Thread, PC, Waiting
<1> QED
  BY <1>1, <1>2 DEF WakeFromBackoff

\* Attempt keeps types and targets.
LEMMA AttemptT ==
  ASSUME TInv, NEW c \in Conn, Attempt(c)
  PROVE  TInv'
<1>1. FieldsOK'
  BY DEF Attempt, FieldsOK
<1>2. CASE \E cr \in {"good", "bad"}, b \in BOOLEAN :
             /\ arg' = [arg EXCEPT ![c].cred = cr, ![c].reused = b]
             /\ Goto(c, "shield")
             /\ ret' = [ret EXCEPT ![c] = "attempt"]
             /\ UNCHANGED faults
  <2>1. PICK cr \in {"good", "bad"}, b \in BOOLEAN :
             /\ arg' = [arg EXCEPT ![c].cred = cr, ![c].reused = b]
             /\ Goto(c, "shield")
             /\ ret' = [ret EXCEPT ![c] = "attempt"]
             /\ UNCHANGED faults
    BY <1>2
  <2>2. arg' \in [Thread -> Arg] /\ \A u \in Thread : arg'[u].conn = arg[u].conn
    <3> DEFINE a == [arg[c] EXCEPT !.cred = cr, !.reused = b]
    <3>1. a \in Arg /\ a.conn = arg[c].conn
      BY DEF LocalsOK, Arg, Thread
    <3>2. arg' = [arg EXCEPT ![c] = a]
      BY <2>1
    <3> QED
      BY <3>1, <3>2 DEF LocalsOK
  <2>3. LocalsOK'
    BY <2>1, <2>2 DEF Attempt, Goto, LocalsOK, PC, Dialing, Ret
  <2>4. TargetOK'
    BY <2>1, <2>2 DEF Attempt, Goto, LocalsOK, TargetOK, Thread
  <2> QED
    BY <1>1, <2>1, <2>3, <2>4 DEF Attempt
<1>3. CASE UNCHANGED <<arg, ret>> /\ \E w \in {"backoff", "limited"} : Goto(c, w)
  <2>1. LocalsOK' /\ TargetOK'
    BY <1>3, GotoType DEF Attempt, Thread, PC, Waiting
  <2> QED
    BY <1>1, <2>1 DEF Attempt, Fault
<1> QED
  <2>1. cred[c] \in {"none", "good", "bad"}
    BY DEF FieldsOK
  <2> QED
    BY <1>2, <1>3, <2>1 DEF Attempt

-----------------------------------------------------------------------------
(* Calls and the environment. *)

\* Disconnect keeps types and targets.
LEMMA DisconnectT ==
  ASSUME TInv, NEW t \in Thread, NEW c \in Conn, Disconnect(t, c)
  PROVE  TInv'
<1>1. FieldsOK'
  BY DEF Disconnect, FieldsOK, Cancel, MidAttempt
<1>2. LocalsOK'
  BY FreshArgType DEF Disconnect, Goto, LocalsOK, PC
<1>3. TargetOK'
  BY ConnectionAssumption DEF Disconnect, Goto, LocalsOK, TargetOK, Thread, NoArg
<1> QED
  BY <1>1, <1>2, <1>3 DEF Disconnect

\* Disconnecting keeps types and targets.
LEMMA DisconnectingT ==
  ASSUME TInv, NEW t \in Thread, Disconnecting(t)
  PROVE  TInv'
<1>1. FieldsOK'
  BY DEF Disconnecting, FieldsOK, State
<1>2. LocalsOK' /\ TargetOK'
  BY TeardownCallTarget DEF Disconnecting, Ret
<1> QED
  BY <1>1, <1>2 DEF Disconnecting

\* CheckConnected keeps types and targets.
LEMMA CheckConnectedT ==
  ASSUME TInv, NEW t \in Thread, NEW c \in Conn, CheckConnected(t, c)
  PROVE  TInv'
<1>1. FieldsOK'
  BY DEF CheckConnected, FieldsOK
<1>2. LocalsOK'
  BY FreshArgType DEF CheckConnected, Goto, LocalsOK, PC
<1>3. TargetOK'
  BY ConnectionAssumption DEF CheckConnected, Goto, LocalsOK, TargetOK, Thread, NoArg
<1> QED
  BY <1>1, <1>2, <1>3 DEF CheckConnected

\* SetKillSwitch keeps types and targets.
LEMMA SetKillSwitchT ==
  ASSUME TInv, NEW t \in Thread, SetKillSwitch(t)
  PROVE  TInv'
<1> DEFINE c == Target(t)
<1>1. c \in Conn
  BY DEF SetKillSwitch, Target, TargetOK
<1>2. LocalsOK' /\ TargetOK'
  BY FinishType DEF SetKillSwitch
<1>3. \A h \in HostState :
         /\ ShieldOff(h) \in HostState
         /\ ShieldOn(h, c) \in HostState
         /\ WriteFlag(h) \in HostState
  BY <1>1, HostOps
<1>4. raced' \in [Conn -> BOOLEAN]
  BY DEF SetKillSwitch, Overtakes, FieldsOK, MidReconnect
<1> HIDE DEF c
<1>5. CASE SwitchOn(c)
  <2>1. host' \in HostState /\ faults' \in Nat
    BY <1>3, <1>5 DEF SwitchOn, Fault
  <2>2. FieldsOK'
    <3>1. /\ ks' \in [Conn -> BOOLEAN] /\ lastKS' \in [Conn -> BOOLEAN]
          /\ enabled' \in [Conn -> {"none", "ok", "applyFailed", "seedFailed"}]
      BY <1>5 DEF SwitchOn, FieldsOK
    <3> QED
      BY <1>4, <3>1 DEF SetKillSwitch, FieldsOK
  <2> QED
    BY <1>2, <2>1, <2>2 DEF SetKillSwitch
<1>6. CASE SwitchOff(c)
  <2>1. host' \in HostState /\ faults' \in Nat
    BY <1>3, <1>6 DEF SwitchOff
  <2>2. FieldsOK'
    BY <1>4, <1>6 DEF SwitchOff, SetKillSwitch, FieldsOK
  <2> QED
    BY <1>2, <2>1, <2>2 DEF SetKillSwitch
<1>7. CASE UNCHANGED <<host, ks, lastKS, faults, enabled>>
  <2>1. FieldsOK'
    BY <1>4, <1>7 DEF SetKillSwitch, FieldsOK
  <2> QED
    BY <1>2, <1>7, <2>1 DEF SetKillSwitch
<1> QED
  BY <1>5, <1>6, <1>7 DEF SetKillSwitch, c

\* Environment keeps types and targets.
LEMMA EnvironmentT ==
  ASSUME TInv, Environment
  PROVE  TInv'
<1>1. LocalsOK' /\ TargetOK'
  BY DEF Environment, NetworkLost, NetworkBack, TriggerReconnect,
         CertificateRejected, CertificateExpires, LocalsOK, TargetOK
<1>2. CASE NetworkLost \/ NetworkBack
  <2>1. FieldsOK' /\ host' \in HostState
    BY <1>2 DEF NetworkLost, NetworkBack, FieldsOK
  <2>2. net' \in BOOLEAN
    BY <1>2 DEF NetworkLost, NetworkBack
  <2>3. faults' \in Nat
    BY <1>2 DEF NetworkLost, NetworkBack, Fault
  <2> QED
    BY <1>1, <2>1, <2>2, <2>3
<1>3. ASSUME NEW c \in Conn,
             TriggerReconnect(c) \/ CertificateRejected(c) \/ CertificateExpires(c)
      PROVE  TInv'
  <2>1. FieldsOK'
    <3>1. CASE TriggerReconnect(c)
      BY <3>1 DEF TriggerReconnect, FieldsOK
    <3>2. CASE CertificateRejected(c)
      BY <3>2 DEF CertificateRejected, FieldsOK
    <3>3. CASE CertificateExpires(c)
      BY <3>3 DEF CertificateExpires, FieldsOK
    <3> QED
      BY <1>3, <3>1, <3>2, <3>3
  <2>2. UNCHANGED <<host, net>> /\ faults' \in Nat
    BY <1>3 DEF TriggerReconnect, CertificateRejected, CertificateExpires, Fault
  <2> QED
    BY <1>1, <2>1, <2>2
<1> QED
  BY <1>2, <1>3 DEF Environment

-----------------------------------------------------------------------------
\* Type correctness: TInv is inductive and implies TypeOK.
LEMMA NextType == TInv /\ [Next]_vars => TInv'
<1> SUFFICES ASSUME TInv, [Next]_vars PROVE TInv'
  OBVIOUS
<1>1. CASE \E t \in Thread : Dial(t)
  BY <1>1, SmartFallbackT, ShieldDownT, ApplyRulesT, SeedAPIsT, HardenHostT,
     BringUpTunnelT, SetUpRoutesT, WaitLocalAgentT, TakeOverDNST,
     PersistBootStateT, ConnectedT, StartMonitorT DEF Dial
<1>2. CASE \E t \in Thread : Undo(t)
  BY <1>2, TearDownT, DropShieldT, GiveBackDNST, DropRoutesT, DropTunnelT,
     RelaxHostT DEF Undo
<1>3. CASE \E c \in Conn : Monitor(c)
  BY <1>3, MonitorStopsT, MonitorWakesT, StaleT, BeginReconnectT,
     ReconnectCancelledT, WaitsT, AttemptT, WakeFromBackoffT DEF Monitor
<1>4. CASE \E t \in Thread : Disconnecting(t) \/ SetKillSwitch(t)
  BY <1>4, DisconnectingT, SetKillSwitchT
<1>5. CASE \E t \in Caller, c \in Conn : Call(t, c)
  BY <1>5, ConnectT, DisconnectT, CheckConnectedT DEF Call, Thread
<1>6. CASE Environment
  BY <1>6, EnvironmentT
<1>7. CASE UNCHANGED vars
  BY <1>7 DEF vars, FieldsOK, LocalsOK, TargetOK
<1> QED
  BY <1>1, <1>2, <1>3, <1>4, <1>5, <1>6, <1>7 DEF Next, Run

\* Hence it is an invariant.
LEMMA TypeInvariant == Spec => []TInv
  BY InitType, NextType, PTL DEF Spec

\* Every reachable state is well typed: in particular no goroutine ever works
\* on a connection it does not have (Connection, connection.go).
THEOREM TypeCorrect == Spec => []TypeOK
<1>1. TInv => TypeOK
  OBVIOUS
<1> QED
  BY <1>1, TypeInvariant, PTL

-----------------------------------------------------------------------------
(* Who does what: the part of the control structure the other proofs need. *)

CallerRole ==
    \A u \in Caller :
        /\ pc[u] \in {"idle", "fallback", "toggle", "disconnect"}
                        \cup Dialing \cup TearingDown
        /\ pc[u] \in Dialing => ret[u] = "connect"
        /\ pc[u] \in TearingDown => ret[u] \in {"connectFailed", "disconnect"}

MonitorRole ==
    \A c \in Conn :
        /\ pc[c] \notin {"fallback", "toggle", "disconnect"}
        /\ pc[c] \in Dialing => ret[c] = "attempt"
        /\ pc[c] \in TearingDown => ret[c] \in {"reconnect", "attemptFailed", "cancelled"}

\* u is inside Connect.
Dials(u) ==
    \/ pc[u] \in Dialing \cup {"fallback"}
    \/ pc[u] \in TearingDown /\ ret[u] = "connectFailed"

\* One caller connects a Connection, and its monitor starts only then.
OneDialer ==
    /\ \A u \in Caller : Dials(u) => ref[arg[u].conn] = "dialing"
    /\ \A u, v \in Caller :
          Dials(u) /\ Dials(v) /\ arg[u].conn = arg[v].conn => u = v
    /\ \A c \in Conn : ref[c] \in {"new", "dialing"} => pc[c] = "idle"

\* Sysctl values are in a goroutine's hands only while it tears down.
SavedInTeardown ==
    \A t \in Thread :
        snap[t].saved = "own" => pc[t] \in TearingDown \ {"teardown"}

Roles == CallerRole /\ MonitorRole /\ OneDialer
\* A dialer's progress, and the end of a dial, keep the dialers apart.
LEMMA DialGoesOn ==
  ASSUME Roles, NEW t \in Caller, Dials(t), ref' = ref,
         \A u \in Caller : arg'[u].conn = arg[u].conn,
         \A u \in Caller : Dials(u)' => Dials(u),
         \A d \in Conn : pc'[d] = pc[d]
  PROVE  OneDialer'
  BY DEF Roles, OneDialer

\* The end of a dial, whichever way.
LEMMA DialEnds ==
  ASSUME Roles, TargetOK, NEW t \in Caller, Dials(t), ~Dials(t)',
         arg[t].conn \in Conn,
         \A u \in Caller \ {t} : arg'[u].conn = arg[u].conn,
         \A u \in Caller \ {t} : Dials(u)' => Dials(u),
         ref'[arg[t].conn] \in {"live", "closed"},
         \A d \in Conn \ {arg[t].conn} : ref'[d] = ref[d] /\ pc'[d] = pc[d]
  PROVE  OneDialer'
<1>1. \A u \in Caller \ {t} : Dials(u) => arg[u].conn \in Conn \ {arg[t].conn}
  <2>1. \A u \in Caller : Dials(u) => arg[u].conn \in Conn
    BY DEF TargetOK, Dials, Dialing, TearingDown, Thread
  <2> QED
    BY <2>1 DEF Roles, OneDialer
<1>2. \A u \in Caller : Dials(u)' => u # t
  OBVIOUS
<1>3. \A u \in Caller : Dials(u)' => ref'[arg'[u].conn] = "dialing"
  BY <1>1, <1>2 DEF Roles, OneDialer
<1>4. \A u, v \in Caller :
         Dials(u)' /\ Dials(v)' /\ arg'[u].conn = arg'[v].conn => u = v
  BY <1>2 DEF Roles, OneDialer
<1>5. \A c \in Conn : ref'[c] \in {"new", "dialing"} => pc'[c] = "idle"
  BY DEF Roles, OneDialer
<1> QED
  BY <1>3, <1>4, <1>5 DEF OneDialer

\* SmartFallback keeps the roles.
LEMMA SmartFallbackR ==
  ASSUME TInv, Roles, NEW t \in Thread, SmartFallback(t)
  PROVE  Roles'
<1>1. CallerRole'
  BY ConnectionAssumption
  DEF SmartFallback, Finish, Goto, Target, NoArg, LocalsOK, Arg, Thread,
      Roles, CallerRole, MonitorRole, Dialing, TearingDown
<1>2. MonitorRole'
  BY ConnectionAssumption
  DEF SmartFallback, Finish, Goto, Target, NoArg, LocalsOK, Arg, Thread,
      Roles, CallerRole, MonitorRole, Dialing, TearingDown
<1>3. OneDialer'
  <2>1. t \in Caller /\ Dials(t) /\ ref[arg[t].conn] = "dialing" /\ arg[t].conn \in Conn
    BY DEF SmartFallback, Roles, MonitorRole, OneDialer, Dials, Thread, TargetOK
  <2>2. \A u \in Thread \ {t} : /\ pc'[u] = pc[u] /\ ret'[u] = ret[u]
                               /\ arg'[u].conn = arg[u].conn
    BY DEF SmartFallback, Finish, Goto, LocalsOK
  <2>3. \A u \in Caller \ {t} : Dials(u)' <=> Dials(u)
    BY <2>2 DEF Dials, Thread
  <2>4. t \notin Conn
    BY <2>1, ConnectionAssumption
  <2>5. CASE Finish(t) /\ ref' = [ref EXCEPT ![Target(t)] = "closed"]
    <3>1. ~Dials(t)'
      BY <2>5 DEF Finish, Goto, LocalsOK, Dials, Dialing, TearingDown
    <3>2. ref'[arg[t].conn] = "closed" /\ \A d \in Conn \ {arg[t].conn} : ref'[d] = ref[d]
      BY <2>1, <2>5 DEF FieldsOK, Target
    <3>3. \A d \in Conn : pc'[d] = pc[d]
      BY <2>2, <2>4 DEF Thread
    <3> QED
      BY <2>1, <2>2, <2>3, <3>1, <3>2, <3>3, DialEnds DEF Thread
  <2>6. CASE ref' = ref /\ arg' = [arg EXCEPT ![t].proto = "stealth", ![t].has = ks[Target(t)],
                                              ![t].cred = "good"]
    <3>1. arg'[t].conn = arg[t].conn
      BY <2>6 DEF LocalsOK, Arg
    <3>2. \A u \in Caller : Dials(u)' => Dials(u)
      BY <2>1, <2>3
    <3>3. \A d \in Conn : pc'[d] = pc[d]
      BY <2>2, <2>4 DEF Thread
    <3>4. \A u \in Caller : arg'[u].conn = arg[u].conn
      BY <2>2, <3>1 DEF Thread
    <3> QED
      BY <2>1, <2>6, <3>2, <3>3, <3>4, DialGoesOn
  <2> QED
    BY <2>5, <2>6 DEF SmartFallback
<1> QED
  BY <1>1, <1>2, <1>3 DEF Roles

\* ShieldDown keeps the roles.
LEMMA ShieldDownR ==
  ASSUME TInv, Roles, NEW t \in Thread, ShieldDown(t)
  PROVE  Roles'
  BY ConnectionAssumption
  DEF ShieldDown, Advance, StepFails, ConnectError, CallTeardown, Goto,
      LocalsOK, Arg, Thread, Roles, CallerRole, MonitorRole, OneDialer,
      Dials, Dialing, TearingDown

\* ApplyRules keeps the roles.
LEMMA ApplyRulesR ==
  ASSUME TInv, Roles, NEW t \in Thread, ApplyRules(t)
  PROVE  Roles'
  BY ConnectionAssumption
  DEF ApplyRules, Advance, StepFails, ConnectError, CallTeardown, Goto,
      LocalsOK, Arg, Thread, Roles, CallerRole, MonitorRole, OneDialer,
      Dials, Dialing, TearingDown

\* SeedAPIs keeps the roles.
LEMMA SeedAPIsR ==
  ASSUME TInv, Roles, NEW t \in Thread, SeedAPIs(t)
  PROVE  Roles'
  BY ConnectionAssumption
  DEF SeedAPIs, Advance, StepFails, ConnectError, CallTeardown, Goto,
      LocalsOK, Arg, Thread, Roles, CallerRole, MonitorRole, OneDialer,
      Dials, Dialing, TearingDown

\* HardenHost keeps the roles.
LEMMA HardenHostR ==
  ASSUME TInv, Roles, NEW t \in Thread, HardenHost(t)
  PROVE  Roles'
  BY ConnectionAssumption
  DEF HardenHost, Advance, Goto, LocalsOK, Arg, Thread, Roles,
      CallerRole, MonitorRole, OneDialer, Dials, Dialing, TearingDown

\* BringUpTunnel keeps the roles.
LEMMA BringUpTunnelR ==
  ASSUME TInv, Roles, NEW t \in Thread, BringUpTunnel(t)
  PROVE  Roles'
  BY ConnectionAssumption
  DEF BringUpTunnel, ConnectError, CallTeardown, Goto, LocalsOK, Arg,
      Thread, Roles, CallerRole, MonitorRole, OneDialer, Dials, Dialing,
      TearingDown

\* SetUpRoutes keeps the roles.
LEMMA SetUpRoutesR ==
  ASSUME TInv, Roles, NEW t \in Thread, SetUpRoutes(t)
  PROVE  Roles'
  BY ConnectionAssumption
  DEF SetUpRoutes, Advance, ConnectError, CallTeardown, Goto, LocalsOK,
      Arg, Thread, Roles, CallerRole, MonitorRole, OneDialer, Dials,
      Dialing, TearingDown

\* WaitLocalAgent keeps the roles.
LEMMA WaitLocalAgentR ==
  ASSUME TInv, Roles, NEW t \in Thread, WaitLocalAgent(t)
  PROVE  Roles'
  BY ConnectionAssumption
  DEF WaitLocalAgent, ConnectError, CallTeardown, Goto, LocalsOK, Arg,
      Thread, Roles, CallerRole, MonitorRole, OneDialer, Dials, Dialing,
      TearingDown

\* TakeOverDNS keeps the roles.
LEMMA TakeOverDNSR ==
  ASSUME TInv, Roles, NEW t \in Thread, TakeOverDNS(t)
  PROVE  Roles'
  BY ConnectionAssumption
  DEF TakeOverDNS, Advance, StepFails, ConnectError, CallTeardown, Goto,
      LocalsOK, Arg, Thread, Roles, CallerRole, MonitorRole, OneDialer,
      Dials, Dialing, TearingDown

\* PersistBootState keeps the roles.
LEMMA PersistBootStateR ==
  ASSUME TInv, Roles, NEW t \in Thread, PersistBootState(t)
  PROVE  Roles'
  BY ConnectionAssumption
  DEF PersistBootState, Advance, Goto, LocalsOK, Arg, Thread, Roles,
      CallerRole, MonitorRole, OneDialer, Dials, Dialing, TearingDown

\* Connected keeps the roles.
LEMMA ConnectedR ==
  ASSUME TInv, Roles, NEW t \in Thread, Connected(t)
  PROVE  Roles'
  BY ConnectionAssumption
  DEF Connected, Advance, Goto, LocalsOK, Arg, Thread, Roles,
      CallerRole, MonitorRole, OneDialer, Dials, Dialing, TearingDown

\* StartMonitor keeps the roles.
LEMMA StartMonitorR ==
  ASSUME TInv, Roles, NEW t \in Thread, StartMonitor(t)
  PROVE  Roles'
<1>1. CallerRole'
  BY ConnectionAssumption
  DEF StartMonitor, Target, TargetOK, NoArg, LocalsOK, Arg, Thread,
      Roles, CallerRole, MonitorRole, Dialing, TearingDown
<1>2. MonitorRole'
  BY ConnectionAssumption
  DEF StartMonitor, Target, TargetOK, NoArg, LocalsOK, Arg, Thread,
      Roles, CallerRole, MonitorRole, Dialing, TearingDown
<1>3. OneDialer'
  <2> DEFINE c == Target(t)
  <2>1. c \in Conn /\ c \in Thread
    BY DEF StartMonitor, Target, TargetOK, Thread
  <2>2. \A u \in Thread \ {t, c} : pc'[u] = pc[u] /\ ret'[u] = ret[u] /\ arg'[u] = arg[u]
    BY DEF StartMonitor, LocalsOK
  <2>3. \A d \in Conn \ {c} : ref'[d] = ref[d]
    BY DEF StartMonitor, FieldsOK
  <2>4. CASE t \in Caller
    <3>1. Dials(t) /\ arg[t].conn = c /\ ref[c] = "dialing" /\ c # t /\ t \notin Conn
      BY <2>1, <2>4, ConnectionAssumption
      DEF StartMonitor, Dials, Dialing, Roles, OneDialer, Target
    <3>2. ~Dials(t)' /\ ref'[c] = "live"
      BY <2>1, <3>1 DEF StartMonitor, LocalsOK, FieldsOK, Dials, Dialing, TearingDown
    <3>3. \A u \in Caller \ {t} : u # c /\ arg'[u].conn = arg[u].conn /\ (Dials(u)' <=> Dials(u))
      BY <2>1, <2>2, ConnectionAssumption DEF Dials, Thread
    <3>4. \A d \in Conn \ {c} : pc'[d] = pc[d]
      BY <2>2, <3>1 DEF Thread
    <3> HIDE DEF c
    <3> QED
      BY <2>1, <2>3, <2>4, <3>1, <3>2, <3>3, <3>4, DialEnds
  <2>5. CASE t \in Conn
    <3>1. c = t /\ ref[c] \notin {"new", "dialing"}
      BY <2>5 DEF StartMonitor, TargetOK, Target, Roles, OneDialer
    <3>2. ref' = ref
      BY <3>1, <2>1 DEF StartMonitor, FieldsOK
    <3>3. \A u \in Caller : Dials(u)' <=> Dials(u)
      BY <2>2, <2>5, <3>1, ConnectionAssumption DEF Dials, Thread
    <3> HIDE DEF c
    <3> QED
      BY <2>1, <2>2, <2>5, <3>1, <3>2, <3>3, ConnectionAssumption DEF Roles, OneDialer, Thread
  <2> QED
    BY <2>4, <2>5 DEF Thread
<1> QED
  BY <1>1, <1>2, <1>3 DEF Roles

\* TearDown keeps the roles.
LEMMA TearDownR ==
  ASSUME TInv, Roles, NEW t \in Thread, TearDown(t)
  PROVE  Roles'
  BY ConnectionAssumption
  DEF TearDown, Goto, LocalsOK, Arg, Thread, Roles, CallerRole,
      MonitorRole, OneDialer, Dials, Dialing, TearingDown

\* DropShield keeps the roles.
LEMMA DropShieldR ==
  ASSUME TInv, Roles, NEW t \in Thread, DropShield(t)
  PROVE  Roles'
  BY ConnectionAssumption
  DEF DropShield, Advance, Goto, LocalsOK, Arg, Thread, Roles,
      CallerRole, MonitorRole, OneDialer, Dials, Dialing, TearingDown

\* GiveBackDNS keeps the roles.
LEMMA GiveBackDNSR ==
  ASSUME TInv, Roles, NEW t \in Thread, GiveBackDNS(t)
  PROVE  Roles'
  BY ConnectionAssumption
  DEF GiveBackDNS, Advance, Goto, LocalsOK, Arg, Thread, Roles,
      CallerRole, MonitorRole, OneDialer, Dials, Dialing, TearingDown

\* DropRoutes keeps the roles.
LEMMA DropRoutesR ==
  ASSUME TInv, Roles, NEW t \in Thread, DropRoutes(t)
  PROVE  Roles'
  BY ConnectionAssumption
  DEF DropRoutes, Undone, Goto, LocalsOK, Arg, Thread, Roles,
      CallerRole, MonitorRole, OneDialer, Dials, Dialing, TearingDown

\* DropTunnel keeps the roles.
LEMMA DropTunnelR ==
  ASSUME TInv, Roles, NEW t \in Thread, DropTunnel(t)
  PROVE  Roles'
  BY ConnectionAssumption
  DEF DropTunnel, Undone, Goto, LocalsOK, Arg, Thread, Roles,
      CallerRole, MonitorRole, OneDialer, Dials, Dialing, TearingDown

\* ReturnToConnect keeps the roles.
LEMMA ReturnToConnectR ==
  ASSUME TInv, Roles, NEW t \in Thread, RelaxHost(t), ReturnToConnect(t)
  PROVE  Roles'
<1>1. CallerRole'
  BY ConnectionAssumption
  DEF RelaxHost, ReturnToConnect, Finish, Goto, Target, LocalsOK, Arg,
      Thread, Roles, CallerRole, MonitorRole, Dialing, TearingDown
<1>2. MonitorRole'
  BY ConnectionAssumption
  DEF RelaxHost, ReturnToConnect, Finish, Goto, Target, LocalsOK, Arg,
      Thread, Roles, CallerRole, MonitorRole, Dialing, TearingDown
<1>3. OneDialer'
  <2>1. t \in Caller /\ Dials(t) /\ ref[arg[t].conn] = "dialing" /\ arg[t].conn \in Conn
    BY DEF RelaxHost, ReturnToConnect, Roles, MonitorRole, OneDialer, Dials, Thread,
           TargetOK, TearingDown
  <2>2. \A u \in Thread \ {t} : pc'[u] = pc[u] /\ ret'[u] = ret[u] /\ arg'[u] = arg[u]
    BY DEF ReturnToConnect, Finish, Goto, LocalsOK
  <2>3. \A u \in Caller \ {t} : Dials(u)' <=> Dials(u)
    BY <2>2 DEF Dials, Thread
  <2>4. t \notin Conn
    BY <2>1, ConnectionAssumption
  <2>5. CASE Finish(t) /\ ref' = [ref EXCEPT ![Target(t)] = "closed"]
    <3>1. ~Dials(t)'
      BY <2>5 DEF Finish, Goto, LocalsOK, Dials, Dialing, TearingDown
    <3>2. ref'[arg[t].conn] = "closed" /\ \A d \in Conn \ {arg[t].conn} : ref'[d] = ref[d]
      BY <2>1, <2>5 DEF FieldsOK, Target
    <3>3. \A d \in Conn : pc'[d] = pc[d]
      BY <2>2, <2>4 DEF Thread
    <3> QED
      BY <2>1, <2>2, <2>3, <3>1, <3>2, <3>3, DialEnds DEF Thread
  <2>6. CASE UNCHANGED <<ret, arg, ref>>
    <3>1. \A d \in Conn : pc'[d] = pc[d]
      BY <2>2, <2>4 DEF Thread
    <3> QED
      BY <2>1, <2>3, <2>6, <3>1, DialGoesOn
  <2> QED
    BY <2>5, <2>6 DEF ReturnToConnect, Target
<1> QED
  BY <1>1, <1>2, <1>3 DEF Roles

\* ReturnToReconnect keeps the roles.
LEMMA ReturnToReconnectR ==
  ASSUME TInv, Roles, NEW t \in Thread, RelaxHost(t), ReturnToReconnect(t)
  PROVE  Roles'
  BY ConnectionAssumption
  DEF RelaxHost, ReturnToReconnect, Goto, LocalsOK, Arg, Thread, Roles,
      CallerRole, MonitorRole, OneDialer, Dials, Dialing, TearingDown

\* ReturnToEnd keeps the roles.
LEMMA ReturnToEndR ==
  ASSUME TInv, Roles, NEW t \in Thread, RelaxHost(t), ReturnToEnd(t)
  PROVE  Roles'
  BY ConnectionAssumption
  DEF RelaxHost, ReturnToEnd, Finish, Goto, LocalsOK, Arg, Thread,
      Roles, CallerRole, MonitorRole, OneDialer, Dials, Dialing,
      TearingDown

\* MonitorStops keeps the roles.
LEMMA MonitorStopsR ==
  ASSUME TInv, Roles, NEW c \in Conn, MonitorStops(c)
  PROVE  Roles'
  BY ConnectionAssumption
  DEF MonitorStops, Finish, Goto, LocalsOK, Arg, Thread, Roles,
      CallerRole, MonitorRole, OneDialer, Dials, Dialing, TearingDown

\* MonitorWakes keeps the roles.
LEMMA MonitorWakesR ==
  ASSUME TInv, Roles, NEW c \in Conn, MonitorWakes(c)
  PROVE  Roles'
  BY ConnectionAssumption
  DEF MonitorWakes, Goto, LocalsOK, Arg, Thread, Roles, CallerRole,
      MonitorRole, OneDialer, Dials, Dialing, TearingDown

\* Stale keeps the roles.
LEMMA StaleR ==
  ASSUME TInv, Roles, NEW c \in Conn, TunnelStale(c) \/ CheckAfterWake(c)
  PROVE  Roles'
  BY ConnectionAssumption
  DEF TunnelStale, CheckAfterWake, GoesStale, Goto, LocalsOK, Arg,
      Thread, Roles, CallerRole, MonitorRole, OneDialer, Dials, Dialing,
      TearingDown

\* BeginReconnect keeps the roles.
LEMMA BeginReconnectR ==
  ASSUME TInv, Roles, NEW c \in Conn, BeginReconnect(c)
  PROVE  Roles'
  BY ConnectionAssumption
  DEF BeginReconnect, Goto, LocalsOK, Arg, Thread, Roles, CallerRole,
      MonitorRole, OneDialer, Dials, Dialing, TearingDown

\* ReconnectCancelled keeps the roles.
LEMMA ReconnectCancelledR ==
  ASSUME TInv, Roles, NEW c \in Conn, ReconnectCancelled(c)
  PROVE  Roles'
<1>1. CallerRole'
  BY ConnectionAssumption
  DEF ReconnectCancelled, Finish, CallTeardown, Goto, LocalsOK, Arg,
      Thread, Roles, CallerRole, MonitorRole, Dialing, TearingDown
<1>2. MonitorRole'
  BY ConnectionAssumption
  DEF ReconnectCancelled, Finish, CallTeardown, Goto, LocalsOK, Arg,
      Thread, Roles, CallerRole, MonitorRole, Dialing, TearingDown
<1>3. OneDialer'
  <2>1. c \in Thread /\ c \notin Caller /\ pc[c] # "idle" /\ ref' = ref
    BY ConnectionAssumption DEF ReconnectCancelled, Thread, Waiting
  <2>2. \A u \in Thread \ {c} : /\ pc'[u] = pc[u] /\ ret'[u] = ret[u]
                               /\ arg'[u].conn = arg[u].conn
    BY DEF ReconnectCancelled, Finish, CallTeardown, Goto, LocalsOK
  <2>3. \A u \in Caller : (Dials(u)' <=> Dials(u)) /\ arg'[u].conn = arg[u].conn
    BY <2>1, <2>2 DEF Dials, Thread
  <2> QED
    BY <2>1, <2>2, <2>3 DEF Roles, OneDialer, Thread
<1> QED
  BY <1>1, <1>2, <1>3 DEF Roles

\* Waits keeps the roles.
LEMMA WaitsR ==
  ASSUME TInv, Roles, NEW c \in Conn, LoopHead(c) \/ WaitNetwork(c) \/ WaitExpires(c)
  PROVE  Roles'
  BY ConnectionAssumption
  DEF LoopHead, WaitNetwork, WaitExpires, Goto, Waiting, LocalsOK, Arg,
      Thread, Roles, CallerRole, MonitorRole, OneDialer, Dials, Dialing,
      TearingDown

\* WakeFromBackoff keeps the roles.
LEMMA WakeFromBackoffR ==
  ASSUME TInv, Roles, NEW c \in Conn, WakeFromBackoff(c)
  PROVE  Roles'
  BY ConnectionAssumption
  DEF WakeFromBackoff, Goto, LocalsOK, Arg, Thread, Roles, CallerRole,
      MonitorRole, OneDialer, Dials, Dialing, TearingDown

\* Attempt keeps the roles.
LEMMA AttemptR ==
  ASSUME TInv, Roles, NEW c \in Conn, Attempt(c)
  PROVE  Roles'
  BY ConnectionAssumption
  DEF Attempt, Goto, LocalsOK, Arg, Thread, Roles, CallerRole,
      MonitorRole, OneDialer, Dials, Dialing, TearingDown

\* Connect keeps the roles.
LEMMA ConnectR ==
  ASSUME TInv, Roles, NEW t \in Thread, NEW c \in Conn, Connect(t, c)
  PROVE  Roles'
<1>1. CallerRole'
  BY ConnectionAssumption
  DEF Connect, Goto, NoArg, LocalsOK, Arg, Thread, Roles, CallerRole,
      MonitorRole, Dialing, TearingDown
<1>2. MonitorRole'
  BY ConnectionAssumption
  DEF Connect, Goto, NoArg, LocalsOK, Arg, Thread, Roles, CallerRole,
      MonitorRole, Dialing, TearingDown
<1>3. OneDialer'
  <2>1. t \in Caller /\ ref[c] = "new" /\ ref' = [ref EXCEPT ![c] = "dialing"]
    BY DEF Connect
  <2>2. \A u \in Thread \ {t} : pc'[u] = pc[u] /\ ret'[u] = ret[u] /\ arg'[u] = arg[u]
    BY DEF Connect, Goto, LocalsOK
  <2>3. arg'[t].conn = c
    BY DEF Connect, LocalsOK, NoArg
  <2>4. \A u \in Caller \ {t} : Dials(u)' => Dials(u)
    BY <2>2 DEF Dials, Thread
  <2>5. \A u \in Caller : Dials(u) => arg[u].conn \in Conn \ {c}
    BY <2>1 DEF TargetOK, Dials, Dialing, TearingDown, Thread, Roles, OneDialer
  <2>6. ref'[c] = "dialing" /\ \A d \in Conn \ {c} : ref'[d] = ref[d]
    BY <2>1 DEF FieldsOK
  <2>7. \A d \in Conn : pc'[d] = pc[d]
    BY <2>1, <2>2, ConnectionAssumption DEF Thread
  <2>8. \A u \in Caller : Dials(u)' => ref'[arg'[u].conn] = "dialing"
    BY <2>2, <2>3, <2>4, <2>5, <2>6 DEF Roles, OneDialer, Thread
  <2>9. \A u, v \in Caller :
           Dials(u)' /\ Dials(v)' /\ arg'[u].conn = arg'[v].conn => u = v
    BY <2>2, <2>3, <2>4, <2>5 DEF Roles, OneDialer, Thread
  <2>10. \A d \in Conn : ref'[d] \in {"new", "dialing"} => pc'[d] = "idle"
    BY <2>1, <2>6, <2>7 DEF Roles, OneDialer
  <2> QED
    BY <2>8, <2>9, <2>10 DEF OneDialer
<1> QED
  BY <1>1, <1>2, <1>3 DEF Roles

\* Disconnect keeps the roles.
LEMMA DisconnectR ==
  ASSUME TInv, Roles, NEW t \in Thread, NEW c \in Conn, Disconnect(t, c)
  PROVE  Roles'
  BY ConnectionAssumption
  DEF Disconnect, Goto, NoArg, LocalsOK, Arg, Thread, Roles, CallerRole,
      MonitorRole, OneDialer, Dials, Dialing, TearingDown

\* Disconnecting keeps the roles.
LEMMA DisconnectingR ==
  ASSUME TInv, Roles, NEW t \in Thread, Disconnecting(t)
  PROVE  Roles'
  BY ConnectionAssumption
  DEF Disconnecting, CallTeardown, Goto, LocalsOK, Arg, Thread, Roles,
      CallerRole, MonitorRole, OneDialer, Dials, Dialing, TearingDown

\* CheckConnected keeps the roles.
LEMMA CheckConnectedR ==
  ASSUME TInv, Roles, NEW t \in Thread, NEW c \in Conn, CheckConnected(t, c)
  PROVE  Roles'
  BY ConnectionAssumption
  DEF CheckConnected, Goto, NoArg, LocalsOK, Arg, Thread, Roles,
      CallerRole, MonitorRole, OneDialer, Dials, Dialing, TearingDown

\* SetKillSwitch keeps the roles.
LEMMA SetKillSwitchR ==
  ASSUME TInv, Roles, NEW t \in Thread, SetKillSwitch(t)
  PROVE  Roles'
  BY ConnectionAssumption
  DEF SetKillSwitch, Finish, Goto, LocalsOK, Arg, Thread, Roles,
      CallerRole, MonitorRole, OneDialer, Dials, Dialing, TearingDown

\* The roles hold at the start.
LEMMA InitRoles == Init => Roles
  BY DEF Init, Roles, CallerRole, MonitorRole, OneDialer, Dials, Dialing,
         TearingDown, Thread, NoArg

\* Every step keeps the roles.
LEMMA NextRoles == TInv /\ Roles /\ [Next]_vars => Roles'
<1> SUFFICES ASSUME TInv, Roles, [Next]_vars PROVE Roles'
  OBVIOUS
<1>1. CASE \E t \in Thread : Dial(t)
  BY <1>1, SmartFallbackR, ShieldDownR, ApplyRulesR, SeedAPIsR, HardenHostR,
     BringUpTunnelR, SetUpRoutesR, WaitLocalAgentR, TakeOverDNSR,
     PersistBootStateR, ConnectedR, StartMonitorR DEF Dial
<1>2. CASE \E t \in Thread : Undo(t)
  BY <1>2, TearDownR, DropShieldR, GiveBackDNSR, DropRoutesR, DropTunnelR,
     ReturnToConnectR, ReturnToReconnectR, ReturnToEndR DEF Undo, RelaxHost
<1>3. CASE \E c \in Conn : Monitor(c)
  BY <1>3, MonitorStopsR, MonitorWakesR, StaleR, BeginReconnectR,
     ReconnectCancelledR, WaitsR, AttemptR, WakeFromBackoffR DEF Monitor
<1>4. CASE \E t \in Thread : Disconnecting(t) \/ SetKillSwitch(t)
  BY <1>4, DisconnectingR, SetKillSwitchR
<1>5. CASE \E t \in Caller, c \in Conn : Call(t, c)
  BY <1>5, ConnectR, DisconnectR, CheckConnectedR DEF Call, Thread
<1>6. CASE Environment \/ UNCHANGED vars
  BY <1>6 DEF Environment, NetworkLost, NetworkBack, TriggerReconnect,
     CertificateRejected, CertificateExpires, vars, Roles, CallerRole,
     MonitorRole, OneDialer, Dials
<1> QED
  BY <1>1, <1>2, <1>3, <1>4, <1>5, <1>6 DEF Next, Run

-----------------------------------------------------------------------------
(* The host's own sysctl values, and the monitor's cancel function. *)

Kept == SavedInTeardown /\ MonitorStoppable

\* A step does not lose the sysctls, if they were not lost before: a process
\* that died has lost those it had saved.
StillRecoverable == SysctlRecoverable => SysctlRecoverable'

\* Only Harden and Relax touch the sysctls.
LEMMA HostArp ==
  ASSUME NEW h \in HostState
  PROVE  /\ ShieldOff(h).arp = h.arp
         /\ \A c \in Conn : ShieldOn(h, c).arp = h.arp
         /\ WriteFlag(h).arp = h.arp
         /\ LinkDel(h).arp = h.arp
         /\ \A i : LinkAdd(h, i).arp = h.arp
         /\ \A i : LinkDrop(h, i).arp = h.arp
         /\ RoutesOff(h).arp = h.arp
         /\ \A i : RoutesOn(h, i).arp = h.arp
         /\ DNSOn(h).arp = h.arp
         /\ DNSOff(h).arp = h.arp
  BY DEF HostState, ShieldOff, ShieldOn, WriteFlag, LinkDel, LinkAdd, LinkDrop,
         RoutesOff, RoutesOn, DNSOn, DNSOff

Undoing == TearingDown \ {"teardown"}

\* What most steps leave alone.
Untouched ==
    /\ host'.arp = host.arp
    /\ UNCHANGED <<hard, cancelFn, cancelled>>
    /\ \A u \in Thread : (snap'[u].saved = "own") <=> (snap[u].saved = "own")
    /\ \A u \in Thread : pc[u] \in Undoing => pc'[u] \in Undoing
    /\ \A c \in Conn : pc[c] = "idle" => pc'[c] = "idle"

\* Such a step keeps all three facts.
LEMMA UntouchedKept == Kept /\ Untouched => Kept' /\ StillRecoverable
<1> SUFFICES ASSUME Kept, Untouched PROVE Kept' /\ StillRecoverable
  OBVIOUS
<1>1. SavedInTeardown'
  BY DEF Kept, SavedInTeardown, Untouched, Undoing
<1>2. StillRecoverable
  BY DEF StillRecoverable, SysctlRecoverable, Untouched
<1>3. MonitorStoppable'
  BY DEF Kept, MonitorStoppable, Untouched
<1> QED
  BY <1>1, <1>2, <1>3 DEF Kept

\* SmartFallback touches none of them.
LEMMA SmartFallbackU ==
  ASSUME TInv, Kept, NEW t \in Thread, SmartFallback(t)
  PROVE  Untouched
<1>1. host'.arp = host.arp /\ UNCHANGED <<hard, cancelFn, cancelled>>
  BY HostArp
  DEF SmartFallback
<1>2. \A u \in Thread : (snap'[u].saved = "own") <=> (snap[u].saved = "own")
  BY
  DEF SmartFallback, Finish, Goto, Kept, SavedInTeardown, LocalsOK,
      Snap, NoSnap, TearingDown, Waiting, Thread
<1>3. /\ \A u \in Thread : pc[u] \in Undoing => pc'[u] \in Undoing
      /\ \A d \in Conn : pc[d] = "idle" => pc'[d] = "idle"
  BY ConnectionAssumption
  DEF SmartFallback, Finish, Goto, Undoing, TearingDown, LocalsOK,
      Thread, Waiting
<1> QED
  BY <1>1, <1>2, <1>3 DEF Untouched

\* ShieldDown touches none of them.
LEMMA ShieldDownU ==
  ASSUME TInv, Kept, NEW t \in Thread, ShieldDown(t)
  PROVE  Untouched
<1>1. host'.arp = host.arp /\ UNCHANGED <<hard, cancelFn, cancelled>>
  BY HostArp
  DEF ShieldDown, Advance, StepFails
<1>2. \A u \in Thread : (snap'[u].saved = "own") <=> (snap[u].saved = "own")
  BY
  DEF ShieldDown, Advance, StepFails, ConnectError, CallTeardown, Goto,
      Kept, SavedInTeardown, LocalsOK, Snap, NoSnap, TearingDown,
      Waiting, Thread
<1>3. /\ \A u \in Thread : pc[u] \in Undoing => pc'[u] \in Undoing
      /\ \A d \in Conn : pc[d] = "idle" => pc'[d] = "idle"
  BY ConnectionAssumption
  DEF ShieldDown, Advance, StepFails, ConnectError, CallTeardown, Goto,
      Undoing, TearingDown, LocalsOK, Thread, Waiting
<1> QED
  BY <1>1, <1>2, <1>3 DEF Untouched

\* ApplyRules touches none of them.
LEMMA ApplyRulesU ==
  ASSUME TInv, Kept, NEW t \in Thread, ApplyRules(t)
  PROVE  Untouched
<1>1. host'.arp = host.arp /\ UNCHANGED <<hard, cancelFn, cancelled>>
  BY HostArp DEF ApplyRules, StepFails, Target, TargetOK
<1>2. \A u \in Thread : (snap'[u].saved = "own") <=> (snap[u].saved = "own")
  BY
  DEF ApplyRules, Advance, StepFails, ConnectError, CallTeardown, Goto,
      Kept, SavedInTeardown, LocalsOK, Snap, NoSnap, TearingDown,
      Waiting, Thread
<1>3. /\ \A u \in Thread : pc[u] \in Undoing => pc'[u] \in Undoing
      /\ \A d \in Conn : pc[d] = "idle" => pc'[d] = "idle"
  BY ConnectionAssumption
  DEF ApplyRules, Advance, StepFails, ConnectError, CallTeardown, Goto,
      Undoing, TearingDown, LocalsOK, Thread, Waiting
<1> QED
  BY <1>1, <1>2, <1>3 DEF Untouched

\* SeedAPIs touches none of them.
LEMMA SeedAPIsU ==
  ASSUME TInv, Kept, NEW t \in Thread, SeedAPIs(t)
  PROVE  Untouched
<1>1. host'.arp = host.arp /\ UNCHANGED <<hard, cancelFn, cancelled>>
  BY HostArp
  DEF SeedAPIs, Advance, StepFails
<1>2. \A u \in Thread : (snap'[u].saved = "own") <=> (snap[u].saved = "own")
  BY
  DEF SeedAPIs, Advance, StepFails, ConnectError, CallTeardown, Goto,
      Kept, SavedInTeardown, LocalsOK, Snap, NoSnap, TearingDown,
      Waiting, Thread
<1>3. /\ \A u \in Thread : pc[u] \in Undoing => pc'[u] \in Undoing
      /\ \A d \in Conn : pc[d] = "idle" => pc'[d] = "idle"
  BY ConnectionAssumption
  DEF SeedAPIs, Advance, StepFails, ConnectError, CallTeardown, Goto,
      Undoing, TearingDown, LocalsOK, Thread, Waiting
<1> QED
  BY <1>1, <1>2, <1>3 DEF Untouched

\* BringUpTunnel touches none of them.
LEMMA BringUpTunnelU ==
  ASSUME TInv, Kept, NEW t \in Thread, BringUpTunnel(t)
  PROVE  Untouched
<1>1. host'.arp = host.arp /\ UNCHANGED <<hard, cancelFn, cancelled>>
  <2>1. LinkDel(host) \in HostState /\ LinkDel(host).arp = host.arp
    BY HostOps, HostArp
  <2> QED
    BY <2>1, HostArp DEF BringUpTunnel
<1>2. \A u \in Thread : (snap'[u].saved = "own") <=> (snap[u].saved = "own")
  BY
  DEF BringUpTunnel, ConnectError, CallTeardown, Goto, Kept,
      SavedInTeardown, LocalsOK, Snap, NoSnap, TearingDown, Waiting,
      Thread
<1>3. /\ \A u \in Thread : pc[u] \in Undoing => pc'[u] \in Undoing
      /\ \A d \in Conn : pc[d] = "idle" => pc'[d] = "idle"
  BY ConnectionAssumption
  DEF BringUpTunnel, ConnectError, CallTeardown, Goto, Undoing,
      TearingDown, LocalsOK, Thread, Waiting
<1> QED
  BY <1>1, <1>2, <1>3 DEF Untouched

\* SetUpRoutes touches none of them.
LEMMA SetUpRoutesU ==
  ASSUME TInv, Kept, NEW t \in Thread, SetUpRoutes(t)
  PROVE  Untouched
<1>1. host'.arp = host.arp /\ UNCHANGED <<hard, cancelFn, cancelled>>
  BY HostArp
  DEF SetUpRoutes, Advance
<1>2. \A u \in Thread : (snap'[u].saved = "own") <=> (snap[u].saved = "own")
  BY
  DEF SetUpRoutes, Advance, ConnectError, CallTeardown, Goto, Kept,
      SavedInTeardown, LocalsOK, Snap, NoSnap, TearingDown, Waiting,
      Thread
<1>3. /\ \A u \in Thread : pc[u] \in Undoing => pc'[u] \in Undoing
      /\ \A d \in Conn : pc[d] = "idle" => pc'[d] = "idle"
  BY ConnectionAssumption
  DEF SetUpRoutes, Advance, ConnectError, CallTeardown, Goto, Undoing,
      TearingDown, LocalsOK, Thread, Waiting
<1> QED
  BY <1>1, <1>2, <1>3 DEF Untouched

\* WaitLocalAgent touches none of them.
LEMMA WaitLocalAgentU ==
  ASSUME TInv, Kept, NEW t \in Thread, WaitLocalAgent(t)
  PROVE  Untouched
<1>1. host'.arp = host.arp /\ UNCHANGED <<hard, cancelFn, cancelled>>
  BY HostArp
  DEF WaitLocalAgent
<1>2. \A u \in Thread : (snap'[u].saved = "own") <=> (snap[u].saved = "own")
  BY
  DEF WaitLocalAgent, ConnectError, CallTeardown, Goto, Kept,
      SavedInTeardown, LocalsOK, Snap, NoSnap, TearingDown, Waiting,
      Thread
<1>3. /\ \A u \in Thread : pc[u] \in Undoing => pc'[u] \in Undoing
      /\ \A d \in Conn : pc[d] = "idle" => pc'[d] = "idle"
  BY ConnectionAssumption
  DEF WaitLocalAgent, ConnectError, CallTeardown, Goto, Undoing,
      TearingDown, LocalsOK, Thread, Waiting
<1> QED
  BY <1>1, <1>2, <1>3 DEF Untouched

\* TakeOverDNS touches none of them.
LEMMA TakeOverDNSU ==
  ASSUME TInv, Kept, NEW t \in Thread, TakeOverDNS(t)
  PROVE  Untouched
<1>1. host'.arp = host.arp /\ UNCHANGED <<hard, cancelFn, cancelled>>
  BY HostArp
  DEF TakeOverDNS, Advance, StepFails
<1>2. \A u \in Thread : (snap'[u].saved = "own") <=> (snap[u].saved = "own")
  BY
  DEF TakeOverDNS, Advance, StepFails, ConnectError, CallTeardown, Goto,
      Kept, SavedInTeardown, LocalsOK, Snap, NoSnap, TearingDown,
      Waiting, Thread
<1>3. /\ \A u \in Thread : pc[u] \in Undoing => pc'[u] \in Undoing
      /\ \A d \in Conn : pc[d] = "idle" => pc'[d] = "idle"
  BY ConnectionAssumption
  DEF TakeOverDNS, Advance, StepFails, ConnectError, CallTeardown, Goto,
      Undoing, TearingDown, LocalsOK, Thread, Waiting
<1> QED
  BY <1>1, <1>2, <1>3 DEF Untouched

\* PersistBootState touches none of them.
LEMMA PersistBootStateU ==
  ASSUME TInv, Kept, NEW t \in Thread, PersistBootState(t)
  PROVE  Untouched
<1>1. host'.arp = host.arp /\ UNCHANGED <<hard, cancelFn, cancelled>>
  BY HostArp
  DEF PersistBootState, Advance
<1>2. \A u \in Thread : (snap'[u].saved = "own") <=> (snap[u].saved = "own")
  BY
  DEF PersistBootState, Advance, Goto, Kept, SavedInTeardown, LocalsOK,
      Snap, NoSnap, TearingDown, Waiting, Thread
<1>3. /\ \A u \in Thread : pc[u] \in Undoing => pc'[u] \in Undoing
      /\ \A d \in Conn : pc[d] = "idle" => pc'[d] = "idle"
  BY ConnectionAssumption
  DEF PersistBootState, Advance, Goto, Undoing, TearingDown, LocalsOK,
      Thread, Waiting
<1> QED
  BY <1>1, <1>2, <1>3 DEF Untouched

\* Connected touches none of them.
LEMMA ConnectedU ==
  ASSUME TInv, Kept, NEW t \in Thread, Connected(t)
  PROVE  Untouched
<1>1. host'.arp = host.arp /\ UNCHANGED <<hard, cancelFn, cancelled>>
  BY HostArp
  DEF Connected, Advance
<1>2. \A u \in Thread : (snap'[u].saved = "own") <=> (snap[u].saved = "own")
  BY
  DEF Connected, Advance, Goto, Kept, SavedInTeardown, LocalsOK, Snap,
      NoSnap, TearingDown, Waiting, Thread
<1>3. /\ \A u \in Thread : pc[u] \in Undoing => pc'[u] \in Undoing
      /\ \A d \in Conn : pc[d] = "idle" => pc'[d] = "idle"
  BY ConnectionAssumption
  DEF Connected, Advance, Goto, Undoing, TearingDown, LocalsOK, Thread,
      Waiting
<1> QED
  BY <1>1, <1>2, <1>3 DEF Untouched

\* DropShield touches none of them.
LEMMA DropShieldU ==
  ASSUME TInv, Kept, NEW t \in Thread, DropShield(t)
  PROVE  Untouched
<1>1. host'.arp = host.arp /\ UNCHANGED <<hard, cancelFn, cancelled>>
  BY HostArp
  DEF DropShield, Advance
<1>2. \A u \in Thread : (snap'[u].saved = "own") <=> (snap[u].saved = "own")
  BY
  DEF DropShield, Advance, Goto, Kept, SavedInTeardown, LocalsOK, Snap,
      NoSnap, TearingDown, Waiting, Thread
<1>3. /\ \A u \in Thread : pc[u] \in Undoing => pc'[u] \in Undoing
      /\ \A d \in Conn : pc[d] = "idle" => pc'[d] = "idle"
  BY ConnectionAssumption
  DEF DropShield, Advance, Goto, Undoing, TearingDown, LocalsOK, Thread,
      Waiting
<1> QED
  BY <1>1, <1>2, <1>3 DEF Untouched

\* GiveBackDNS touches none of them.
LEMMA GiveBackDNSU ==
  ASSUME TInv, Kept, NEW t \in Thread, GiveBackDNS(t)
  PROVE  Untouched
<1>1. host'.arp = host.arp /\ UNCHANGED <<hard, cancelFn, cancelled>>
  BY HostArp
  DEF GiveBackDNS, Advance
<1>2. \A u \in Thread : (snap'[u].saved = "own") <=> (snap[u].saved = "own")
  BY
  DEF GiveBackDNS, Advance, Goto, Kept, SavedInTeardown, LocalsOK, Snap,
      NoSnap, TearingDown, Waiting, Thread
<1>3. /\ \A u \in Thread : pc[u] \in Undoing => pc'[u] \in Undoing
      /\ \A d \in Conn : pc[d] = "idle" => pc'[d] = "idle"
  BY ConnectionAssumption
  DEF GiveBackDNS, Advance, Goto, Undoing, TearingDown, LocalsOK,
      Thread, Waiting
<1> QED
  BY <1>1, <1>2, <1>3 DEF Untouched

\* DropRoutes touches none of them.
LEMMA DropRoutesU ==
  ASSUME TInv, Kept, NEW t \in Thread, DropRoutes(t)
  PROVE  Untouched
<1>1. host'.arp = host.arp /\ UNCHANGED <<hard, cancelFn, cancelled>>
  BY HostArp
  DEF DropRoutes, Undone
<1>2. \A u \in Thread : (snap'[u].saved = "own") <=> (snap[u].saved = "own")
  BY
  DEF DropRoutes, Undone, Goto, Kept, SavedInTeardown, LocalsOK, Snap,
      NoSnap, TearingDown, Waiting, Thread
<1>3. /\ \A u \in Thread : pc[u] \in Undoing => pc'[u] \in Undoing
      /\ \A d \in Conn : pc[d] = "idle" => pc'[d] = "idle"
  BY ConnectionAssumption
  DEF DropRoutes, Undone, Goto, Undoing, TearingDown, LocalsOK, Thread,
      Waiting
<1> QED
  BY <1>1, <1>2, <1>3 DEF Untouched

\* DropTunnel touches none of them.
LEMMA DropTunnelU ==
  ASSUME TInv, Kept, NEW t \in Thread, DropTunnel(t)
  PROVE  Untouched
<1>1. host'.arp = host.arp /\ UNCHANGED <<hard, cancelFn, cancelled>>
  BY HostArp
  DEF DropTunnel, Undone
<1>2. \A u \in Thread : (snap'[u].saved = "own") <=> (snap[u].saved = "own")
  BY
  DEF DropTunnel, Undone, Goto, Kept, SavedInTeardown, LocalsOK, Snap,
      NoSnap, TearingDown, Waiting, Thread
<1>3. /\ \A u \in Thread : pc[u] \in Undoing => pc'[u] \in Undoing
      /\ \A d \in Conn : pc[d] = "idle" => pc'[d] = "idle"
  BY ConnectionAssumption
  DEF DropTunnel, Undone, Goto, Undoing, TearingDown, LocalsOK, Thread,
      Waiting
<1> QED
  BY <1>1, <1>2, <1>3 DEF Untouched

\* MonitorStops touches none of them.
LEMMA MonitorStopsU ==
  ASSUME TInv, Kept, NEW c \in Conn, MonitorStops(c)
  PROVE  Untouched
<1>1. host'.arp = host.arp /\ UNCHANGED <<hard, cancelFn, cancelled>>
  BY HostArp
  DEF MonitorStops
<1>2. \A u \in Thread : (snap'[u].saved = "own") <=> (snap[u].saved = "own")
  BY
  DEF MonitorStops, Finish, Goto, Kept, SavedInTeardown, LocalsOK, Snap,
      NoSnap, TearingDown, Waiting, Thread
<1>3. /\ \A u \in Thread : pc[u] \in Undoing => pc'[u] \in Undoing
      /\ \A d \in Conn : pc[d] = "idle" => pc'[d] = "idle"
  BY ConnectionAssumption
  DEF MonitorStops, Finish, Goto, Undoing, TearingDown, LocalsOK,
      Thread, Waiting
<1> QED
  BY <1>1, <1>2, <1>3 DEF Untouched

\* MonitorWakes touches none of them.
LEMMA MonitorWakesU ==
  ASSUME TInv, Kept, NEW c \in Conn, MonitorWakes(c)
  PROVE  Untouched
<1>1. host'.arp = host.arp /\ UNCHANGED <<hard, cancelFn, cancelled>>
  BY HostArp
  DEF MonitorWakes
<1>2. \A u \in Thread : (snap'[u].saved = "own") <=> (snap[u].saved = "own")
  BY
  DEF MonitorWakes, Goto, Kept, SavedInTeardown, LocalsOK, Snap, NoSnap,
      TearingDown, Waiting, Thread
<1>3. /\ \A u \in Thread : pc[u] \in Undoing => pc'[u] \in Undoing
      /\ \A d \in Conn : pc[d] = "idle" => pc'[d] = "idle"
  BY ConnectionAssumption
  DEF MonitorWakes, Goto, Undoing, TearingDown, LocalsOK, Thread,
      Waiting
<1> QED
  BY <1>1, <1>2, <1>3 DEF Untouched

\* Stale touches none of them.
LEMMA StaleU ==
  ASSUME TInv, Kept, NEW c \in Conn, TunnelStale(c) \/ CheckAfterWake(c)
  PROVE  Untouched
<1>1. host'.arp = host.arp /\ UNCHANGED <<hard, cancelFn, cancelled>>
  BY HostArp
  DEF TunnelStale, CheckAfterWake, GoesStale
<1>2. \A u \in Thread : (snap'[u].saved = "own") <=> (snap[u].saved = "own")
  BY
  DEF TunnelStale, CheckAfterWake, GoesStale, Goto, Kept,
      SavedInTeardown, LocalsOK, Snap, NoSnap, TearingDown, Waiting,
      Thread
<1>3. /\ \A u \in Thread : pc[u] \in Undoing => pc'[u] \in Undoing
      /\ \A d \in Conn : pc[d] = "idle" => pc'[d] = "idle"
  BY ConnectionAssumption
  DEF TunnelStale, CheckAfterWake, GoesStale, Goto, Undoing,
      TearingDown, LocalsOK, Thread, Waiting
<1> QED
  BY <1>1, <1>2, <1>3 DEF Untouched

\* BeginReconnect touches none of them.
LEMMA BeginReconnectU ==
  ASSUME TInv, Kept, NEW c \in Conn, BeginReconnect(c)
  PROVE  Untouched
<1>1. host'.arp = host.arp /\ UNCHANGED <<hard, cancelFn, cancelled>>
  BY HostArp
  DEF BeginReconnect
<1>2. \A u \in Thread : (snap'[u].saved = "own") <=> (snap[u].saved = "own")
  BY
  DEF BeginReconnect, Goto, Kept, SavedInTeardown, LocalsOK, Snap,
      NoSnap, TearingDown, Waiting, Thread
<1>3. /\ \A u \in Thread : pc[u] \in Undoing => pc'[u] \in Undoing
      /\ \A d \in Conn : pc[d] = "idle" => pc'[d] = "idle"
  BY ConnectionAssumption
  DEF BeginReconnect, Goto, Undoing, TearingDown, LocalsOK, Thread,
      Waiting
<1> QED
  BY <1>1, <1>2, <1>3 DEF Untouched

\* ReconnectCancelled touches none of them.
LEMMA ReconnectCancelledU ==
  ASSUME TInv, Kept, NEW c \in Conn, ReconnectCancelled(c)
  PROVE  Untouched
<1>1. host'.arp = host.arp /\ UNCHANGED <<hard, cancelFn, cancelled>>
  BY HostArp
  DEF ReconnectCancelled
<1>2. \A u \in Thread : (snap'[u].saved = "own") <=> (snap[u].saved = "own")
  BY
  DEF ReconnectCancelled, Finish, CallTeardown, Goto, Kept,
      SavedInTeardown, LocalsOK, Snap, NoSnap, TearingDown, Waiting,
      Thread
<1>3. /\ \A u \in Thread : pc[u] \in Undoing => pc'[u] \in Undoing
      /\ \A d \in Conn : pc[d] = "idle" => pc'[d] = "idle"
  BY ConnectionAssumption
  DEF ReconnectCancelled, Finish, CallTeardown, Goto, Undoing,
      TearingDown, LocalsOK, Thread, Waiting
<1> QED
  BY <1>1, <1>2, <1>3 DEF Untouched

\* Waits touches none of them.
LEMMA WaitsU ==
  ASSUME TInv, Kept, NEW c \in Conn, LoopHead(c) \/ WaitNetwork(c) \/ WaitExpires(c)
  PROVE  Untouched
<1>1. host'.arp = host.arp /\ UNCHANGED <<hard, cancelFn, cancelled>>
  BY HostArp
  DEF LoopHead, WaitNetwork, WaitExpires, Waiting
<1>2. \A u \in Thread : (snap'[u].saved = "own") <=> (snap[u].saved = "own")
  BY
  DEF LoopHead, WaitNetwork, WaitExpires, Goto, Waiting, Kept,
      SavedInTeardown, LocalsOK, Snap, NoSnap, TearingDown, Waiting,
      Thread
<1>3. /\ \A u \in Thread : pc[u] \in Undoing => pc'[u] \in Undoing
      /\ \A d \in Conn : pc[d] = "idle" => pc'[d] = "idle"
  BY ConnectionAssumption
  DEF LoopHead, WaitNetwork, WaitExpires, Goto, Waiting, Undoing,
      TearingDown, LocalsOK, Thread, Waiting
<1> QED
  BY <1>1, <1>2, <1>3 DEF Untouched

\* WakeFromBackoff touches none of them.
LEMMA WakeFromBackoffU ==
  ASSUME TInv, Kept, NEW c \in Conn, WakeFromBackoff(c)
  PROVE  Untouched
<1>1. host'.arp = host.arp /\ UNCHANGED <<hard, cancelFn, cancelled>>
  BY HostArp
  DEF WakeFromBackoff
<1>2. \A u \in Thread : (snap'[u].saved = "own") <=> (snap[u].saved = "own")
  BY
  DEF WakeFromBackoff, Goto, Kept, SavedInTeardown, LocalsOK, Snap,
      NoSnap, TearingDown, Waiting, Thread
<1>3. /\ \A u \in Thread : pc[u] \in Undoing => pc'[u] \in Undoing
      /\ \A d \in Conn : pc[d] = "idle" => pc'[d] = "idle"
  BY ConnectionAssumption
  DEF WakeFromBackoff, Goto, Undoing, TearingDown, LocalsOK, Thread,
      Waiting
<1> QED
  BY <1>1, <1>2, <1>3 DEF Untouched

\* Attempt touches none of them.
LEMMA AttemptU ==
  ASSUME TInv, Kept, NEW c \in Conn, Attempt(c)
  PROVE  Untouched
<1>1. host'.arp = host.arp /\ UNCHANGED <<hard, cancelFn, cancelled>>
  BY HostArp
  DEF Attempt
<1>2. \A u \in Thread : (snap'[u].saved = "own") <=> (snap[u].saved = "own")
  BY
  DEF Attempt, Goto, Kept, SavedInTeardown, LocalsOK, Snap, NoSnap,
      TearingDown, Waiting, Thread
<1>3. /\ \A u \in Thread : pc[u] \in Undoing => pc'[u] \in Undoing
      /\ \A d \in Conn : pc[d] = "idle" => pc'[d] = "idle"
  BY ConnectionAssumption
  DEF Attempt, Goto, Undoing, TearingDown, LocalsOK, Thread, Waiting
<1> QED
  BY <1>1, <1>2, <1>3 DEF Untouched

\* Connect touches none of them.
LEMMA ConnectU ==
  ASSUME TInv, Kept, NEW t \in Thread, NEW c \in Conn, Connect(t, c)
  PROVE  Untouched
<1>1. host'.arp = host.arp /\ UNCHANGED <<hard, cancelFn, cancelled>>
  BY HostArp
  DEF Connect
<1>2. \A u \in Thread : (snap'[u].saved = "own") <=> (snap[u].saved = "own")
  BY
  DEF Connect, Goto, Kept, SavedInTeardown, LocalsOK, Snap, NoSnap,
      TearingDown, Waiting, Thread
<1>3. /\ \A u \in Thread : pc[u] \in Undoing => pc'[u] \in Undoing
      /\ \A d \in Conn : pc[d] = "idle" => pc'[d] = "idle"
  BY ConnectionAssumption
  DEF Connect, Goto, Undoing, TearingDown, LocalsOK, Thread, Waiting
<1> QED
  BY <1>1, <1>2, <1>3 DEF Untouched

\* Disconnecting touches none of them.
LEMMA DisconnectingU ==
  ASSUME TInv, Kept, NEW t \in Thread, Disconnecting(t)
  PROVE  Untouched
<1>1. host'.arp = host.arp /\ UNCHANGED <<hard, cancelFn, cancelled>>
  BY HostArp
  DEF Disconnecting
<1>2. \A u \in Thread : (snap'[u].saved = "own") <=> (snap[u].saved = "own")
  BY
  DEF Disconnecting, CallTeardown, Goto, Kept, SavedInTeardown,
      LocalsOK, Snap, NoSnap, TearingDown, Waiting, Thread
<1>3. /\ \A u \in Thread : pc[u] \in Undoing => pc'[u] \in Undoing
      /\ \A d \in Conn : pc[d] = "idle" => pc'[d] = "idle"
  BY ConnectionAssumption
  DEF Disconnecting, CallTeardown, Goto, Undoing, TearingDown, LocalsOK,
      Thread, Waiting
<1> QED
  BY <1>1, <1>2, <1>3 DEF Untouched

\* CheckConnected touches none of them.
LEMMA CheckConnectedU ==
  ASSUME TInv, Kept, NEW t \in Thread, NEW c \in Conn, CheckConnected(t, c)
  PROVE  Untouched
<1>1. host'.arp = host.arp /\ UNCHANGED <<hard, cancelFn, cancelled>>
  BY HostArp
  DEF CheckConnected
<1>2. \A u \in Thread : (snap'[u].saved = "own") <=> (snap[u].saved = "own")
  BY
  DEF CheckConnected, Goto, Kept, SavedInTeardown, LocalsOK, Snap,
      NoSnap, TearingDown, Waiting, Thread
<1>3. /\ \A u \in Thread : pc[u] \in Undoing => pc'[u] \in Undoing
      /\ \A d \in Conn : pc[d] = "idle" => pc'[d] = "idle"
  BY ConnectionAssumption
  DEF CheckConnected, Goto, Undoing, TearingDown, LocalsOK, Thread,
      Waiting
<1> QED
  BY <1>1, <1>2, <1>3 DEF Untouched

\* SetKillSwitch touches none of them.
LEMMA SetKillSwitchU ==
  ASSUME TInv, Kept, NEW t \in Thread, SetKillSwitch(t)
  PROVE  Untouched
<1>1. host'.arp = host.arp /\ UNCHANGED <<hard, cancelFn, cancelled>>
  <2> DEFINE c == Target(t)
  <2>1. c \in Conn
    BY DEF SetKillSwitch, Target, TargetOK
  <2>2. ShieldOff(host) \in HostState /\ ShieldOn(ShieldOff(host), c) \in HostState
    BY <2>1, HostOps
  <2>3. /\ ShieldOff(host).arp = host.arp
        /\ ShieldOn(ShieldOff(host), c).arp = host.arp
        /\ WriteFlag(ShieldOn(ShieldOff(host), c)).arp = host.arp
    BY <2>1, <2>2, HostArp
  <2> HIDE DEF c
  <2>4. SwitchOn(c) \/ SwitchOff(c) => host'.arp = host.arp
    BY <2>3 DEF SwitchOn, SwitchOff
  <2> QED
    BY <2>4 DEF SetKillSwitch, c
<1>2. \A u \in Thread : (snap'[u].saved = "own") <=> (snap[u].saved = "own")
  BY
  DEF SetKillSwitch, Finish, Goto, SwitchOn, SwitchOff, Kept,
      SavedInTeardown, LocalsOK, Snap, NoSnap, TearingDown, Waiting,
      Thread
<1>3. /\ \A u \in Thread : pc[u] \in Undoing => pc'[u] \in Undoing
      /\ \A d \in Conn : pc[d] = "idle" => pc'[d] = "idle"
  BY ConnectionAssumption
  DEF SetKillSwitch, Finish, Goto, SwitchOn, SwitchOff, Undoing,
      TearingDown, LocalsOK, Thread, Waiting
<1> QED
  BY <1>1, <1>2, <1>3 DEF Untouched

-----------------------------------------------------------------------------
(* The steps that do touch them. *)

\* HardenHost keeps the three facts.
LEMMA HardenHostK ==
  ASSUME TInv, Kept, NEW t \in Thread, HardenHost(t)
  PROVE  Kept' /\ StillRecoverable
<1> DEFINE c == Target(t)
<1>1. c \in Conn
  BY DEF HardenHost, Target, TargetOK
<1>2. UNCHANGED <<snap, cancelFn, cancelled>> /\ pc' = [pc EXCEPT ![t] = "tunnel"]
  BY DEF HardenHost, Advance, Goto
<1>3. SavedInTeardown'
  BY <1>2 DEF HardenHost, Kept, SavedInTeardown, LocalsOK, TearingDown
<1>4. MonitorStoppable'
  BY <1>2 DEF HardenHost, Kept, MonitorStoppable, LocalsOK, Thread
<1>5. ASSUME SysctlRecoverable PROVE SysctlRecoverable'
  <2>1. CASE hard[c] = "nil"
    <3>1. /\ hard' = [hard EXCEPT ![c] = ApplySaves(host)]
          /\ host'.arp = "hard"
      BY <2>1 DEF HardenHost, NeedsHardener, Harden, HostState
    <3>2. CASE host.arp = "own"
      BY <1>5, <1>1, <3>1, <3>2 DEF ApplySaves, FieldsOK, SysctlRecoverable
    <3>3. CASE host.arp = "hard"
      BY <1>5, <1>1, <1>2, <2>1, <3>1, <3>3 DEF FieldsOK, SysctlRecoverable
    <3> QED
      BY <3>2, <3>3 DEF HostState
  <2>2. CASE hard[c] # "nil"
    BY <1>5, <1>2, <2>2 DEF HardenHost, NeedsHardener, SysctlRecoverable
  <2> QED
    BY <2>1, <2>2
<1> QED
  BY <1>3, <1>4, <1>5 DEF Kept, StillRecoverable

\* StartMonitor keeps the three facts.
LEMMA StartMonitorK ==
  ASSUME TInv, Roles, Kept, NEW t \in Thread, StartMonitor(t)
  PROVE  Kept' /\ StillRecoverable
<1> DEFINE c == Target(t)
<1>1. c \in Conn /\ c \in Thread
  BY DEF StartMonitor, Target, TargetOK, Thread
<1>2. UNCHANGED <<host, hard, snap>>
  BY DEF StartMonitor
<1>3. ASSUME SysctlRecoverable PROVE SysctlRecoverable'
  BY <1>3, <1>2 DEF SysctlRecoverable
<1>4. SavedInTeardown'
  <2>1. pc[c] \notin Undoing
    <3>1. CASE t \in Caller
      BY <1>1, <3>1 DEF StartMonitor, Roles, OneDialer, Dials, Dialing, Target, Undoing, TearingDown
    <3>2. CASE t \in Conn
      BY <3>2 DEF StartMonitor, TargetOK, Target, Undoing, TearingDown
    <3> QED
      BY <3>1, <3>2 DEF Thread
  <2>2. pc[t] \notin Undoing
    BY DEF StartMonitor, Undoing, TearingDown
  <2>3. \A u \in Thread \ {t, c} : pc'[u] = pc[u]
    BY DEF StartMonitor, LocalsOK
  <2> HIDE DEF c
  <2> QED
    BY <1>2, <2>1, <2>2, <2>3 DEF Kept, SavedInTeardown, Undoing
<1>5. MonitorStoppable'
  <2>1. /\ cancelFn'[c]
        /\ \A d \in Conn \ {c} :
              cancelFn'[d] = cancelFn[d] /\ cancelled'[d] = cancelled[d]
    BY <1>1 DEF StartMonitor, InstallsCancel, FieldsOK
  <2>2. \A d \in Conn \ {c} : pc[d] = "idle" => pc'[d] = "idle"
    BY DEF StartMonitor, LocalsOK, Thread
  <2> HIDE DEF c
  <2> QED
    BY <2>1, <2>2 DEF Kept, MonitorStoppable
<1> QED
  BY <1>3, <1>4, <1>5 DEF Kept, StillRecoverable

\* TearDown keeps the three facts.
LEMMA TearDownK ==
  ASSUME TInv, Kept, NEW t \in Thread, TearDown(t)
  PROVE  Kept' /\ StillRecoverable
<1> DEFINE c == Target(t)
           saved == IF TakesHardener(t) THEN hard[c] ELSE "nil"
<1>1. c \in Conn
  BY DEF TearDown, Target, TargetOK
<1>2. /\ UNCHANGED <<host, cancelFn, cancelled>>
      /\ pc' = [pc EXCEPT ![t] = "tdShield"]
      /\ \A u \in Thread \ {t} : snap'[u] = snap[u]
      /\ snap'[t].saved = saved
  BY DEF TearDown, Goto, LocalsOK
<1>3. snap[t].saved # "own"
  BY DEF TearDown, Kept, SavedInTeardown
<1>4. SavedInTeardown'
  BY <1>2 DEF Kept, SavedInTeardown, TearDown, LocalsOK, TearingDown
<1>5. MonitorStoppable'
  BY <1>2 DEF TearDown, Kept, MonitorStoppable, LocalsOK, Thread
<1>6. ASSUME SysctlRecoverable PROVE SysctlRecoverable'
  <2>1. CASE TakesHardener(t) /\ hard[c] = "own"
    BY <1>6, <1>2, <2>1 DEF SysctlRecoverable
  <2>2. CASE TakesHardener(t) /\ hard[c] # "own"
    <3>1. \A d \in Conn : hard[d] = "own" => hard'[d] = "own"
      BY <1>1, <2>2 DEF TearDown, FieldsOK
    <3> QED
      BY <1>6, <1>2, <1>3, <3>1 DEF SysctlRecoverable
  <2>3. CASE ~TakesHardener(t)
    <3>1. hard' = hard
      BY <2>3 DEF TearDown
    <3> QED
      BY <1>6, <1>2, <1>3, <3>1 DEF SysctlRecoverable
  <2> QED
    BY <2>1, <2>2, <2>3
<1> QED
  BY <1>4, <1>5, <1>6 DEF Kept, StillRecoverable

\* RelaxHost keeps the three facts.
LEMMA RelaxHostK ==
  ASSUME TInv, Kept, NEW t \in Thread, RelaxHost(t)
  PROVE  Kept' /\ StillRecoverable
<1>1. /\ \A u \in Thread \ {t} : snap'[u] = snap[u] /\ pc'[u] = pc[u]
      /\ snap'[t].saved # "own"
      /\ pc[t] # "idle"
  BY DEF RelaxHost, ReturnToConnect, ReturnToReconnect, ReturnToEnd, Finish, Goto,
         LocalsOK, NoSnap
<1>2. UNCHANGED <<hard, cancelFn, cancelled>>
  BY DEF RelaxHost
<1>3. SavedInTeardown'
  BY <1>1 DEF Kept, SavedInTeardown
<1>4. MonitorStoppable'
  BY <1>1, <1>2 DEF Kept, MonitorStoppable, Thread
<1>5. ASSUME SysctlRecoverable PROVE SysctlRecoverable'
  <2>1. CASE snap[t].saved = "own"
    BY <1>5, <2>1 DEF RelaxHost, Relax, HostState, SysctlRecoverable
  <2>2. CASE snap[t].saved # "own"
    <3>1. host' = host
      BY <2>2 DEF RelaxHost, Relax
    <3> QED
      BY <1>5, <1>1, <1>2, <2>2, <3>1 DEF SysctlRecoverable
  <2> QED
    BY <2>1, <2>2
<1> QED
  BY <1>3, <1>4, <1>5 DEF Kept, StillRecoverable

\* Disconnect keeps the three facts.
LEMMA DisconnectK ==
  ASSUME TInv, Kept, NEW t \in Thread, NEW c \in Conn, Disconnect(t, c)
  PROVE  Kept' /\ StillRecoverable
<1>1. UNCHANGED <<host, hard, snap>> /\ t \notin Conn /\ pc[t] = "idle"
  BY ConnectionAssumption DEF Disconnect
<1>2. \A u \in Thread \ {t} : pc'[u] = pc[u]
  BY DEF Disconnect, Goto, LocalsOK
<1>3. SavedInTeardown'
  BY <1>1, <1>2 DEF Kept, SavedInTeardown, TearingDown
<1>4. ASSUME SysctlRecoverable PROVE SysctlRecoverable'
  BY <1>4, <1>1 DEF SysctlRecoverable
<1>5. MonitorStoppable'
  <2>1. \A d \in Conn : cancelFn[d] \/ cancelled[d] => cancelFn'[d] \/ cancelled'[d]
    BY DEF Disconnect, Cancel, FieldsOK
  <2> QED
    BY <1>1, <1>2, <2>1 DEF Kept, MonitorStoppable, Thread
<1> QED
  BY <1>3, <1>4, <1>5 DEF Kept, StillRecoverable

\* The three facts hold at the start.
LEMMA InitKept == Init => Kept /\ SysctlRecoverable
<1> SUFFICES ASSUME Init PROVE Kept /\ SysctlRecoverable
  OBVIOUS
<1>1. CleanHost.arp = "own" /\ [CleanHost EXCEPT !.table = BootTable, !.flag = TRUE].arp = "own"
  BY DEF CleanHost
<1>2. host.arp = "own"
  BY <1>1 DEF Init
<1>3. SavedInTeardown
  BY DEF Init, SavedInTeardown, NoSnap
<1>4. MonitorStoppable
  BY DEF Init, MonitorStoppable, Thread
<1> QED
  BY <1>2, <1>3, <1>4 DEF Kept, SysctlRecoverable

\* Every step keeps them.
LEMMA NextKept == TInv /\ Roles /\ Kept /\ [Next]_vars => Kept' /\ StillRecoverable
<1> SUFFICES ASSUME TInv, Roles, Kept, [Next]_vars PROVE Kept' /\ StillRecoverable
  OBVIOUS
<1>1. CASE \E t \in Thread : Dial(t)
  BY <1>1, UntouchedKept, SmartFallbackU, ShieldDownU, ApplyRulesU, SeedAPIsU,
     HardenHostK, BringUpTunnelU, SetUpRoutesU, WaitLocalAgentU, TakeOverDNSU,
     PersistBootStateU, ConnectedU, StartMonitorK DEF Dial
<1>2. CASE \E t \in Thread : Undo(t)
  BY <1>2, UntouchedKept, TearDownK, DropShieldU, GiveBackDNSU, DropRoutesU,
     DropTunnelU, RelaxHostK DEF Undo
<1>3. CASE \E c \in Conn : Monitor(c)
  BY <1>3, UntouchedKept, MonitorStopsU, MonitorWakesU, StaleU, BeginReconnectU,
     ReconnectCancelledU, WaitsU, AttemptU, WakeFromBackoffU DEF Monitor
<1>4. CASE \E t \in Thread : Disconnecting(t) \/ SetKillSwitch(t)
  BY <1>4, UntouchedKept, DisconnectingU, SetKillSwitchU
<1>5. CASE \E t \in Caller, c \in Conn : Call(t, c)
  BY <1>5, UntouchedKept, ConnectU, DisconnectK, CheckConnectedU DEF Call, Thread
<1>6. CASE Environment
  <2>1. UNCHANGED <<host, hard, snap, pc, cancelFn, cancelled>>
    BY <1>6 DEF Environment, NetworkLost, NetworkBack, TriggerReconnect,
       CertificateRejected, CertificateExpires
  <2> QED
    BY <2>1 DEF Kept, SavedInTeardown, StillRecoverable, SysctlRecoverable, MonitorStoppable
<1>7. CASE UNCHANGED vars
  BY <1>7 DEF vars, Kept, SavedInTeardown, StillRecoverable, SysctlRecoverable,
     MonitorStoppable
<1> QED
  BY <1>1, <1>2, <1>3, <1>4, <1>5, <1>6, <1>7 DEF Next, Run

\* Hence they are invariants of the specification.
LEMMA KeptInvariant == Spec => [](Roles /\ Kept /\ SysctlRecoverable)
<1>1. TInv /\ Roles /\ Kept /\ SysctlRecoverable /\ [Next]_vars => Kept' /\ SysctlRecoverable'
  BY NextKept DEF StillRecoverable
<1> QED
  BY <1>1, TypeInvariant, InitRoles, NextRoles, InitKept, PTL DEF Spec

\* No interleaving of the goroutines, of any number of connections, loses the
\* host's own sysctl values (SysctlHardener.Apply and Revert, sysctl.go).
THEOREM SysctlsRecoverable == Spec => []SysctlRecoverable
  BY KeptInvariant, PTL

\* Every monitor and every reconnect loop can be cancelled by Disconnect, or
\* was (monitorConnection, connection.go).
THEOREM MonitorsStoppable == Spec => []MonitorStoppable
<1>1. Kept => MonitorStoppable
  BY DEF Kept
<1> QED
  BY <1>1, KeptInvariant, PTL

-----------------------------------------------------------------------------
(* What a Connection holds, and what it leaves behind *)

Clear(c) == ~ks[c] /\ ~routes[c] /\ tun[c] = NoLink /\ hard[c] = "nil"

\* How far a full teardown has come: what it read is what there is to undo,
\* and what it has passed is undone.
Progress(t) ==
    LET c == arg[t].conn
    IN  /\ ~snap[t].keep
        /\ pc[t] \in Undoing => hard[c] = "nil"
        /\ pc[t] = "tdShield" => (ks[c] => snap[t].ks)
        /\ pc[t] \in Undoing \ {"tdShield"} => ~ks[c]
        /\ pc[t] \in {"tdShield", "tdDNS", "tdRoutes"} => (routes[c] => snap[t].routes)
        /\ pc[t] \in {"tdTunnel", "tdSysctl"} => ~routes[c]
        /\ pc[t] \in Undoing \ {"tdSysctl"} => (tun[c] # NoLink => snap[t].tun # NoLink)
        /\ pc[t] = "tdSysctl" => tun[c] = NoLink

\* A connection nobody has called yet is clear, and an idle caller has none.
Fresh ==
    /\ \A c \in Conn : ref[c] = "new" => Clear(c)
    /\ \A t \in Caller :
          arg[t].conn # NoConn =>
              pc[t] # "idle" /\ arg[t].conn \in Conn /\ ref[arg[t].conn] # "new"

\* A dial that fails undoes everything: it found no kill switch to keep.
DialUndone ==
    \A t \in Caller : Dials(t) =>
        /\ ~arg[t].has
        /\ pc[t] \in TearingDown => Progress(t)
        /\ pc[t] = "fallback" => Clear(arg[t].conn) /\ state[arg[t].conn] = "Disconnected"

Disconnects(t) == pc[t] = "disconnect" \/ (pc[t] \in TearingDown /\ ret[t] = "disconnect")

\* A disconnect undoes everything, and a toggle has a connection that was up.
DisconnectUndone ==
    \A t \in Caller :
        /\ Disconnects(t) => ref[arg[t].conn] = "closed"
        /\ pc[t] \in TearingDown /\ ret[t] = "disconnect" /\ ~raced[arg[t].conn] => Progress(t)
        /\ pc[t] = "toggle" => ref[arg[t].conn] \in {"live", "closed"}

Leaving(c) == \E t \in Caller : Disconnects(t) /\ arg[t].conn = c

\* A closed connection is never dialled again, and is clear when the
\* disconnect is over.
ClosedClears ==
    \A c \in Conn : ref[c] = "closed" /\ ~raced[c] =>
        /\ ~MidAttempt(c)
        /\ pc[c] # "idle" => cancelled[c]
        /\ Leaving(c) \/ Clear(c)
        /\ Leaving(c) \/ pc[c] \notin {"idle", "watch", "wake"}
              \/ state[c] \in {"Disconnected", "Error"}

\* Somebody is at work on a connection that is being dialled.
DialerThere == \A c \in Conn : ref[c] = "dialing" => \E t \in Caller : Dials(t) /\ arg[t].conn = c

Fields == Fresh /\ DialUndone /\ DisconnectUndone /\ ClosedClears /\ DialerThere

-----------------------------------------------------------------------------
(* What a step leaves alone *)

\* Only t moves.
Alone(t) ==
    \A u \in Thread \ {t} :
        pc'[u] = pc[u] /\ ret'[u] = ret[u] /\ arg'[u] = arg[u] /\ snap'[u] = snap[u]

\* Only c changes.
Apart(c) ==
    \A d \in Conn \ {c} :
        /\ ks'[d] = ks[d] /\ routes'[d] = routes[d] /\ tun'[d] = tun[d] /\ hard'[d] = hard[d]
        /\ state'[d] = state[d] /\ ref'[d] = ref[d] /\ raced'[d] = raced[d]
        /\ cancelled'[d] = cancelled[d]

\* A step of a dial: on to the next label, or into the teardown.
DialMove(t) ==
    /\ Alone(t) /\ Apart(arg[t].conn) /\ UNCHANGED <<ref, raced, cancelled>>
    /\ pc[t] \in Dialing /\ arg'[t].conn = arg[t].conn /\ arg'[t].has = arg[t].has
    /\ \/ pc'[t] \in Dialing /\ ret'[t] = ret[t]
       \/ /\ pc'[t] = "teardown" /\ snap'[t].keep = arg[t].has
          /\ ret'[t] = IF t \in Caller THEN "connectFailed" ELSE "attemptFailed"

LEMMA FailedDial ==
  ASSUME TInv, Roles, NEW t \in Thread, pc[t] \in Dialing, ConnectError(t)
  PROVE  /\ Alone(t) /\ arg'[t].conn = arg[t].conn /\ arg'[t].has = arg[t].has
         /\ pc'[t] = "teardown" /\ snap'[t].keep = arg[t].has
         /\ ret'[t] = IF t \in Caller THEN "connectFailed" ELSE "attemptFailed"
<1>1. ret[t] = IF t \in Caller THEN "connect" ELSE "attempt"
  BY ConnectionAssumption DEF Roles, CallerRole, MonitorRole, Thread
<1> QED
  BY <1>1 DEF ConnectError, CallTeardown, Goto, TInv, TypeOK, LocalsOK, Arg, Snap, Alone

LEMMA AdvancedDial ==
  ASSUME TInv, NEW t \in Thread, NEW label \in Dialing, Advance(t, label)
  PROVE  /\ Alone(t) /\ arg'[t].conn = arg[t].conn /\ arg'[t].has = arg[t].has
         /\ pc'[t] \in Dialing /\ ret'[t] = ret[t]
  BY DEF Advance, Goto, TInv, TypeOK, LocalsOK, Alone, Dialing

LEMMA DialMoves ==
  ASSUME TInv, Roles, NEW t \in Thread,
         \/ ShieldDown(t) \/ ApplyRules(t) \/ SeedAPIs(t) \/ HardenHost(t) \/ BringUpTunnel(t)
         \/ SetUpRoutes(t) \/ WaitLocalAgent(t) \/ TakeOverDNS(t) \/ PersistBootState(t)
         \/ Connected(t)
  PROVE  DialMove(t)
<1> USE DEF DialMove
<1>0. /\ pc[t] \in Dialing /\ arg[t].conn \in Conn
      /\ Target(t) = arg[t].conn
  BY DEF ShieldDown, ApplyRules, SeedAPIs, HardenHost, BringUpTunnel, SetUpRoutes, WaitLocalAgent,
     TakeOverDNS, PersistBootState, Connected, Dialing, TInv, TargetOK, Target
<1>1. CASE ShieldDown(t)
  <2>1. Apart(arg[t].conn) /\ UNCHANGED <<ref, raced, cancelled>>
    BY <1>1 DEF ShieldDown, Apart, slots, control, history
  <2>2. Advance(t, "apply") \/ Advance(t, "harden") \/ ConnectError(t)
    BY <1>1 DEF ShieldDown, StepFails
  <2> QED BY <1>0, <2>1, <2>2, FailedDial, AdvancedDial DEF Dialing
<1>2. CASE ApplyRules(t)
  <2>1. Apart(arg[t].conn) /\ UNCHANGED <<ref, raced, cancelled>>
    BY <1>2 DEF ApplyRules, Apart, slots, control
  <2>2. Advance(t, "seed") \/ ConnectError(t)
    BY <1>2 DEF ApplyRules, StepFails
  <2> QED BY <1>0, <2>1, <2>2, FailedDial, AdvancedDial DEF Dialing
<1>3. CASE SeedAPIs(t)
  <2>1. Apart(arg[t].conn) /\ UNCHANGED <<ref, raced, cancelled>>
    BY <1>0, <1>3 DEF SeedAPIs, Apart, control, TInv, TypeOK, FieldsOK
  <2>2. \/ Advance(t, "harden") \/ ConnectError(t)
        \/ Goto(t, "harden") /\ UNCHANGED <<ret, arg, snap>>
    BY <1>3 DEF SeedAPIs, StepFails
  <2>3. CASE Goto(t, "harden") /\ UNCHANGED <<ret, arg, snap>>
    BY <1>0, <2>1, <2>3 DEF Goto, TInv, TypeOK, LocalsOK, Alone, Dialing
  <2> QED BY <1>0, <2>1, <2>2, <2>3, FailedDial, AdvancedDial DEF Dialing
<1>4. CASE HardenHost(t)
  <2>1. Apart(arg[t].conn) /\ UNCHANGED <<ref, raced, cancelled>>
    BY <1>0, <1>4 DEF HardenHost, Apart, control, history, TInv, TypeOK, FieldsOK
  <2>2. Advance(t, "tunnel")
    BY <1>4 DEF HardenHost
  <2> QED BY <1>0, <2>1, <2>2, AdvancedDial DEF Dialing
<1>5. CASE BringUpTunnel(t)
  <2>1. Apart(arg[t].conn) /\ UNCHANGED <<ref, raced, cancelled>>
    BY <1>0, <1>5 DEF BringUpTunnel, Apart, control, history, TInv, TypeOK, FieldsOK
  <2>2. \/ ConnectError(t)
        \/ /\ \E i \in IfIndex : arg' = [arg EXCEPT ![t].link = i]
           /\ Goto(t, "routes") /\ UNCHANGED <<ret, snap>>
    BY <1>5 DEF BringUpTunnel
  <2>3. CASE /\ \E i \in IfIndex : arg' = [arg EXCEPT ![t].link = i]
             /\ Goto(t, "routes") /\ UNCHANGED <<ret, snap>>
    BY <1>0, <2>1, <2>3 DEF Goto, TInv, TypeOK, LocalsOK, Arg, Alone, Dialing
  <2> QED BY <1>0, <2>1, <2>2, <2>3, FailedDial DEF Dialing
<1>6. CASE SetUpRoutes(t)
  <2>1. Apart(arg[t].conn) /\ UNCHANGED <<ref, raced, cancelled>>
    BY <1>0, <1>6 DEF SetUpRoutes, Apart, control, history, TInv, TypeOK, FieldsOK
  <2>2. Advance(t, "agent") \/ ConnectError(t)
    BY <1>6 DEF SetUpRoutes
  <2> QED BY <1>0, <2>1, <2>2, FailedDial, AdvancedDial DEF Dialing
<1>7. CASE WaitLocalAgent(t)
  <2>1. Apart(arg[t].conn) /\ UNCHANGED <<ref, raced, cancelled>>
    BY <1>7 DEF WaitLocalAgent, Apart, slots, control, history
  <2>2. \/ ConnectError(t)
        \/ arg' = [arg EXCEPT ![t].link = NoLink] /\ Goto(t, "dns") /\ UNCHANGED <<ret, snap>>
    BY <1>7 DEF WaitLocalAgent
  <2>3. CASE arg' = [arg EXCEPT ![t].link = NoLink] /\ Goto(t, "dns") /\ UNCHANGED <<ret, snap>>
    BY <1>0, <2>1, <2>3 DEF Goto, TInv, TypeOK, LocalsOK, Arg, Alone, Dialing
  <2> QED BY <1>0, <2>1, <2>2, <2>3, FailedDial DEF Dialing
<1>8. CASE TakeOverDNS(t)
  <2>1. Apart(arg[t].conn) /\ UNCHANGED <<ref, raced, cancelled>>
    BY <1>8 DEF TakeOverDNS, Apart, slots, control, history
  <2>2. Advance(t, "persist") \/ ConnectError(t)
    BY <1>8 DEF TakeOverDNS, StepFails
  <2> QED BY <1>0, <2>1, <2>2, FailedDial, AdvancedDial DEF Dialing
<1>9. CASE PersistBootState(t)
  <2>1. Apart(arg[t].conn) /\ UNCHANGED <<ref, raced, cancelled>>
    BY <1>9 DEF PersistBootState, Apart, slots, control, history
  <2>2. Advance(t, "connected")
    BY <1>9 DEF PersistBootState
  <2> QED BY <1>0, <2>1, <2>2, AdvancedDial DEF Dialing
<1>10. CASE Connected(t)
  <2>1. Apart(arg[t].conn) /\ UNCHANGED <<ref, raced, cancelled>>
    BY <1>0, <1>10 DEF Connected, Apart, slots, control, history, TInv, TypeOK, FieldsOK
  <2>2. Advance(t, "remonitor")
    BY <1>10 DEF Connected
  <2> QED BY <1>0, <2>1, <2>2, AdvancedDial DEF Dialing
<1> QED BY <1>1, <1>2, <1>3, <1>4, <1>5, <1>6, <1>7, <1>8, <1>9, <1>10

Shrinks(c) ==
    /\ ks'[c] => ks[c]
    /\ routes'[c] => routes[c]
    /\ tun'[c] \in {tun[c], NoLink}
    /\ hard'[c] \in {hard[c], "nil"}

\* A step inside a teardown.
UndoMove(t) ==
    /\ Alone(t) /\ Apart(arg[t].conn) /\ UNCHANGED <<ref, raced, cancelled, state>>
    /\ pc[t] \in TearingDown /\ pc'[t] \in Undoing
    /\ arg'[t] = arg[t] /\ ret'[t] = ret[t]
    /\ Shrinks(arg[t].conn)
    /\ Progress(t) => Progress(t)'

LEMMA UndoMoves ==
  ASSUME TInv, NEW t \in Thread,
         TearDown(t) \/ DropShield(t) \/ GiveBackDNS(t) \/ DropRoutes(t) \/ DropTunnel(t)
  PROVE  UndoMove(t)
<1>0. /\ pc[t] \in TearingDown /\ arg[t].conn \in Conn /\ Target(t) = arg[t].conn
      /\ snap[t] \in Snap /\ NoLink \in Link
  BY DEF TearDown, DropShield, GiveBackDNS, DropRoutes, DropTunnel, TearingDown, TInv, TypeOK,
     LocalsOK, TargetOK, Target, Link
<1>1. CASE TearDown(t)
  <2>1. Alone(t) /\ pc'[t] = "tdShield" /\ arg' = arg /\ ret' = ret
    BY <1>1 DEF TearDown, Goto, TInv, TypeOK, LocalsOK, Alone
  <2>2. Apart(arg[t].conn) /\ Shrinks(arg[t].conn) /\ UNCHANGED <<ref, raced, cancelled, state>>
    BY <1>0, <1>1 DEF TearDown, Apart, Shrinks, control, history, TInv, TypeOK, FieldsOK
  <2>3. Progress(t) => Progress(t)'
    BY <1>0, <1>1, <2>1 DEF TearDown, Progress, TakesHardener, TInv, TypeOK, FieldsOK, LocalsOK, Snap,
       Undoing, TearingDown
  <2> QED BY <1>0, <2>1, <2>2, <2>3 DEF UndoMove, Undoing, TearingDown
<1>2. CASE DropShield(t)
  <2>1. Alone(t) /\ pc'[t] = "tdDNS" /\ arg' = arg /\ ret' = ret /\ snap' = snap
    BY <1>2 DEF DropShield, Advance, Goto, TInv, TypeOK, LocalsOK, Alone
  <2>2. Apart(arg[t].conn) /\ Shrinks(arg[t].conn) /\ UNCHANGED <<ref, raced, cancelled, state>>
    BY <1>0, <1>2 DEF DropShield, Apart, Shrinks, control, history, TInv, TypeOK, FieldsOK
  <2>3. Progress(t) => Progress(t)'
    BY <1>0, <1>2, <2>1 DEF DropShield, Progress, DisablesShield, TInv, TypeOK, FieldsOK, Undoing,
       TearingDown
  <2> QED BY <1>0, <2>1, <2>2, <2>3 DEF UndoMove, Undoing, TearingDown
<1>3. CASE GiveBackDNS(t)
  <2>1. Alone(t) /\ pc'[t] = "tdRoutes" /\ arg' = arg /\ ret' = ret /\ snap' = snap
    BY <1>3 DEF GiveBackDNS, Advance, Goto, TInv, TypeOK, LocalsOK, Alone
  <2>2. Apart(arg[t].conn) /\ Shrinks(arg[t].conn) /\ UNCHANGED <<ref, raced, cancelled, state>>
    BY <1>0, <1>3 DEF GiveBackDNS, Apart, Shrinks, slots, control, history
  <2>3. Progress(t) => Progress(t)'
    BY <1>0, <1>3, <2>1 DEF GiveBackDNS, slots, Progress, Undoing, TearingDown
  <2> QED BY <1>0, <2>1, <2>2, <2>3 DEF UndoMove, Undoing, TearingDown
<1>4. CASE DropRoutes(t)
  <2>1. Alone(t) /\ pc'[t] = "tdTunnel" /\ arg' = arg /\ ret' = ret
        /\ snap'[t].keep = snap[t].keep /\ snap'[t].tun = snap[t].tun
    BY <1>4 DEF DropRoutes, Undone, Goto, TInv, TypeOK, LocalsOK, Snap, Alone
  <2>2. Apart(arg[t].conn) /\ Shrinks(arg[t].conn) /\ UNCHANGED <<ref, raced, cancelled, state>>
    BY <1>0, <1>4 DEF DropRoutes, Apart, Shrinks, control, history, TInv, TypeOK, FieldsOK
  <2>3. Progress(t) => Progress(t)'
    BY <1>0, <1>4, <2>1 DEF DropRoutes, Progress, TInv, TypeOK, FieldsOK, Undoing, TearingDown
  <2> QED BY <1>0, <2>1, <2>2, <2>3 DEF UndoMove, Undoing, TearingDown
<1>5. CASE DropTunnel(t)
  <2>1. Alone(t) /\ pc'[t] = "tdSysctl" /\ arg' = arg /\ ret' = ret
        /\ snap'[t].keep = snap[t].keep
    BY <1>5 DEF DropTunnel, Undone, Goto, TInv, TypeOK, LocalsOK, Snap, Alone
  <2>2. Apart(arg[t].conn) /\ Shrinks(arg[t].conn) /\ UNCHANGED <<ref, raced, cancelled, state>>
    BY <1>0, <1>5 DEF DropTunnel, Apart, Shrinks, control, history, TInv, TypeOK, FieldsOK
  <2>3. Progress(t) => Progress(t)'
    BY <1>0, <1>5, <2>1 DEF DropTunnel, Progress, TInv, TypeOK, FieldsOK, Undoing, TearingDown
  <2> QED BY <1>0, <2>1, <2>2, <2>3 DEF UndoMove, Undoing, TearingDown
<1> QED BY <1>1, <1>2, <1>3, <1>4, <1>5

\* What others have undone stays undone.
LEMMA ProgressKept ==
  ASSUME NEW t \in Thread, NEW u \in Thread \ {t}, Alone(t), Progress(u),
         arg[u].conn \in Conn,
         arg[u].conn # arg[t].conn => Apart(arg[t].conn),
         arg[u].conn = arg[t].conn => Shrinks(arg[u].conn)
  PROVE  Progress(u)'
<1> DEFINE c == arg[u].conn
<1>1. /\ pc'[u] = pc[u] /\ snap'[u] = snap[u] /\ arg'[u].conn = c
  BY DEF Alone
<1>2. (ks'[c] => ks[c]) /\ (routes'[c] => routes[c]) /\ tun'[c] \in {tun[c], NoLink}
      /\ hard'[c] \in {hard[c], "nil"}
  BY DEF Apart, Shrinks
<1> QED BY <1>1, <1>2 DEF Progress

LEMMA UndoFields ==
  ASSUME TInv, Roles, Fields, NEW t \in Thread, UndoMove(t)
  PROVE  Fields'
<1> USE DEF UndoMove, Fields
<1>0. /\ arg[t].conn \in Conn /\ pc[t] # "idle"
      /\ \A u \in Thread : arg'[u] = arg[u] /\ ret'[u] = ret[u]
      /\ \A u \in Thread \ {t} : pc'[u] = pc[u]
      /\ Caller \subseteq Thread /\ Conn \subseteq Thread
      /\ pc'[t] \in TearingDown /\ pc[t] \in TearingDown
  BY DEF TInv, TargetOK, Alone, TearingDown, Undoing, Thread
<1>1. \A u \in Caller : (Dials(u)' <=> Dials(u)) /\ (Disconnects(u)' <=> Disconnects(u))
  BY <1>0 DEF Dials, Disconnects, Dialing, TearingDown
<1>2. \A d \in Conn : Clear(d) => Clear(d)'
  BY <1>0 DEF Clear, Apart, Shrinks
<1>3. \A u \in Caller : arg[u].conn \in Conn /\ Progress(u) => Progress(u)'
  BY <1>0, ProgressKept
<1>4. Fresh'
  BY <1>0, <1>2 DEF Fresh, TearingDown
<1>5. \A u \in Caller : Dials(u) => arg[u].conn \in Conn
  BY DEF TInv, TargetOK, Dials, Dialing, TearingDown, Thread
<1>6. DialUndone'
  <2>1. \A u \in Caller : Dials(u) /\ pc'[u] \in TearingDown => Progress(u)'
    BY <1>0, <1>1, <1>3, <1>5 DEF DialUndone
  <2>2. \A u \in Caller : pc'[u] = "fallback" => u # t /\ pc[u] = "fallback" /\ Dials(u)
    BY <1>0 DEF TearingDown, Dials
  <2>3. \A u \in Caller : pc'[u] = "fallback" =>
           Clear(arg[u].conn)' /\ state'[arg'[u].conn] = "Disconnected"
    BY <1>0, <1>2, <1>5, <2>2 DEF DialUndone, Clear
  <2> QED BY <1>0, <1>1, <2>1, <2>3 DEF DialUndone, Clear
<1>7. DisconnectUndone'
  <2>1. \A u \in Caller : Disconnects(u) => arg[u].conn \in Conn
    BY DEF TInv, TargetOK, Disconnects, TearingDown, Thread
  <2>2. \A u \in Caller : pc'[u] \in TearingDown /\ ret'[u] = "disconnect" /\ ~raced'[arg'[u].conn]
            => Progress(u)'
    <3>1. \A u \in Caller : pc'[u] \in TearingDown => pc[u] \in TearingDown
      BY <1>0
    <3> QED BY <1>0, <1>3, <2>1, <3>1 DEF DisconnectUndone, Disconnects
  <2>3. \A u \in Caller : pc'[u] = "toggle" => pc[u] = "toggle"
    BY <1>0 DEF TearingDown
  <2> QED BY <1>0, <1>1, <2>2, <2>3 DEF DisconnectUndone
<1>8. ClosedClears'
  <2>1. \A d \in Conn : Leaving(d) => Leaving(d)'
    BY <1>0, <1>1 DEF Leaving
  <2>2. \A d \in Conn : /\ MidAttempt(d)' => MidAttempt(d)
                        /\ pc'[d] # "idle" => pc[d] # "idle"
                        /\ pc'[d] \in {"idle", "watch", "wake"} => pc[d] \in {"idle", "watch", "wake"}
    BY <1>0 DEF MidAttempt, Dialing, TearingDown
  <2> QED BY <1>2, <2>1, <2>2 DEF ClosedClears
<1>9. DialerThere'
  BY <1>0, <1>1 DEF DialerThere
<1> QED BY <1>4, <1>6, <1>7, <1>8, <1>9

-----------------------------------------------------------------------------
(* A dial has its connection to itself, but for a disconnect that raced. *)

LEMMA DialAlone ==
  ASSUME TInv, Roles, Fields, NEW t \in Thread, pc[t] \in Dialing
  PROVE  /\ arg[t].conn \in Conn /\ ref[arg[t].conn] # "new"
         /\ ref[arg[t].conn] = "closed" => raced[arg[t].conn]
         /\ t \in Caller => ref[arg[t].conn] = "dialing" /\ Dials(t)
         /\ t \in Conn => arg[t].conn = t
         /\ \A u \in Caller \ {t} :
               /\ Dials(u) => arg[u].conn # arg[t].conn
               /\ Disconnects(u) /\ arg[u].conn = arg[t].conn => raced[arg[t].conn]
<1>0. pc[t] # "idle" /\ arg[t].conn \in Conn /\ (t \in Conn => arg[t].conn = t)
  BY DEF TInv, TargetOK, Dialing
<1>1. CASE t \in Caller
  <2>1. Dials(t) /\ ref[arg[t].conn] = "dialing"
    BY <1>1 DEF Dials, Roles, OneDialer
  <2> QED
    BY <1>0, <1>1, <2>1, ConnectionAssumption DEF Roles, OneDialer, Fields, DisconnectUndone
<1>2. CASE t \in Conn
  <2>1. ref[t] \notin {"new", "dialing"}
    BY <1>0, <1>2 DEF Roles, OneDialer
  <2>2. ref[t] = "closed" => raced[t]
    BY <1>2 DEF Fields, ClosedClears, MidAttempt
  <2> QED
    BY <1>0, <1>2, <2>1, <2>2, ConnectionAssumption DEF Roles, OneDialer, Fields, DisconnectUndone
<1> QED BY <1>1, <1>2 DEF Thread

LEMMA DialFields ==
  ASSUME TInv, Roles, Fields, NEW t \in Thread, DialMove(t)
  PROVE  Fields'
<1> DEFINE c == arg[t].conn
<1>0. /\ c \in Conn /\ ref[c] # "new" /\ pc[t] \in Dialing
      /\ ref[c] = "closed" => raced[c]
      /\ t \in Caller => ref[c] = "dialing" /\ Dials(t)
      /\ t \in Conn => c = t
      /\ \A u \in Caller \ {t} : /\ Dials(u) => arg[u].conn # c
                                 /\ Disconnects(u) /\ arg[u].conn = c => raced[c]
  BY DialAlone DEF DialMove
<1>1. /\ ref' = ref /\ raced' = raced /\ cancelled' = cancelled
      /\ arg'[t].conn = c /\ arg'[t].has = arg[t].has
      /\ pc'[t] \in Dialing \cup {"teardown"}
      /\ Caller \subseteq Thread /\ Conn \subseteq Thread
      /\ \A u \in Thread \ {t} : pc'[u] = pc[u] /\ ret'[u] = ret[u] /\ arg'[u] = arg[u]
  BY DEF DialMove, Alone, Thread
<1>2. \A d \in Conn \ {c} : d # t /\ (Clear(d) => Clear(d)') /\ state'[d] = state[d]
  BY <1>0, ConnectionAssumption DEF DialMove, Apart, Clear, Thread
<1>3. \A u \in Caller \ {t} : (Dials(u)' <=> Dials(u)) /\ (Disconnects(u)' <=> Disconnects(u))
  BY <1>1 DEF Dials, Disconnects
<1>4. \A u \in Caller \ {t} : arg[u].conn \in Conn \ {c} /\ Progress(u) => Progress(u)'
  BY <1>1, ProgressKept DEF DialMove
<1>5. t \in Caller => Dials(t)' /\ ~Disconnects(t) /\ ~Disconnects(t)'
  BY <1>0, <1>1 DEF DialMove, Dials, Disconnects, Dialing, TearingDown
<1>6. Fresh'
  <2>1. \A d \in Conn : ref'[d] = "new" => Clear(d)'
    BY <1>0, <1>1, <1>2 DEF Fields, Fresh
  <2>2. pc'[t] # "idle"
    BY <1>1 DEF Dialing
  <2> QED BY <1>0, <1>1, <2>1, <2>2 DEF Fields, Fresh
<1>7. DialUndone'
  <2>1. ASSUME t \in Caller
        PROVE  ~arg'[t].has /\ (pc'[t] \in TearingDown => Progress(t)') /\ pc'[t] # "fallback"
    <3>1. ~arg[t].has
      BY <1>0, <2>1 DEF Fields, DialUndone
    <3>2. pc'[t] = "teardown" => ~snap'[t].keep
      BY <1>0, <3>1 DEF DialMove, Dialing
    <3>3. pc'[t] = "teardown" => Progress(t)'
      BY <3>2 DEF Progress, Undoing, TearingDown
    <3> QED BY <1>1, <3>1, <3>3 DEF Dialing, TearingDown
  <2>2. ASSUME NEW u \in Caller \ {t}, Dials(u)
        PROVE  /\ ~arg'[u].has /\ (pc'[u] \in TearingDown => Progress(u)')
               /\ pc'[u] = "fallback" => Clear(arg[u].conn)' /\ state'[arg[u].conn] = "Disconnected"
    <3>1. arg[u].conn \in Conn \ {c}
      BY <1>0, <2>2 DEF TInv, TargetOK, Dials, Dialing, TearingDown, Thread
    <3> QED BY <1>1, <1>2, <1>4, <2>2, <3>1 DEF Fields, DialUndone, Clear
  <2> QED BY <1>1, <1>3, <2>1, <2>2 DEF DialUndone, Clear
<1>8. DisconnectUndone'
  <2>1. ASSUME NEW u \in Caller \ {t}, pc'[u] \in TearingDown, ret'[u] = "disconnect",
               ~raced'[arg'[u].conn]
        PROVE  Progress(u)'
    <3>1. Disconnects(u) /\ Progress(u)
      BY <1>1, <2>1 DEF Fields, DisconnectUndone, Disconnects
    <3>2. arg[u].conn \in Conn \ {c}
      BY <1>0, <1>1, <2>1, <3>1 DEF TInv, TargetOK, Disconnects, TearingDown, Thread
    <3> QED BY <1>4, <3>1, <3>2
  <2>2. t \in Caller => pc'[t] # "toggle" /\ ~(pc'[t] \in TearingDown /\ ret'[t] = "disconnect")
    BY <1>1, <1>5 DEF Disconnects, Dialing
  <2> QED BY <1>1, <1>3, <1>5, <2>1, <2>2 DEF Fields, DisconnectUndone
<1>9. ClosedClears'
  <2>1. \A d \in Conn : Leaving(d) => Leaving(d)'
    BY <1>1, <1>3, <1>5 DEF Leaving
  <2>2. \A d \in Conn \ {c} : (MidAttempt(d)' <=> MidAttempt(d)) /\ pc'[d] = pc[d]
    BY <1>1, <1>2 DEF MidAttempt
  <2> QED BY <1>0, <1>1, <1>2, <2>1, <2>2 DEF Fields, ClosedClears
<1>10. DialerThere'
  BY <1>1, <1>3, <1>5 DEF Fields, DialerThere
<1> QED BY <1>6, <1>7, <1>8, <1>9, <1>10 DEF Fields

-----------------------------------------------------------------------------
(* The monitor, and the teardowns it calls, when they return. *)

\* The monitor of c goes on: it dials only while nobody has cancelled it, and
\* it ends where it watched, or leaves the connection disconnected.
MonitorMove(c) ==
    /\ Alone(c) /\ UNCHANGED <<ref, raced, cancelled, ks, routes, tun, hard>>
    /\ \A d \in Conn \ {c} : state'[d] = state[d]
    /\ pc[c] # "idle"
    /\ MidAttempt(c)' => MidAttempt(c) \/ ~cancelled[c]
    /\ pc'[c] \in {"idle", "watch", "wake"} =>
          \/ state'[c] \in {"Disconnected", "Error"}
          \/ pc[c] \in {"idle", "watch", "wake"} /\ state'[c] = state[c]

LEMMA MonitorMoves ==
  ASSUME TInv, Roles, NEW c \in Conn,
         \/ Monitor(c)
         \/ RelaxHost(c)
  PROVE  MonitorMove(c)
<1>0. c \in Thread /\ c \notin Caller /\ LocalsOK /\ FieldsOK
  BY ConnectionAssumption DEF Thread, TInv, TypeOK
<1>1. CASE MonitorStops(c)
  BY <1>0, <1>1 DEF MonitorStops, Finish, Goto, slots, history, LocalsOK, MonitorMove, Alone, MidAttempt, Dialing
<1>2. CASE MonitorWakes(c)
  BY <1>0, <1>2 DEF MonitorWakes, Goto, slots, history, LocalsOK, MonitorMove, Alone, MidAttempt, Dialing
<1>3. CASE TunnelStale(c)
  BY <1>0, <1>3 DEF TunnelStale, GoesStale, Goto, slots, control, history, LocalsOK, FieldsOK,
     MonitorMove, Alone, MidAttempt, Dialing
<1>4. CASE CheckAfterWake(c)
  BY <1>0, <1>4 DEF CheckAfterWake, GoesStale, Goto, slots, control, history, LocalsOK, FieldsOK,
     MonitorMove, Alone, MidAttempt, Dialing
<1>5. CASE BeginReconnect(c)
  BY <1>0, <1>5 DEF BeginReconnect, Goto, slots, control, history, LocalsOK, MonitorMove, Alone,
     MidAttempt, Dialing
<1>6. CASE ReconnectCancelled(c)
  BY <1>0, <1>6 DEF ReconnectCancelled, CallTeardown, Finish, Goto, slots, control, history, LocalsOK,
     FieldsOK, MonitorMove, Alone, MidAttempt, Dialing, Waiting
<1>7. CASE LoopHead(c)
  BY <1>0, <1>7 DEF LoopHead, Goto, slots, control, history, LocalsOK, MonitorMove, Alone
<1>8. CASE WaitNetwork(c)
  BY <1>0, <1>8 DEF WaitNetwork, Goto, slots, control, history, LocalsOK, MonitorMove, Alone, MidAttempt
<1>9. CASE Attempt(c)
  BY <1>0, <1>9 DEF Attempt, Goto, slots, control, history, LocalsOK, MonitorMove, Alone, MidAttempt
<1>10. CASE WakeFromBackoff(c)
  BY <1>0, <1>10 DEF WakeFromBackoff, Goto, slots, history, LocalsOK, MonitorMove, Alone, MidAttempt, Dialing
<1>11. CASE WaitExpires(c)
  BY <1>0, <1>11 DEF WaitExpires, Goto, slots, control, history, LocalsOK, MonitorMove, Alone,
     MidAttempt, Dialing, Waiting
<1>12. CASE RelaxHost(c)
  <2>0. ret[c] \in {"reconnect", "attemptFailed", "cancelled"} /\ Target(c) = c
    BY <1>0, <1>12 DEF RelaxHost, Roles, MonitorRole, TearingDown, TInv, TargetOK, Target
  <2>1. CASE ReturnToReconnect(c)
    BY <1>0, <1>12, <2>1 DEF RelaxHost, ReturnToReconnect, Goto, slots, control, history, LocalsOK,
       MonitorMove, Alone, MidAttempt, Dialing
  <2>2. CASE ReturnToEnd(c)
    BY <1>0, <1>12, <2>0, <2>2 DEF RelaxHost, ReturnToEnd, Finish, Goto, slots, control, history,
       LocalsOK, FieldsOK, MonitorMove, Alone, MidAttempt, Dialing
  <2> QED BY <1>12, <2>0, <2>1, <2>2 DEF RelaxHost, ReturnToConnect
<1> QED
  BY <1>1, <1>2, <1>3, <1>4, <1>5, <1>6, <1>7, <1>8, <1>9, <1>10, <1>11, <1>12 DEF Monitor

LEMMA MonitorFields ==
  ASSUME TInv, Roles, Fields, NEW c \in Conn, MonitorMove(c)
  PROVE  Fields'
<1> USE DEF Fields
<1>1. /\ ref' = ref /\ raced' = raced /\ cancelled' = cancelled
      /\ ks' = ks /\ routes' = routes /\ tun' = tun /\ hard' = hard
      /\ \A u \in Caller : /\ pc'[u] = pc[u] /\ ret'[u] = ret[u]
                           /\ arg'[u] = arg[u] /\ snap'[u] = snap[u]
      /\ \A d \in Conn \ {c} : pc'[d] = pc[d] /\ state'[d] = state[d]
  BY ConnectionAssumption DEF MonitorMove, Alone, Thread
<1>2. ref[c] \notin {"new", "dialing"}
  BY DEF MonitorMove, Roles, OneDialer
<1>3. \A u \in Caller : /\ Dials(u)' <=> Dials(u)
                        /\ Disconnects(u)' <=> Disconnects(u)
                        /\ Progress(u)' <=> Progress(u)
  BY <1>1 DEF Dials, Disconnects, Progress
<1>4. Fresh' /\ DisconnectUndone' /\ DialerThere'
  BY <1>1, <1>3 DEF Fresh, Clear, DisconnectUndone, DialerThere
<1>5. DialUndone'
  <2>1. \A u \in Caller : pc[u] = "fallback" => arg[u].conn \in Conn \ {c} /\ Dials(u)
    BY <1>2 DEF Dials, Roles, OneDialer, TInv, TargetOK, Thread
  <2> QED BY <1>1, <1>3, <2>1 DEF DialUndone, Clear
<1>6. ClosedClears'
  <2>1. \A d \in Conn : Leaving(d)' <=> Leaving(d)
    BY <1>1, <1>3 DEF Leaving
  <2>2. \A d \in Conn \ {c} : MidAttempt(d)' <=> MidAttempt(d)
    BY <1>1 DEF MidAttempt
  <2>3. ASSUME ref[c] = "closed", ~raced[c]
        PROVE  /\ ~MidAttempt(c)' /\ cancelled[c]
               /\ Leaving(c) \/ Clear(c)
               /\ \/ Leaving(c) \/ pc'[c] \notin {"idle", "watch", "wake"}
                  \/ state'[c] \in {"Disconnected", "Error"}
    BY <2>3 DEF ClosedClears, MonitorMove
  <2> QED BY <1>1, <2>1, <2>2, <2>3 DEF ClosedClears, Clear
<1> QED BY <1>4, <1>5, <1>6

-----------------------------------------------------------------------------
(* The callers' other steps. *)

\* A full teardown that has come to its end leaves the fields clear.
LEMMA UndoneIsClear ==
  ASSUME TInv, NEW t \in Thread, pc[t] = "tdSysctl", Progress(t)
  PROVE  Clear(arg[t].conn)
  BY DEF Progress, Clear, Undoing, TearingDown

\* A dial is over, one way or the other: the connection is clear.
DialOver(t) ==
    /\ Alone(t) /\ UNCHANGED <<raced, cancelled, ks, routes, tun, hard>>
    /\ \A d \in Conn \ {arg[t].conn} : state'[d] = state[d] /\ ref'[d] = ref[d]
    /\ t \in Caller /\ Dials(t) /\ Clear(arg[t].conn)
    /\ \/ /\ pc'[t] = "idle" /\ arg'[t].conn = NoConn
          /\ ref'[arg[t].conn] = "closed"
          /\ state'[arg[t].conn] = "Disconnected"
       \/ /\ pc'[t] = "fallback" /\ arg'[t] = arg[t] /\ ref' = ref
          /\ state'[arg[t].conn] = "Disconnected"
       \/ /\ pc'[t] = "shield" /\ ret'[t] = "connect" /\ ref' = ref
          /\ arg'[t].conn = arg[t].conn /\ ~arg'[t].has

LEMMA DialOvers ==
  ASSUME TInv, Roles, Fields, NEW t \in Caller,
         \/ SmartFallback(t)
         \/ RelaxHost(t) /\ ReturnToConnect(t)
  PROVE  DialOver(t)
<1>0. t \in Thread /\ LocalsOK /\ FieldsOK /\ NoArg.conn = NoConn
  BY DEF Thread, TInv, TypeOK, NoArg
<1>1. CASE SmartFallback(t)
  <2>1. /\ Dials(t) /\ arg[t].conn \in Conn /\ Target(t) = arg[t].conn
        /\ Clear(arg[t].conn) /\ state[arg[t].conn] = "Disconnected"
    BY <1>0, <1>1 DEF SmartFallback, Dials, Fields, DialUndone, TInv, TargetOK, Target
  <2>2. /\ UNCHANGED <<raced, cancelled, ks, routes, tun, hard>>
    BY <1>1 DEF SmartFallback, slots, control, history
  <2>3. CASE Fault /\ Finish(t) /\ ref' = [ref EXCEPT ![Target(t)] = "closed"] /\ UNCHANGED state
    BY <1>0, <2>1, <2>2, <2>3 DEF Finish, Goto, LocalsOK, FieldsOK, DialOver, Alone
  <2>4. CASE /\ state' = [state EXCEPT ![Target(t)] = "Connecting"]
             /\ arg' = [arg EXCEPT ![t].proto = "stealth", ![t].has = ks[Target(t)],
                                   ![t].cred = "good"]
             /\ Goto(t, "shield")
             /\ ret' = [ret EXCEPT ![t] = "connect"]
             /\ UNCHANGED <<snap, ref, faults>>
    <3>1. /\ arg'[t].conn = arg[t].conn /\ ~arg'[t].has
          /\ \A u \in Thread \ {t} : arg'[u] = arg[u]
      BY <1>0, <2>1, <2>4 DEF Clear, LocalsOK, Arg
    <3> QED BY <1>0, <2>1, <2>2, <2>4, <3>1 DEF Goto, LocalsOK, FieldsOK, DialOver, Alone
  <2> QED BY <1>1, <2>3, <2>4 DEF SmartFallback
<1>2. CASE RelaxHost(t) /\ ReturnToConnect(t)
  <2>1. /\ Dials(t) /\ arg[t].conn \in Conn /\ Target(t) = arg[t].conn
        /\ Clear(arg[t].conn)
    BY <1>0, <1>2, UndoneIsClear DEF RelaxHost, ReturnToConnect, Dials, TearingDown, Fields, DialUndone,
       TInv, TargetOK, Target
  <2>2. /\ UNCHANGED <<raced, cancelled, ks, routes, tun, hard>>
    BY <1>2 DEF RelaxHost, slots, control, history
  <2>3. CASE Finish(t) /\ ref' = [ref EXCEPT ![Target(t)] = "closed"]
    BY <1>0, <1>2, <2>1, <2>2, <2>3 DEF ReturnToConnect, Finish, Goto, LocalsOK, FieldsOK, DialOver, Alone
  <2>4. CASE Goto(t, "fallback") /\ snap' = [snap EXCEPT ![t] = NoSnap] /\ UNCHANGED <<ret, arg, ref>>
    BY <1>0, <1>2, <2>1, <2>2, <2>4 DEF ReturnToConnect, Goto, LocalsOK, FieldsOK, DialOver, Alone
  <2> QED BY <1>2, <2>3, <2>4 DEF ReturnToConnect, Target
<1> QED BY <1>1, <1>2

LEMMA DialOverFields ==
  ASSUME TInv, Roles, Fields, NEW t \in Caller, DialOver(t)
  PROVE  Fields'
<1> USE DEF Fields
<1> DEFINE c == arg[t].conn
<1>0. c \in Conn /\ ref[c] = "dialing" /\ pc[c] = "idle"
  BY DEF DialOver, Roles, OneDialer, TInv, TargetOK, Dials, Dialing, TearingDown, Thread
<1>1. /\ raced' = raced /\ cancelled' = cancelled
      /\ ks' = ks /\ routes' = routes /\ tun' = tun /\ hard' = hard
      /\ \A u \in Thread \ {t} : /\ pc'[u] = pc[u] /\ ret'[u] = ret[u]
                                 /\ arg'[u] = arg[u] /\ snap'[u] = snap[u]
      /\ \A d \in Conn \ {c} : state'[d] = state[d] /\ ref'[d] = ref[d]
      /\ ref'[c] \in {"dialing", "closed"}
      /\ Caller \subseteq Thread /\ Conn \subseteq Thread /\ t \notin Conn /\ NoConn \notin Conn
  BY <1>0, ConnectionAssumption DEF DialOver, Alone, Thread
<1>2. \A u \in Caller \ {t} : /\ Dials(u)' <=> Dials(u)
                              /\ Disconnects(u)' <=> Disconnects(u)
                              /\ Progress(u)' <=> Progress(u)
  BY <1>1 DEF Dials, Disconnects, Progress
<1>3. /\ ~Disconnects(t) /\ ~Disconnects(t)' /\ pc'[t] \notin TearingDown /\ pc'[t] # "toggle"
      /\ pc'[t] # "idle" => arg'[t].conn = c /\ Dials(t)' /\ ref' = ref
      /\ pc'[t] = "idle" => arg'[t].conn = NoConn /\ ~Dials(t)' /\ ref'[c] = "closed"
  BY DEF DialOver, Dials, Disconnects, Dialing, TearingDown
<1>4. \A u \in Caller \ {t} : /\ Dials(u) => arg[u].conn \in Conn \ {c}
                              /\ Disconnects(u) => arg[u].conn \in Conn \ {c}
  BY <1>0 DEF DialOver, Roles, OneDialer, TInv, TargetOK, Dials, Disconnects, Dialing, TearingDown,
     Thread, DisconnectUndone
<1>5. \A d \in Conn : Clear(d)' <=> Clear(d)
  BY <1>1 DEF Clear
<1>6. Fresh'
  BY <1>0, <1>1, <1>3, <1>5 DEF Fresh
<1>7. DialUndone'
  <2>1. ASSUME Dials(t)'
        PROVE  /\ ~arg'[t].has
               /\ pc'[t] = "fallback" => Clear(arg[t].conn)' /\ state'[arg'[t].conn] = "Disconnected"
    BY <1>3, <1>5, <2>1, <1>0 DEF DialOver, DialUndone, Clear
  <2>2. ASSUME NEW u \in Caller \ {t}, Dials(u)
        PROVE  /\ ~arg'[u].has /\ (pc'[u] \in TearingDown => Progress(u)')
               /\ pc'[u] = "fallback" => Clear(arg[u].conn)' /\ state'[arg'[u].conn] = "Disconnected"
    BY <1>1, <1>2, <1>4, <1>5, <2>2 DEF DialUndone, Clear
  <2> QED BY <1>2, <1>3, <2>1, <2>2 DEF DialUndone, Clear
<1>8. DisconnectUndone'
  <2>1. \A u \in Caller \ {t} : pc[u] = "toggle" => arg[u].conn \in Conn \ {c}
    BY <1>0 DEF TInv, TargetOK, Thread, DisconnectUndone
  <2> QED BY <1>1, <1>2, <1>3, <1>4, <2>1 DEF DisconnectUndone, Disconnects
<1>9. ClosedClears'
  <2>1. \A d \in Conn : Leaving(d) => Leaving(d)'
    BY <1>1, <1>2, <1>3 DEF Leaving
  <2>2. \A d \in Conn : (MidAttempt(d)' <=> MidAttempt(d)) /\ pc'[d] = pc[d]
    BY <1>1 DEF MidAttempt
  <2>3. ref'[c] = "closed" => Clear(c) /\ state'[c] = "Disconnected"
    BY <1>0 DEF DialOver
  <2> QED BY <1>0, <1>1, <1>5, <2>1, <2>2, <2>3 DEF ClosedClears, MidAttempt, Dialing
<1>10. DialerThere'
  BY <1>0, <1>1, <1>2, <1>3 DEF DialerThere
<1> QED BY <1>6, <1>7, <1>8, <1>9, <1>10

\* A disconnect returns, with everything undone unless it raced.
LEMMA DisconnectOver ==
  ASSUME TInv, Roles, Fields, NEW t \in Caller, RelaxHost(t), ReturnToEnd(t)
  PROVE  Fields'
<1> USE DEF Fields
<1> DEFINE c == arg[t].conn
<1>0. /\ t \in Thread /\ LocalsOK /\ FieldsOK /\ NoArg.conn = NoConn
      /\ pc[t] = "tdSysctl" /\ c \in Conn /\ Target(t) = c /\ ret[t] = "disconnect"
      /\ Disconnects(t) /\ ~Dials(t)
  BY DEF Thread, TInv, TypeOK, NoArg, RelaxHost, ReturnToEnd, TargetOK, Target, TearingDown,
     Roles, CallerRole, Disconnects, Dials, Dialing
<1>1. /\ raced' = raced /\ cancelled' = cancelled /\ ref' = ref
      /\ ks' = ks /\ routes' = routes /\ tun' = tun /\ hard' = hard
      /\ \A u \in Thread \ {t} : /\ pc'[u] = pc[u] /\ ret'[u] = ret[u]
                                 /\ arg'[u] = arg[u] /\ snap'[u] = snap[u]
      /\ pc'[t] = "idle" /\ arg'[t].conn = NoConn
      /\ \A d \in Conn \ {c} : state'[d] = state[d]
      /\ state'[c] \in {"Error", "Disconnected"}
      /\ Caller \subseteq Thread /\ Conn \subseteq Thread /\ t \notin Conn /\ NoConn \notin Conn
  BY <1>0, ConnectionAssumption
  DEF RelaxHost, ReturnToEnd, Finish, Goto, slots, control, history, LocalsOK, FieldsOK, Thread
<1>2. \A u \in Caller \ {t} : /\ Dials(u)' <=> Dials(u)
                              /\ Disconnects(u)' <=> Disconnects(u)
                              /\ Progress(u)' <=> Progress(u)
  BY <1>1 DEF Dials, Disconnects, Progress
<1>3. ~Dials(t)' /\ ~Disconnects(t)'
  BY <1>1 DEF Dials, Disconnects, Dialing, TearingDown
<1>4. ref[c] = "closed" /\ (~raced[c] => Clear(c))
  BY <1>0, UndoneIsClear DEF DisconnectUndone, TearingDown
<1>5. \A d \in Conn : Clear(d)' <=> Clear(d)
  BY <1>1 DEF Clear
<1>6. Fresh'
  BY <1>0, <1>1, <1>5 DEF Fresh
<1>7. DialUndone'
  <2>1. \A u \in Caller : Dials(u) => arg[u].conn \in Conn \ {c}
    BY <1>4 DEF TInv, TargetOK, Dials, Dialing, TearingDown, Thread, Roles, OneDialer
  <2> QED BY <1>1, <1>2, <1>3, <1>5, <2>1 DEF DialUndone, Clear
<1>8. DisconnectUndone'
  BY <1>1, <1>2, <1>3 DEF DisconnectUndone, Disconnects, TearingDown
<1>9. ClosedClears'
  <2>1. \A d \in Conn \ {c} : Leaving(d) => Leaving(d)'
    BY <1>0, <1>1, <1>2, <1>3 DEF Leaving
  <2>2. \A d \in Conn : (MidAttempt(d)' <=> MidAttempt(d)) /\ pc'[d] = pc[d]
    BY <1>1 DEF MidAttempt
  <2> QED BY <1>1, <1>4, <1>5, <2>1, <2>2 DEF ClosedClears
<1>10. DialerThere'
  BY <1>0, <1>1, <1>2, <1>3 DEF DialerThere
<1> QED BY <1>6, <1>7, <1>8, <1>9, <1>10

\* A dial has succeeded: the connection is live, or was disconnected meanwhile.
LEMMA StartMonitorFields ==
  ASSUME TInv, Roles, Fields, NEW t \in Thread, StartMonitor(t)
  PROVE  Fields'
<1> USE DEF Fields
<1> DEFINE c == arg[t].conn
<1>0. /\ pc[t] \in Dialing /\ LocalsOK /\ FieldsOK /\ NoArg.conn = NoConn
      /\ c \in Conn /\ Target(t) = c /\ ref[c] # "new"
      /\ ref[c] = "closed" => raced[c]
      /\ t \in Caller => ref[c] = "dialing" /\ Dials(t)
      /\ t \in Conn => c = t
      /\ \A u \in Caller \ {t} : Dials(u) => arg[u].conn # c
  <2>1. pc[t] \in Dialing /\ LocalsOK /\ FieldsOK /\ NoArg.conn = NoConn /\ Target(t) = c
    BY DEF StartMonitor, Dialing, TInv, TypeOK, NoArg, Target
  <2> QED BY <2>1, DialAlone
<1>1. /\ raced' = raced
      /\ ks' = ks /\ routes' = routes /\ tun' = tun /\ hard' = hard
      /\ \A u \in Thread \ {t, c} : /\ pc'[u] = pc[u] /\ ret'[u] = ret[u]
                                    /\ arg'[u] = arg[u] /\ snap'[u] = snap[u]
      /\ state' = state
      /\ \A d \in Conn \ {c} : ref'[d] = ref[d] /\ cancelled'[d] = cancelled[d]
      /\ ref'[c] = IF ref[c] = "dialing" THEN "live" ELSE ref[c]
      /\ Caller \subseteq Thread /\ Conn \subseteq Thread /\ NoConn \notin Conn
      /\ c \notin Caller
  BY <1>0, ConnectionAssumption
  DEF StartMonitor, slots, history, LocalsOK, FieldsOK, Thread
<1>2. /\ pc'[t] \in {"idle", "watch"}
      /\ t \in Caller => pc'[t] = "idle" /\ arg'[t].conn = NoConn /\ t \notin Conn
  BY <1>0, ConnectionAssumption DEF StartMonitor, LocalsOK, Thread
<1>3. \A u \in Caller \ {t} : /\ Dials(u)' <=> Dials(u)
                              /\ Disconnects(u)' <=> Disconnects(u)
                              /\ Progress(u)' <=> Progress(u)
  BY <1>1 DEF Dials, Disconnects, Progress
<1>4. t \in Caller => ~Dials(t)' /\ ~Disconnects(t)' /\ ~Disconnects(t)
  BY <1>0, <1>2 DEF Dials, Disconnects, Dialing, TearingDown
<1>5. \A d \in Conn : Clear(d)' <=> Clear(d)
  BY <1>1 DEF Clear
<1>6. \A u \in Caller \ {t} : arg'[u] = arg[u] /\ pc'[u] = pc[u] /\ ret'[u] = ret[u]
  BY <1>1
<1>7. Fresh'
  BY <1>0, <1>1, <1>2, <1>5, <1>6 DEF Fresh
<1>8. DialUndone'
  BY <1>1, <1>3, <1>4, <1>5, <1>6 DEF DialUndone, Clear
<1>9. DisconnectUndone'
  <2>1. \A u \in Caller \ {t} : pc[u] # "idle" => arg[u].conn \in Conn
    BY DEF TInv, TargetOK, Thread
  <2>2. \A u \in Caller \ {t} : Disconnects(u) => pc[u] # "idle"
    BY DEF Disconnects, TearingDown
  <2>3. \A d \in Conn : ref'[d] = IF d = c /\ ref[c] = "dialing" THEN "live" ELSE ref[d]
    BY <1>1
  <2> QED BY <1>1, <1>2, <1>3, <1>4, <1>6, <2>1, <2>2, <2>3 DEF DisconnectUndone, TearingDown
<1>10. ClosedClears'
  <2>1. \A d \in Conn : Leaving(d) => Leaving(d)'
    BY <1>1, <1>3, <1>4, <1>6 DEF Leaving
  <2>2. \A d \in Conn \ {c} : d # t
    BY <1>0, ConnectionAssumption DEF Thread
  <2>3. \A d \in Conn \ {c} : (MidAttempt(d)' <=> MidAttempt(d)) /\ pc'[d] = pc[d]
    BY <1>1, <2>2 DEF MidAttempt
  <2> QED BY <1>0, <1>1, <1>5, <2>1, <2>3 DEF ClosedClears
<1>11. DialerThere'
  BY <1>0, <1>1, <1>3, <1>6 DEF DialerThere
<1> QED BY <1>7, <1>8, <1>9, <1>10, <1>11

LEMMA ConnectFields ==
  ASSUME TInv, Roles, Fields, NEW t \in Caller, NEW c \in Conn, Connect(t, c)
  PROVE  Fields'
<1> USE DEF Fields
<1>0. /\ t \in Thread /\ t \notin Conn /\ LocalsOK /\ FieldsOK /\ ref[c] = "new" /\ pc[t] = "idle"
      /\ pc[c] = "idle" /\ Caller \subseteq Thread /\ Conn \subseteq Thread /\ NoConn \notin Conn
  BY ConnectionAssumption DEF Thread, TInv, TypeOK, Connect, Roles, OneDialer
<1>1. /\ raced' = raced /\ cancelled' = cancelled
      /\ ks' = ks /\ routes' = routes /\ tun' = tun /\ hard' = hard
      /\ \A u \in Thread \ {t} : /\ pc'[u] = pc[u] /\ ret'[u] = ret[u]
                                 /\ arg'[u] = arg[u] /\ snap'[u] = snap[u]
      /\ \A d \in Conn \ {c} : ref'[d] = ref[d] /\ state'[d] = state[d]
      /\ ref'[c] = "dialing" /\ pc'[t] = "shield" /\ ret'[t] = "connect"
  BY <1>0 DEF Connect, Goto, slots, control, history, LocalsOK, FieldsOK
<1>2. arg'[t].conn = c /\ arg'[t].has = ks[c]
  BY <1>0 DEF Connect, NoArg, LocalsOK
<1>3. \A u \in Caller \ {t} : /\ Dials(u)' <=> Dials(u)
                              /\ Disconnects(u)' <=> Disconnects(u)
                              /\ Progress(u)' <=> Progress(u)
  BY <1>0, <1>1 DEF Dials, Disconnects, Progress
<1>4. Dials(t)' /\ ~Dials(t) /\ ~Disconnects(t)' /\ ~Disconnects(t) /\ ~ks[c]
  BY <1>0, <1>1 DEF Dials, Disconnects, Dialing, TearingDown, Fresh, Clear
<1>5. \A d \in Conn : Clear(d)' <=> Clear(d)
  BY <1>1 DEF Clear
<1>6. \A u \in Caller : pc[u] # "idle" => arg[u].conn \in Conn \ {c}
  BY <1>0 DEF Fresh, TInv, TargetOK
<1>7. Fresh'
  BY <1>0, <1>1, <1>2, <1>5 DEF Fresh
<1>8. DialUndone'
  <2>1. \A u \in Caller : Dials(u) => pc[u] # "idle"
    BY DEF Dials, Dialing, TearingDown
  <2>2. pc'[t] \notin TearingDown /\ pc'[t] # "fallback"
    BY <1>1 DEF TearingDown
  <2> QED BY <1>0, <1>1, <1>2, <1>3, <1>4, <1>5, <1>6, <2>1, <2>2 DEF DialUndone, Clear
<1>9. DisconnectUndone'
  <2>1. \A u \in Caller : Disconnects(u) => pc[u] # "idle"
    BY DEF Disconnects, TearingDown
  <2>2. pc'[t] \notin TearingDown /\ pc'[t] # "toggle"
    BY <1>1 DEF TearingDown
  <2> QED BY <1>0, <1>1, <1>3, <1>4, <1>6, <2>1, <2>2 DEF DisconnectUndone
<1>10. ClosedClears'
  <2>1. \A d \in Conn : Leaving(d) => Leaving(d)'
    BY <1>0, <1>1, <1>3, <1>4 DEF Leaving
  <2>2. \A d \in Conn : (MidAttempt(d)' <=> MidAttempt(d)) /\ pc'[d] = pc[d]
    BY <1>0, <1>1 DEF MidAttempt
  <2> QED BY <1>1, <1>5, <2>1, <2>2 DEF ClosedClears
<1>11. DialerThere'
  BY <1>0, <1>1, <1>2, <1>3, <1>4 DEF DialerThere
<1> QED BY <1>7, <1>8, <1>9, <1>10, <1>11

\* Disconnect reaches the monitor, if there is one.
LEMMA DisconnectFields ==
  ASSUME TInv, Roles, Kept, Fields, NEW t \in Caller, NEW c \in Conn, Disconnect(t, c)
  PROVE  Fields'
<1> USE DEF Fields
<1>0. /\ t \in Thread /\ t \notin Conn /\ LocalsOK /\ FieldsOK /\ ref[c] = "live" /\ pc[t] = "idle"
      /\ Caller \subseteq Thread /\ Conn \subseteq Thread /\ NoConn \notin Conn
      /\ pc[c] # "idle" => cancelFn[c] \/ cancelled[c]
  BY ConnectionAssumption DEF Thread, TInv, TypeOK, Disconnect, Kept, MonitorStoppable
<1>1. /\ ks' = ks /\ routes' = routes /\ tun' = tun /\ hard' = hard /\ state' = state
      /\ \A u \in Thread \ {t} : /\ pc'[u] = pc[u] /\ ret'[u] = ret[u]
                                 /\ arg'[u] = arg[u] /\ snap'[u] = snap[u]
      /\ \A d \in Conn \ {c} : /\ ref'[d] = ref[d] /\ raced'[d] = raced[d]
                               /\ cancelled'[d] = cancelled[d]
      /\ ref'[c] = "closed" /\ pc'[t] = "disconnect" /\ arg'[t].conn = c
  BY <1>0 DEF Disconnect, Goto, slots, LocalsOK, FieldsOK, NoArg
<1>2. /\ pc[c] # "idle" => cancelled'[c]
      /\ MidAttempt(c) => raced'[c]
  BY <1>0 DEF Disconnect, Cancel, FieldsOK
<1>3. \A u \in Caller \ {t} : /\ Dials(u)' <=> Dials(u)
                              /\ Disconnects(u)' <=> Disconnects(u)
                              /\ Progress(u)' <=> Progress(u)
  BY <1>0, <1>1 DEF Dials, Disconnects, Progress
<1>4. Disconnects(t)' /\ ~Dials(t)' /\ ~Dials(t) /\ ~Disconnects(t) /\ pc'[t] \notin TearingDown
      /\ pc'[t] # "toggle"
  BY <1>0, <1>1 DEF Dials, Disconnects, Dialing, TearingDown
<1>5. \A d \in Conn : Clear(d)' <=> Clear(d)
  BY <1>1 DEF Clear
<1>6. Fresh'
  BY <1>0, <1>1, <1>5 DEF Fresh
<1>7. DialUndone'
  BY <1>0, <1>1, <1>3, <1>4, <1>5 DEF DialUndone, Clear
<1>8. DisconnectUndone'
  <2>1. \A u \in Caller \ {t} : Disconnects(u) => pc[u] # "idle"
    BY DEF Disconnects, TearingDown
  <2>2. \A u \in Caller \ {t} : pc[u] # "idle" => arg[u].conn \in Conn
    BY <1>0 DEF TInv, TargetOK
  <2>3. \A u \in Caller \ {t} : Disconnects(u) => arg[u].conn # c
    BY <1>0 DEF DisconnectUndone
  <2>4. \A u \in Caller \ {t} :
           pc[u] \in TearingDown /\ ret[u] = "disconnect" => Disconnects(u)
    BY DEF Disconnects
  <2> QED BY <1>0, <1>1, <1>3, <1>4, <2>1, <2>2, <2>3, <2>4 DEF DisconnectUndone
<1>9. ClosedClears'
  <2>1. \A d \in Conn : Leaving(d) \/ d = c => Leaving(d)'
    BY <1>0, <1>1, <1>3, <1>4 DEF Leaving
  <2>2. \A d \in Conn : (MidAttempt(d)' <=> MidAttempt(d)) /\ pc'[d] = pc[d]
    BY <1>0, <1>1 DEF MidAttempt
  <2> QED BY <1>1, <1>2, <1>5, <2>1, <2>2 DEF ClosedClears
<1>10. DialerThere'
  BY <1>0, <1>1, <1>3, <1>4 DEF DialerThere
<1> QED BY <1>6, <1>7, <1>8, <1>9, <1>10

LEMMA CheckConnectedFields ==
  ASSUME TInv, Roles, Fields, NEW t \in Caller, NEW c \in Conn, CheckConnected(t, c)
  PROVE  Fields'
<1> USE DEF Fields
<1>0. /\ t \in Thread /\ LocalsOK /\ FieldsOK /\ ref[c] = "live" /\ pc[t] = "idle"
      /\ Caller \subseteq Thread /\ Conn \subseteq Thread /\ NoConn \notin Conn
      /\ t \notin Conn
  BY ConnectionAssumption DEF Thread, TInv, TypeOK, CheckConnected
<1>1. /\ ks' = ks /\ routes' = routes /\ tun' = tun /\ hard' = hard /\ state' = state
      /\ ref' = ref /\ raced' = raced /\ cancelled' = cancelled
      /\ \A u \in Thread \ {t} : /\ pc'[u] = pc[u] /\ ret'[u] = ret[u]
                                 /\ arg'[u] = arg[u] /\ snap'[u] = snap[u]
      /\ pc'[t] = "toggle" /\ arg'[t].conn = c
  BY <1>0 DEF CheckConnected, Goto, slots, control, history, LocalsOK, FieldsOK, NoArg
<1>2. \A u \in Caller \ {t} : /\ Dials(u)' <=> Dials(u)
                              /\ Disconnects(u)' <=> Disconnects(u)
                              /\ Progress(u)' <=> Progress(u)
  BY <1>0, <1>1 DEF Dials, Disconnects, Progress
<1>3. ~Disconnects(t)' /\ ~Dials(t)' /\ ~Dials(t) /\ ~Disconnects(t) /\ pc'[t] \notin TearingDown
  BY <1>0, <1>1 DEF Dials, Disconnects, Dialing, TearingDown
<1>4. Fresh'
  BY <1>0, <1>1 DEF Fresh, Clear
<1>5. DialUndone'
  BY <1>0, <1>1, <1>2, <1>3 DEF DialUndone, Clear
<1>6. DisconnectUndone'
  BY <1>0, <1>1, <1>2, <1>3 DEF DisconnectUndone
<1>7. ClosedClears'
  <2>1. \A d \in Conn : Leaving(d) => Leaving(d)'
    BY <1>0, <1>1, <1>2, <1>3 DEF Leaving
  <2>2. \A d \in Conn : (MidAttempt(d)' <=> MidAttempt(d)) /\ pc'[d] = pc[d]
    BY <1>0, <1>1 DEF MidAttempt
  <2> QED BY <1>0, <1>1, <2>1, <2>2 DEF ClosedClears, Clear
<1>8. DialerThere'
  BY <1>0, <1>1, <1>2, <1>3 DEF DialerThere
<1> QED BY <1>4, <1>5, <1>6, <1>7, <1>8

LEMMA DisconnectingFields ==
  ASSUME TInv, Roles, Fields, NEW t \in Thread, Disconnecting(t)
  PROVE  Fields'
<1> USE DEF Fields
<1> DEFINE c == arg[t].conn
<1>0. /\ t \in Caller /\ LocalsOK /\ FieldsOK /\ pc[t] = "disconnect"
      /\ c \in Conn /\ Target(t) = c
      /\ Caller \subseteq Thread /\ Conn \subseteq Thread /\ NoConn \notin Conn
      /\ t \notin Conn
  BY ConnectionAssumption
  DEF Thread, TInv, TypeOK, TargetOK, Target, Disconnecting, Roles, MonitorRole
<1>1. /\ ks' = ks /\ routes' = routes /\ tun' = tun /\ hard' = hard
      /\ ref' = ref /\ raced' = raced /\ cancelled' = cancelled
      /\ \A u \in Thread \ {t} : /\ pc'[u] = pc[u] /\ ret'[u] = ret[u]
                                 /\ arg'[u] = arg[u] /\ snap'[u] = snap[u]
      /\ \A d \in Conn \ {c} : state'[d] = state[d]
      /\ pc'[t] = "teardown" /\ ret'[t] = "disconnect" /\ arg'[t].conn = c /\ ~snap'[t].keep
  BY <1>0 DEF Disconnecting, CallTeardown, Goto, slots, control, history, LocalsOK, FieldsOK, Arg, Snap
<1>2. \A u \in Caller \ {t} : /\ Dials(u)' <=> Dials(u)
                              /\ Disconnects(u)' <=> Disconnects(u)
                              /\ Progress(u)' <=> Progress(u)
  BY <1>0, <1>1 DEF Dials, Disconnects, Progress
<1>3. Disconnects(t)' /\ ~Dials(t)' /\ ~Dials(t) /\ Disconnects(t) /\ ref[c] = "closed"
  BY <1>0, <1>1 DEF Dials, Disconnects, Dialing, TearingDown, DisconnectUndone
<1>4. Progress(t)'
  BY <1>1 DEF Progress, Undoing, TearingDown
<1>5. Fresh'
  BY <1>0, <1>1 DEF Fresh, Clear
<1>6. DialUndone'
  <2>1. \A u \in Caller : Dials(u) => arg[u].conn \in Conn \ {c}
    BY <1>3 DEF TInv, TargetOK, Dials, Dialing, TearingDown, Thread, Roles, OneDialer
  <2> QED BY <1>0, <1>1, <1>2, <1>3, <2>1 DEF DialUndone, Clear
<1>7. DisconnectUndone'
  <2>1. pc'[t] # "toggle"
    BY <1>1
  <2> QED BY <1>0, <1>1, <1>2, <1>3, <1>4, <2>1 DEF DisconnectUndone
<1>8. ClosedClears'
  <2>1. \A d \in Conn : Leaving(d) \/ d = c => Leaving(d)'
    BY <1>0, <1>1, <1>2, <1>3 DEF Leaving
  <2>2. \A d \in Conn : (MidAttempt(d)' <=> MidAttempt(d)) /\ pc'[d] = pc[d]
    BY <1>0, <1>1 DEF MidAttempt
  <2> QED BY <1>0, <1>1, <2>1, <2>2 DEF ClosedClears, Clear
<1>9. DialerThere'
  BY <1>0, <1>1, <1>2, <1>3 DEF DialerThere
<1> QED BY <1>5, <1>6, <1>7, <1>8, <1>9

LEMMA SetKillSwitchFields ==
  ASSUME TInv, Roles, Fields, NEW t \in Thread, SetKillSwitch(t)
  PROVE  Fields'
<1> USE DEF Fields
<1> DEFINE c == arg[t].conn
<1>0. /\ t \in Caller /\ LocalsOK /\ FieldsOK /\ pc[t] = "toggle"
      /\ c \in Conn /\ Target(t) = c /\ ref[c] \in {"live", "closed"} /\ NoArg.conn = NoConn
      /\ Caller \subseteq Thread /\ Conn \subseteq Thread /\ NoConn \notin Conn
      /\ t \notin Conn
  BY ConnectionAssumption
  DEF Thread, TInv, TypeOK, TargetOK, Target, SetKillSwitch, Roles, MonitorRole, DisconnectUndone, NoArg
<1>1. /\ routes' = routes /\ tun' = tun /\ hard' = hard /\ state' = state
      /\ ref' = ref /\ cancelled' = cancelled
      /\ \A u \in Thread \ {t} : /\ pc'[u] = pc[u] /\ ret'[u] = ret[u]
                                 /\ arg'[u] = arg[u] /\ snap'[u] = snap[u]
      /\ pc'[t] = "idle" /\ arg'[t].conn = NoConn
  BY <1>0 DEF SetKillSwitch, Finish, Goto, control, LocalsOK
<1>2. \A d \in Conn \ {c} : ks'[d] = ks[d] /\ raced'[d] = raced[d]
  BY <1>0 DEF SetKillSwitch, SwitchOn, SwitchOff, FieldsOK
<1>3. (raced[c] => raced'[c]) /\ (ref[c] = "closed" => raced'[c] \/ ks' = ks)
  BY <1>0 DEF SetKillSwitch, Overtakes, FieldsOK
<1>4. \A u \in Caller \ {t} : /\ Dials(u)' <=> Dials(u)
                              /\ Disconnects(u)' <=> Disconnects(u)
                              /\ arg[u].conn \in Conn \ {c} \/ ks' = ks
                                    => (Progress(u)' <=> Progress(u))
  BY <1>0, <1>1, <1>2 DEF Dials, Disconnects, Progress
<1>5. ~Disconnects(t)' /\ ~Dials(t)' /\ ~Dials(t) /\ ~Disconnects(t) /\ pc'[t] \notin TearingDown
  BY <1>0, <1>1 DEF Dials, Disconnects, Dialing, TearingDown
<1>6. \A d \in Conn : d # c \/ ks' = ks => (Clear(d)' <=> Clear(d))
  BY <1>1, <1>2 DEF Clear
<1>7. Fresh'
  BY <1>0, <1>1, <1>6 DEF Fresh
<1>8. DialUndone'
  <2>1. \A u \in Caller : Dials(u) => arg[u].conn \in Conn \ {c}
    BY <1>0 DEF TInv, TargetOK, Dials, Dialing, TearingDown, Thread, Roles, OneDialer
  <2> QED BY <1>0, <1>1, <1>4, <1>5, <1>6, <2>1 DEF DialUndone, Clear
<1>9. DisconnectUndone'
  <2>1. \A u \in Caller \ {t} : Disconnects(u) => arg[u].conn \in Conn
    BY <1>0 DEF TInv, TargetOK, Disconnects, TearingDown
  <2>2. \A u \in Caller \ {t} :
           Disconnects(u) /\ arg[u].conn = c => raced'[c] \/ ks' = ks
    BY <1>3 DEF DisconnectUndone
  <2>3. \A u \in Caller \ {t} :
           pc[u] \in TearingDown /\ ret[u] = "disconnect" => Disconnects(u)
    BY DEF Disconnects
  <2>4. ASSUME NEW u \in Caller \ {t}, Disconnects(u), pc[u] \in TearingDown, ret[u] = "disconnect",
               ~raced'[arg[u].conn]
        PROVE  Progress(u)'
    <3>1. CASE arg[u].conn = c
      BY <1>3, <1>4, <2>2, <2>4, <3>1 DEF DisconnectUndone
    <3>2. CASE arg[u].conn # c
      BY <1>2, <1>4, <2>1, <2>4, <3>2 DEF DisconnectUndone
    <3> QED BY <3>1, <3>2
  <2> QED BY <1>0, <1>1, <1>4, <1>5, <2>1, <2>3, <2>4 DEF DisconnectUndone
<1>10. ClosedClears'
  <2>1. \A d \in Conn : Leaving(d) => Leaving(d)'
    BY <1>0, <1>1, <1>4, <1>5 DEF Leaving
  <2>2. \A d \in Conn : (MidAttempt(d)' <=> MidAttempt(d)) /\ pc'[d] = pc[d]
    BY <1>0, <1>1 DEF MidAttempt
  <2> QED BY <1>0, <1>1, <1>2, <1>3, <1>6, <2>1, <2>2 DEF ClosedClears
<1>11. DialerThere'
  BY <1>0, <1>1, <1>4, <1>5 DEF DialerThere
<1> QED BY <1>7, <1>8, <1>9, <1>10, <1>11

-----------------------------------------------------------------------------
(* Fields is an invariant. *)

LEMMA StillFields ==
  ASSUME Fields,
         UNCHANGED <<state, ks, routes, tun, hard, ref, raced, cancelled, pc, ret, arg, snap>>
  PROVE  Fields'
<1>1. Fresh' /\ DialUndone' /\ DisconnectUndone'
  BY DEF Fields, Fresh, DialUndone, DisconnectUndone, Clear, Dials, Disconnects, Progress
<1>2. ClosedClears' /\ DialerThere'
  BY DEF Fields, ClosedClears, DialerThere, Leaving, Clear, Dials, Disconnects, MidAttempt
<1> QED BY <1>1, <1>2 DEF Fields

LEMMA InitFields == Init => Fields
<1> SUFFICES ASSUME Init PROVE Fields
  OBVIOUS
<1>1. /\ \A c \in Conn : ref[c] = "new" /\ Clear(c)
      /\ \A t \in Caller : pc[t] = "idle" /\ arg[t].conn = NoConn
  BY DEF Init, Clear, NoArg, Thread
<1>2. \A t \in Caller : ~Dials(t) /\ ~Disconnects(t)
  BY <1>1 DEF Dials, Disconnects, Dialing, TearingDown
<1> QED BY <1>1, <1>2 DEF Fields, Fresh, DialUndone, DisconnectUndone, ClosedClears, DialerThere,
        TearingDown

LEMMA NextFields == TInv /\ Roles /\ Kept /\ Fields /\ [Next]_vars => Fields'
<1> SUFFICES ASSUME TInv, Roles, Kept, Fields, [Next]_vars PROVE Fields'
  OBVIOUS
<1>1. ASSUME NEW t \in Thread, Dial(t) PROVE Fields'
  <2>1. CASE SmartFallback(t)
    <3>1. t \in Caller
      BY <2>1 DEF SmartFallback, Roles, MonitorRole, Thread
    <3> QED BY <2>1, <3>1, DialOvers, DialOverFields
  <2>2. CASE StartMonitor(t)
    BY <2>2, StartMonitorFields
  <2> QED BY <1>1, <2>1, <2>2, DialMoves, DialFields DEF Dial
<1>2. ASSUME NEW t \in Thread, Undo(t) PROVE Fields'
  <2>1. CASE RelaxHost(t)
    <3>1. CASE t \in Conn
      BY <2>1, <3>1, MonitorMoves, MonitorFields
    <3>2. CASE t \in Caller
      <4>1. ret[t] \in {"connectFailed", "disconnect"}
        BY <2>1, <3>2 DEF RelaxHost, Roles, CallerRole, TearingDown
      <4> QED BY <2>1, <3>2, <4>1, DialOvers, DialOverFields, DisconnectOver DEF RelaxHost, ReturnToReconnect
    <3> QED BY <3>1, <3>2 DEF Thread
  <2> QED BY <1>2, <2>1, UndoMoves, UndoFields DEF Undo
<1>3. CASE \E c \in Conn : Monitor(c)
  BY <1>3, MonitorMoves, MonitorFields
<1>4. CASE \E t \in Thread : Disconnecting(t) \/ SetKillSwitch(t)
  BY <1>4, DisconnectingFields, SetKillSwitchFields
<1>5. CASE \E t \in Caller, c \in Conn : Call(t, c)
  BY <1>5, ConnectFields, DisconnectFields, CheckConnectedFields DEF Call
<1>6. CASE Environment \/ UNCHANGED vars
  <2>1. UNCHANGED <<state, ks, routes, tun, hard, ref, raced, cancelled, pc, ret, arg, snap>>
    BY <1>6 DEF Environment, NetworkLost, NetworkBack, TriggerReconnect, CertificateRejected,
       CertificateExpires, vars, slots, control, history
  <2> QED BY <2>1, StillFields
<1> QED BY <1>1, <1>2, <1>3, <1>4, <1>5, <1>6 DEF Next, Run

\* However many connections share the host, and whatever step failed: a
\* connection that is closed, on whose behalf no caller is still at work and
\* whose disconnect did not race a reconnect attempt, holds no kill switch,
\* routes, tunnel or hardener any more, and is never dialled again (teardown).
ClosedIsClear ==
    \A c \in Conn :
        ref[c] = "closed" /\ ~raced[c] /\ ~Leaving(c) => Clear(c) /\ ~MidAttempt(c)

THEOREM ClosedConnectionsClear == Spec => []ClosedIsClear
<1>1. Fields => ClosedIsClear
  BY DEF Fields, ClosedClears, ClosedIsClear
<1> QED BY <1>1, TypeInvariant, KeptInvariant, InitFields, NextFields, PTL DEF Spec

-----------------------------------------------------------------------------
(* One connection on the host. *)

\* The behaviours in which a single Connection object is ever made: its dial,
\* its reconnects and toggles, its disconnect.
OneConnection == \A c, d \in Conn : c = d

\* A monitor can be at work on a live connection only while it is not cancelled.
Uncancelled ==
    \A c \in Conn :
        /\ ref[c] = "live" /\ pc[c] # "idle" => ~cancelled[c]
        /\ pc[c] \in TearingDown /\ ret[c] = "cancelled" => cancelled[c]

DialMid  == {"routes", "agent", "dns", "persist", "connected", "remonitor"}

\* Where no device is up, and where the resolver file is the host's.
Down == {"shield", "apply", "seed", "harden", "tunnel", "tdSysctl", "loop", "waitnet",
         "attempt", "fallback"} \cup Waiting
Bare == {"routes", "agent", "dns", "tdRoutes", "tdTunnel"}

\* The network side of the host is what the connection's fields say ...
NetOK(c) ==
    /\ host.link = tun[c]
    /\ host.rules => routes[c]
    /\ host.route # NoLink => host.rules
    /\ \/ host.resolv = "host" /\ host.backup = "none"
       \/ host.resolv = "vpn" /\ host.backup = "host" /\ tun[c] # NoLink

\* ... and what each goroutine's place implies.
NetAt(t, c) ==
    /\ pc[t] \in Down => tun[c] = NoLink
    /\ pc[t] \in DialMid => tun[c] # NoLink
    /\ pc[t] \in Undoing => tun[c] \in {NoLink, snap[t].tun}
    /\ pc[t] \in Bare => host.resolv = "host"

Net == \A c \in Conn : ~raced[c] => NetOK(c) /\ \A t \in Thread : NetAt(t, c)

Watching == {"idle", "watch", "wake", "reconnect"}

\* A reconnect nobody has cancelled.
Redials(c) == pc[c] \notin Watching /\ ~cancelled[c]

\* A hardener hardens, a live session has one, and so has a reconnect that
\* found a kill switch: it tears down without it.
SysOK(c) ==
    /\ hard[c] # "nil" => host.arp = "hard"
    /\ ref[c] = "live" /\ pc[c] \in Watching \ {"idle"} => hard[c] # "nil"
    /\ Redials(c) /\ arg[c].has =>
          hard[c] # "nil" /\ (pc[c] \in TearingDown => snap[c].keep)

SysAt(t, c) ==
    /\ snap[t].saved = "own" => hard[c] = "nil"
    /\ pc[t] \in DialMid \cup {"tunnel"} => hard[c] # "nil"

Sys == \A c \in Conn : ~raced[c] => SysOK(c) /\ \A t \in Thread : SysAt(t, c)

\* The table is accounted for, and on a live connection it is what was asked.
TabOK(c) ==
    /\ host.table = c =>
          ks[c] \/ enabled[c] = "seedFailed" \/ \E t \in Thread : pc[t] = "seed"
    /\ ref[c] = "live" /\ pc[c] \in Watching =>
          (ks[c] <=> lastKS[c]) /\ (ks[c] => host.table = c)
    /\ Redials(c) => arg[c].ks = lastKS[c] /\ arg[c].has = lastKS[c] /\ ks[c] = lastKS[c]
    /\ Redials(c) /\ arg[c].has /\ pc[c] \notin {"apply", "seed"} /\ enabled[c] # "applyFailed" =>
          host.table = c

TabAt(t, c) ==
    /\ pc[t] = "apply" => arg[t].ks /\ host.table = NoTable
    /\ pc[t] = "seed" => arg[t].ks /\ host.table = c
    /\ pc[t] \in {"harden", "tunnel"} \cup DialMid =>
          /\ ks[c] = arg[t].ks
          /\ arg[t].ks => host.table = c /\ enabled[c] = "ok"
          /\ ~arg[t].ks => host.table = NoTable
    /\ t \in Caller /\ Dials(t) => lastKS[c] = arg[t].ks
    /\ pc[t] \in {"shield", "apply", "seed"} => ks[c] = arg[t].has

Tab == \A c \in Conn : ~raced[c] => TabOK(c) /\ \A t \in Thread : TabAt(t, c)

-----------------------------------------------------------------------------
(* The network side. *)

LEMMA DownBusy ==
  /\ DialMid \subseteq Dialing /\ DialMid \cap (Down \cup Undoing) = {}
  /\ {"idle", "toggle", "watch", "wake", "reconnect", "teardown", "disconnect"}
        \cap (Down \cup Undoing \cup Bare \cup DialMid) = {}
  BY DEF DialMid, Dialing, Down, Undoing, Bare, TearingDown, Waiting

\* A dial step, seen from the dialer.
LEMMA NetDial ==
  ASSUME TInv, NEW t \in Thread, NEW c \in Conn, arg[t].conn = c,
         NetOK(c), NetAt(t, c),
         \/ ShieldDown(t) \/ ApplyRules(t) \/ SeedAPIs(t) \/ HardenHost(t) \/ BringUpTunnel(t)
         \/ SetUpRoutes(t) \/ WaitLocalAgent(t) \/ TakeOverDNS(t) \/ PersistBootState(t)
         \/ Connected(t)
  PROVE  NetOK(c)' /\ NetAt(t, c)'
<1>0. /\ LocalsOK /\ FieldsOK /\ host \in HostState /\ Target(t) = c /\ NoLink \notin IfIndex
      /\ tun[c] \in Link
  BY HostNetAssumption DEF TInv, TypeOK, FieldsOK, Target, NoLink
<1>1. CASE ShieldDown(t)
  <2>1. /\ host'.link = host.link /\ host'.rules = host.rules /\ host'.route = host.route
        /\ host'.resolv = host.resolv /\ host'.backup = host.backup
        /\ tun' = tun /\ routes' = routes /\ pc[t] = "shield"
        /\ pc'[t] \in {"apply", "harden", "teardown"}
    BY <1>0, <1>1 DEF ShieldDown, ShieldOff, StepFails, ConnectError, CallTeardown, Advance, Goto, slots,
       HostState, LocalsOK
  <2> QED BY <2>1 DEF NetOK, NetAt, Down, DialMid, Undoing, Bare, TearingDown, Waiting
<1>2. CASE ApplyRules(t)
  <2>1. /\ host'.link = host.link /\ host'.rules = host.rules /\ host'.route = host.route
        /\ host'.resolv = host.resolv /\ host'.backup = host.backup
        /\ tun' = tun /\ routes' = routes /\ pc[t] = "apply"
        /\ pc'[t] \in {"seed", "teardown"}
    BY <1>0, <1>2 DEF ApplyRules, ShieldOn, StepFails, ConnectError, CallTeardown, Advance, Goto, slots,
       HostState, LocalsOK
  <2> QED BY <2>1 DEF NetOK, NetAt, Down, DialMid, Undoing, Bare, TearingDown, Waiting
<1>3. CASE SeedAPIs(t)
  <2>1. /\ host'.link = host.link /\ host'.rules = host.rules /\ host'.route = host.route
        /\ host'.resolv = host.resolv /\ host'.backup = host.backup
        /\ tun' = tun /\ routes' = routes /\ pc[t] = "seed"
        /\ pc'[t] \in {"harden", "teardown"}
    BY <1>0, <1>3 DEF SeedAPIs, WriteFlag, StepFails, ConnectError, CallTeardown, Advance, Goto,
       HostState, LocalsOK
  <2> QED BY <2>1 DEF NetOK, NetAt, Down, DialMid, Undoing, Bare, TearingDown, Waiting
<1>4. CASE HardenHost(t)
  <2>1. /\ host'.link = host.link /\ host'.rules = host.rules /\ host'.route = host.route
        /\ host'.resolv = host.resolv /\ host'.backup = host.backup
        /\ tun' = tun /\ routes' = routes /\ pc[t] = "harden" /\ pc'[t] = "tunnel"
    BY <1>0, <1>4 DEF HardenHost, Harden, Advance, Goto, HostState, LocalsOK
  <2> QED BY <2>1 DEF NetOK, NetAt, Down, DialMid, Undoing, Bare, TearingDown, Waiting
<1>5. CASE BringUpTunnel(t)
  <2>1. /\ pc[t] = "tunnel" /\ tun[c] = NoLink /\ host.link = NoLink
        /\ host.resolv = "host" /\ host.backup = "none" /\ routes' = routes
    BY <1>5 DEF BringUpTunnel, NetAt, NetOK, Down
  <2>2. \/ host'.link = tun'[c] /\ tun'[c] # NoLink /\ pc'[t] = "routes"
        \/ host'.link = NoLink /\ tun' = tun /\ pc'[t] = "teardown"
    <3> DEFINE base == IF arg[t].proto = "wireguard" THEN LinkDel(host) ELSE host
    <3>1. base \in HostState /\ base.link = NoLink
      <4>1. LinkDel(host) \in HostState
        BY <1>0, HostOps
      <4>2. LinkDel(host).link = NoLink
        BY <1>0 DEF LinkDel, HostState
      <4> QED BY <1>0, <2>1, <4>1, <4>2
    <3>2. ASSUME NEW i \in IfIndex, host' = LinkAdd(base, i), tun' = [tun EXCEPT ![c] = i],
                 Goto(t, "routes")
          PROVE  host'.link = tun'[c] /\ tun'[c] # NoLink /\ pc'[t] = "routes"
      BY <1>0, <3>1, <3>2 DEF LinkAdd, HostState, FieldsOK, LocalsOK, Goto
    <3>3. CASE host' = base /\ ConnectError(t) /\ UNCHANGED tun
      BY <1>0, <3>1, <3>3 DEF ConnectError, CallTeardown, Goto, LocalsOK
    <3> QED BY <1>0, <1>5, <3>2, <3>3 DEF BringUpTunnel
  <2>3. /\ host'.rules = host.rules /\ host'.route \in {host.route, NoLink}
        /\ host'.resolv = host.resolv /\ host'.backup = host.backup
    BY <1>0, <1>5 DEF BringUpTunnel, LinkDel, LinkAdd, HostState
  <2> QED BY <2>1, <2>2, <2>3 DEF NetOK, NetAt, Down, DialMid, Undoing, Bare, TearingDown, Waiting
<1>6. CASE SetUpRoutes(t)
  <2>1. /\ pc[t] = "routes" /\ tun' = tun
        /\ host'.link = host.link /\ host'.resolv = host.resolv /\ host'.backup = host.backup
    BY <1>0, <1>6 DEF SetUpRoutes, RoutesOn, RoutesOff, HostState
  <2>2. \/ host'.rules /\ routes'[c] /\ pc'[t] = "agent"
        \/ ~host'.rules /\ host'.route = NoLink /\ pc'[t] = "teardown"
    <3>1. CASE /\ host' = RoutesOn(host, arg[t].link) /\ routes' = [routes EXCEPT ![Target(t)] = TRUE]
               /\ Advance(t, "agent")
      BY <1>0, <3>1 DEF RoutesOn, Advance, Goto, HostState, LocalsOK, FieldsOK
    <3>2. CASE host' = RoutesOff(host) /\ ConnectError(t)
      BY <1>0, <3>2 DEF RoutesOff, ConnectError, CallTeardown, Goto, HostState, LocalsOK
    <3> QED BY <1>6, <3>1, <3>2 DEF SetUpRoutes
  <2> QED BY <2>1, <2>2 DEF NetOK, NetAt, Down, DialMid, Undoing, Bare, TearingDown, Waiting
<1>7. CASE WaitLocalAgent(t)
  <2>1. /\ host' = host /\ tun' = tun /\ routes' = routes /\ pc[t] = "agent"
        /\ pc'[t] \in {"dns", "teardown"}
    BY <1>0, <1>7 DEF WaitLocalAgent, ConnectError, CallTeardown, Goto, slots, LocalsOK
  <2> QED BY <2>1 DEF NetOK, NetAt, Down, DialMid, Undoing, Bare, TearingDown, Waiting
<1>8. CASE TakeOverDNS(t)
  <2>1. /\ pc[t] = "dns" /\ tun' = tun /\ routes' = routes /\ tun[c] # NoLink
        /\ host.resolv = "host" /\ host.backup = "none"
    BY <1>8 DEF TakeOverDNS, slots, NetOK, NetAt, DialMid, Bare
  <2>2. /\ host'.link = host.link /\ host'.rules = host.rules /\ host'.route = host.route
        /\ \/ host'.resolv = "vpn" /\ host'.backup = host.resolv /\ pc'[t] = "persist"
           \/ host' = host /\ pc'[t] = "teardown"
    BY <1>0, <1>8 DEF TakeOverDNS, DNSOn, StepFails, ConnectError, CallTeardown, Advance, Goto,
       HostState, LocalsOK
  <2> QED BY <2>1, <2>2 DEF NetOK, NetAt, Down, DialMid, Undoing, Bare, TearingDown, Waiting
<1>9. CASE PersistBootState(t)
  <2>1. /\ host'.link = host.link /\ host'.rules = host.rules /\ host'.route = host.route
        /\ host'.resolv = host.resolv /\ host'.backup = host.backup
        /\ tun' = tun /\ routes' = routes /\ pc[t] = "persist" /\ pc'[t] = "connected"
    BY <1>0, <1>9 DEF PersistBootState, WriteFlag, Advance, Goto, slots, HostState, LocalsOK
  <2> QED BY <2>1 DEF NetOK, NetAt, Down, DialMid, Undoing, Bare, TearingDown, Waiting
<1>10. CASE Connected(t)
  <2>1. /\ host' = host /\ tun' = tun /\ routes' = routes /\ pc[t] = "connected" /\ pc'[t] = "remonitor"
    BY <1>0, <1>10 DEF Connected, Advance, Goto, slots, LocalsOK
  <2> QED BY <2>1 DEF NetOK, NetAt, Down, DialMid, Undoing, Bare, TearingDown, Waiting
<1> QED BY <1>1, <1>2, <1>3, <1>4, <1>5, <1>6, <1>7, <1>8, <1>9, <1>10

\* A teardown step, seen from the goroutine that tears down ...
LEMMA NetUndo ==
  ASSUME TInv, NEW t \in Thread, NEW c \in Conn, arg[t].conn = c,
         NetOK(c), NetAt(t, c),
         TearDown(t) \/ DropShield(t) \/ GiveBackDNS(t) \/ DropRoutes(t) \/ DropTunnel(t)
  PROVE  /\ NetOK(c)' /\ NetAt(t, c)'
         /\ tun'[c] \in {tun[c], NoLink} /\ host'.resolv \in {host.resolv, "host"}
<1>0. /\ LocalsOK /\ FieldsOK /\ host \in HostState /\ Target(t) = c
  BY DEF TInv, TypeOK, Target
<1>1. CASE TearDown(t)
  <2>1. /\ host' = host /\ tun' = tun /\ routes' = routes /\ pc'[t] = "tdShield"
        /\ snap'[t].tun = tun[c]
    BY <1>0, <1>1 DEF TearDown, Goto, LocalsOK
  <2> QED BY <2>1 DEF NetOK, NetAt, Down, DialMid, Bare, Waiting
<1>2. CASE DropShield(t)
  <2>1. /\ host'.link = host.link /\ host'.rules = host.rules /\ host'.route = host.route
        /\ host'.resolv = host.resolv /\ host'.backup = host.backup
        /\ tun' = tun /\ routes' = routes /\ pc[t] = "tdShield" /\ pc'[t] = "tdDNS" /\ snap' = snap
    BY <1>0, <1>2 DEF DropShield, ShieldOff, Advance, Goto, HostState, LocalsOK
  <2> QED BY <2>1 DEF NetOK, NetAt, Down, DialMid, Undoing, Bare, TearingDown, Waiting
<1>3. CASE GiveBackDNS(t)
  <2>1. /\ host'.link = host.link /\ host'.rules = host.rules /\ host'.route = host.route
        /\ tun' = tun /\ routes' = routes /\ pc[t] = "tdDNS" /\ pc'[t] = "tdRoutes" /\ snap' = snap
    BY <1>0, <1>3 DEF GiveBackDNS, DNSOff, Advance, Goto, slots, HostState, LocalsOK
  <2>2. snap[t].tun = NoLink => tun[c] = NoLink
    BY <2>1 DEF NetAt, Undoing, TearingDown
  <2>3. host'.resolv = "host" /\ host'.backup = "none"
    BY <1>0, <1>3, <2>2 DEF GiveBackDNS, RevertsDNS, DNSOff, HostState, NetOK
  <2> QED BY <2>1, <2>3 DEF NetOK, NetAt, Down, DialMid, Undoing, Bare, TearingDown, Waiting
<1>4. CASE DropRoutes(t)
  <2>1. /\ host'.link = host.link /\ host'.resolv = host.resolv /\ host'.backup = host.backup
        /\ tun' = tun /\ pc[t] = "tdRoutes" /\ pc'[t] = "tdTunnel" /\ snap'[t].tun = snap[t].tun
    BY <1>0, <1>4 DEF DropRoutes, RoutesOff, Undone, Goto, HostState, LocalsOK, Snap
  <2>2. \/ ~host'.rules /\ host'.route = NoLink
        \/ host' = host /\ routes' = routes
    BY <1>0, <1>4 DEF DropRoutes, RoutesOff, HostState
  <2> QED BY <2>1, <2>2 DEF NetOK, NetAt, Down, DialMid, Undoing, Bare, TearingDown, Waiting
<1>5. CASE DropTunnel(t)
  <2>1. /\ host'.resolv = host.resolv /\ host'.backup = host.backup
        /\ host'.rules = host.rules /\ host'.route \in {host.route, NoLink}
        /\ routes' = routes /\ pc[t] = "tdTunnel" /\ pc'[t] = "tdSysctl"
    BY <1>0, <1>5 DEF DropTunnel, LinkDrop, LinkDel, Undone, Goto, HostState, LocalsOK
  <2>2. tun[c] \in {NoLink, snap[t].tun} /\ host.resolv = "host" /\ host.backup = "none"
    BY <2>1 DEF NetOK, NetAt, Undoing, TearingDown, Bare
  <2>3. host'.link = NoLink /\ tun'[c] = NoLink
    <3>1. host.link = tun[c]
      BY DEF NetOK
    <3>2. CASE snap[t].tun = NoLink
      BY <1>5, <2>2, <3>1, <3>2 DEF DropTunnel
    <3>3. CASE snap[t].tun # NoLink
      <4>1. host' = LinkDrop(host, snap[t].tun) /\ tun' = [tun EXCEPT ![c] = NoLink]
        BY <1>0, <1>5, <3>3 DEF DropTunnel
      <4>2. tun'[c] = NoLink
        BY <1>0, <4>1 DEF FieldsOK
      <4>3. LinkDrop(host, snap[t].tun).link = NoLink
        BY <1>0, <2>2, <3>1 DEF LinkDrop, LinkDel, HostState
      <4> QED BY <4>1, <4>2, <4>3
    <3> QED BY <3>2, <3>3
  <2> QED BY <2>1, <2>2, <2>3 DEF NetOK, NetAt, Down, DialMid, Undoing, Bare, TearingDown, Waiting
<1> QED BY <1>1, <1>2, <1>3, <1>4, <1>5

\* ... and what it leaves to the others that tear down.
LEMMA NetOthers ==
  ASSUME NEW u \in Thread, NEW c \in Conn, NetAt(u, c), pc[u] \notin DialMid,
         pc'[u] = pc[u], snap'[u] = snap[u],
         tun'[c] \in {tun[c], NoLink}, host'.resolv \in {host.resolv, "host"}
  PROVE  NetAt(u, c)'
  BY DEF NetAt

\* A step that leaves the network side alone.
NetSteady(c) ==
    /\ UNCHANGED <<tun, routes>>
    /\ host'.link = host.link /\ host'.rules = host.rules /\ host'.route = host.route
    /\ host'.resolv = host.resolv /\ host'.backup = host.backup
    /\ \A u \in Thread :
          /\ pc'[u] \in Down => pc[u] \in Down \/ tun[c] = NoLink
          /\ pc'[u] \in Bare => pc[u] \in Bare \/ tun[c] = NoLink
          /\ pc'[u] \in DialMid => pc[u] \in DialMid
          /\ pc'[u] \in Undoing => pc[u] \in Undoing /\ snap'[u].tun = snap[u].tun

LEMMA SteadyNet ==
  ASSUME NEW c \in Conn, NetOK(c), \A t \in Thread : NetAt(t, c), NetSteady(c)
  PROVE  NetOK(c)' /\ \A t \in Thread : NetAt(t, c)'
<1>1. NetOK(c)'
  BY DEF NetOK, NetSteady
<1>2. ASSUME NEW t \in Thread PROVE NetAt(t, c)'
  BY DEF NetAt, NetOK, NetSteady
<1> QED BY <1>1, <1>2

\* Which steps do.
LEMMA SteadySteps ==
  ASSUME TInv, Roles, Fields, NEW c \in Conn, OneConnection, NEW t \in Thread,
         \/ SmartFallback(t) \/ StartMonitor(t)
         \/ RelaxHost(t) /\ NetAt(t, c)
         \/ Disconnecting(t) \/ SetKillSwitch(t)
         \/ t = c /\ Monitor(c)
         \/ t \in Caller /\ Call(t, c)
  PROVE  NetSteady(c)
<1>0. /\ LocalsOK /\ FieldsOK /\ host \in HostState /\ c \in Thread
      /\ Conn \subseteq Thread /\ Caller \subseteq Thread
  BY DEF TInv, TypeOK, Thread
<1>1. SUFFICES /\ UNCHANGED <<tun, routes>>
               /\ host'.link = host.link /\ host'.rules = host.rules /\ host'.route = host.route
               /\ host'.resolv = host.resolv /\ host'.backup = host.backup
               /\ \A u \in Thread \ {t, c} : pc'[u] = pc[u] /\ snap'[u] = snap[u]
               /\ \A u \in {t, c} :
                     \/ pc'[u] = pc[u] /\ snap'[u] = snap[u]
                     \/ pc'[u] \in {"idle", "toggle", "watch", "wake", "reconnect", "teardown",
                                    "disconnect"}
                     \/ /\ pc[u] \in Down \/ tun[c] = NoLink
                        /\ pc'[u] \in {"shield", "loop", "waitnet", "attempt", "fallback"} \cup Waiting
  <2>1. ({"shield", "loop", "waitnet", "attempt", "fallback"} \cup Waiting)
           \cap (Undoing \cup Bare \cup DialMid) = {}
    BY DEF DialMid, Undoing, Bare, TearingDown, Waiting
  <2> QED BY <1>0, <1>1, <2>1, DownBusy DEF NetSteady
<1>2. CASE SmartFallback(t)
  BY <1>0, <1>2 DEF SmartFallback, Finish, Goto, slots, LocalsOK, Down
<1>3. CASE StartMonitor(t)
  <2>1. Target(t) = c
    BY <1>3 DEF StartMonitor, TInv, TargetOK, Target, OneConnection
  <2> QED BY <1>0, <1>3, <2>1 DEF StartMonitor, slots, LocalsOK
<1>4. CASE RelaxHost(t) /\ NetAt(t, c)
  <2>1. /\ UNCHANGED <<tun, routes>> /\ pc[t] \in Down
        /\ host'.link = host.link /\ host'.rules = host.rules /\ host'.route = host.route
        /\ host'.resolv = host.resolv /\ host'.backup = host.backup
    BY <1>0, <1>4 DEF RelaxHost, Relax, slots, HostState, Down
  <2>2. ReturnToConnect(t) \/ ReturnToReconnect(t) \/ ReturnToEnd(t)
    BY <1>4 DEF RelaxHost
  <2>3. /\ \A u \in Thread \ {t} : pc'[u] = pc[u] /\ snap'[u] = snap[u]
        /\ pc'[t] \in {"idle", "fallback", "loop"} \cup Waiting
    BY <1>0, <2>2 DEF ReturnToConnect, ReturnToReconnect, ReturnToEnd, Finish, Goto, LocalsOK, Waiting
  <2> QED BY <1>0, <2>1, <2>3
<1>5. CASE Disconnecting(t)
  BY <1>0, <1>5 DEF Disconnecting, CallTeardown, Goto, slots, LocalsOK
<1>6. CASE SetKillSwitch(t)
  <2>1. /\ host'.link = host.link /\ host'.rules = host.rules /\ host'.route = host.route
        /\ host'.resolv = host.resolv /\ host'.backup = host.backup
    BY <1>0, <1>6 DEF SetKillSwitch, SwitchOn, SwitchOff, WriteFlag, ShieldOn, ShieldOff, HostState
  <2> QED BY <1>0, <1>6, <2>1 DEF SetKillSwitch, Finish, Goto, LocalsOK
<1>7. CASE t = c /\ Monitor(c)
  <2>1. UNCHANGED <<host, tun, routes>>
    BY <1>7 DEF Monitor, MonitorStops, MonitorWakes, TunnelStale, CheckAfterWake, BeginReconnect,
       ReconnectCancelled, LoopHead, WaitNetwork, Attempt, WakeFromBackoff, WaitExpires, slots
  <2>2. \A u \in Thread \ {c} : pc'[u] = pc[u] /\ snap'[u] = snap[u]
    BY <1>0, <1>7, MonitorMoves DEF MonitorMove, Alone
  <2>3. CASE MonitorStops(c) \/ MonitorWakes(c) \/ TunnelStale(c) \/ CheckAfterWake(c)
    BY <1>0, <1>7, <2>1, <2>2, <2>3 DEF MonitorStops, MonitorWakes, TunnelStale, CheckAfterWake, GoesStale,
       Finish, Goto, LocalsOK
  <2>4. CASE BeginReconnect(c) \/ ReconnectCancelled(c)
    BY <1>0, <1>7, <2>1, <2>2, <2>4 DEF BeginReconnect, ReconnectCancelled, CallTeardown, Finish, Goto, LocalsOK
  <2>5. CASE LoopHead(c) \/ WaitNetwork(c) \/ Attempt(c) \/ WakeFromBackoff(c) \/ WaitExpires(c)
    <3>1. pc[c] \in Down /\ pc'[c] \in {"shield", "loop", "waitnet", "attempt", "fallback"} \cup Waiting
      BY <1>0, <2>5 DEF LoopHead, WaitNetwork, Attempt, WakeFromBackoff, WaitExpires, Goto, LocalsOK,
         Down, Waiting
    <3> QED BY <1>7, <2>1, <2>2, <3>1
  <2> QED BY <1>7, <2>3, <2>4, <2>5 DEF Monitor
<1>8. CASE t \in Caller /\ Connect(t, c)
  <2>1. tun[c] = NoLink
    BY <1>8 DEF Connect, Fields, Fresh, Clear
  <2> QED BY <1>0, <1>8, <2>1 DEF Connect, Goto, slots, LocalsOK
<1>9. CASE Disconnect(t, c) \/ CheckConnected(t, c)
  BY <1>0, <1>9 DEF Disconnect, CheckConnected, Goto, slots, LocalsOK
<1> QED BY <1>2, <1>3, <1>4, <1>5, <1>6, <1>7, <1>8, <1>9 DEF Call

-----------------------------------------------------------------------------
(* Who is at work beside a dial. *)

\* A dial is then alone on the host, unless a disconnect raced with it.
LEMMA Solo ==
  ASSUME TInv, Roles, Fields, OneConnection, NEW t \in Thread, pc[t] \in Dialing,
         NEW c \in Conn, ~raced[c]
  PROVE  /\ arg[t].conn = c
         /\ \A u \in Thread \ {t} : pc[u] \in {"idle", "toggle"}
         /\ t \in Conn => t = c /\ ref[c] = "live"
         /\ t \in Caller => ref[c] = "dialing" /\ pc[c] = "idle"
<1>0. arg[t].conn = c
  BY DialAlone DEF OneConnection
<1>1. \A u \in Thread : pc[u] # "idle" => arg[u].conn = c
  BY DEF TInv, TargetOK, OneConnection
<1>2. \A u \in Caller \ {t} : ~Dials(u) /\ ~Disconnects(u)
  <2>1. \A u \in Caller : Dials(u) \/ Disconnects(u) => pc[u] # "idle"
    BY DEF Dials, Disconnects, Dialing, TearingDown
  <2> QED BY <1>0, <1>1, <2>1, DialAlone DEF Thread
<1>3. \A u \in Caller \ {t} : pc[u] \in {"idle", "toggle"}
  BY <1>2 DEF Roles, CallerRole, Dials, Disconnects
<1>4. CASE t \in Caller
  <2>1. ref[c] = "dialing" /\ pc[c] = "idle"
    BY <1>0, <1>4, DialAlone DEF Roles, OneDialer
  <2> QED BY <1>0, <1>3, <1>4, <2>1, ConnectionAssumption DEF Thread, OneConnection
<1>5. CASE t \in Conn
  <2>1. t = c /\ ref[c] = "live"
    <3>1. ref[c] \notin {"new", "dialing", "closed"}
      BY <1>0, <1>5, DialAlone DEF Roles, OneDialer, OneConnection, Dialing
    <3> QED BY <1>5, <3>1 DEF OneConnection, TInv, TypeOK, FieldsOK
  <2> QED BY <1>0, <1>3, <1>5, <2>1, ConnectionAssumption DEF Thread, OneConnection
<1> QED BY <1>4, <1>5 DEF Thread

\* A call that raced has raced for ever.
LEMMA RacedStays ==
  ASSUME TInv, [Next]_vars
  PROVE  \A c \in Conn : raced[c] => raced'[c]
<1>1. CASE UNCHANGED raced
  BY <1>1
<1>2. CASE \E t \in Thread : SetKillSwitch(t)
  BY <1>2 DEF SetKillSwitch, TInv, TypeOK, FieldsOK
<1>3. CASE \E t \in Caller, c \in Conn : Disconnect(t, c)
  BY <1>3 DEF Disconnect, TInv, TypeOK, FieldsOK
<1>4. CASE \E t \in Thread : Dial(t)
  BY <1>1, <1>4 DEF Dial, SmartFallback, ShieldDown, ApplyRules, SeedAPIs, HardenHost, BringUpTunnel,
     SetUpRoutes, WaitLocalAgent, TakeOverDNS, PersistBootState, Connected, StartMonitor, history
<1>5. CASE \E t \in Thread : Undo(t) \/ Disconnecting(t)
  BY <1>1, <1>5 DEF Undo, TearDown, DropShield, GiveBackDNS, DropRoutes, DropTunnel, RelaxHost,
     Disconnecting, history
<1>6. CASE \E c \in Conn : Monitor(c)
  BY <1>1, <1>6 DEF Monitor, MonitorStops, MonitorWakes, TunnelStale, CheckAfterWake, BeginReconnect,
     ReconnectCancelled, LoopHead, WaitNetwork, Attempt, WakeFromBackoff, WaitExpires, history
<1>7. CASE \E t \in Caller, c \in Conn : Connect(t, c) \/ CheckConnected(t, c)
  BY <1>1, <1>7 DEF Connect, CheckConnected, history
<1>8. CASE Environment \/ UNCHANGED vars
  BY <1>1, <1>8 DEF Environment, NetworkLost, NetworkBack, TriggerReconnect, CertificateRejected,
     CertificateExpires, history, vars
<1> QED BY <1>2, <1>3, <1>4, <1>5, <1>6, <1>7, <1>8 DEF Next, Run, Call

LEMMA InitNet == Init => Net
<1> SUFFICES ASSUME Init, NEW c \in Conn PROVE NetOK(c) /\ \A t \in Thread : NetAt(t, c)
  BY DEF Net
<1>1. /\ host.link = NoLink /\ ~host.rules /\ host.route = NoLink
      /\ host.resolv = "host" /\ host.backup = "none" /\ tun[c] = NoLink
      /\ \A t \in Thread : pc[t] = "idle"
  <2> DEFINE boot == [CleanHost EXCEPT !.table = BootTable, !.flag = TRUE]
  <2>1. /\ CleanHost.link = NoLink /\ ~CleanHost.rules /\ CleanHost.route = NoLink
        /\ CleanHost.resolv = "host" /\ CleanHost.backup = "none"
        /\ boot.link = NoLink /\ ~boot.rules /\ boot.route = NoLink
        /\ boot.resolv = "host" /\ boot.backup = "none"
    BY DEF CleanHost
  <2> QED BY <2>1 DEF Init
<1> QED BY <1>1, DownBusy DEF NetOK, NetAt

LEMMA NextNet == TInv /\ Roles /\ Fields /\ OneConnection /\ Net /\ [Next]_vars => Net'
<1> SUFFICES ASSUME TInv, Roles, Fields, OneConnection, Net, [Next]_vars, NEW c \in Conn, ~raced'[c]
             PROVE  NetOK(c)' /\ \A t \in Thread : NetAt(t, c)'
  BY DEF Net
<1>0. /\ ~raced[c] /\ NetOK(c) /\ \A t \in Thread : NetAt(t, c)
      /\ \A t \in Thread : pc[t] # "idle" => arg[t].conn = c
  BY RacedStays DEF Net, TInv, TargetOK, OneConnection
<1>1. ASSUME NEW t \in Thread, DialMove(t),
             \/ ShieldDown(t) \/ ApplyRules(t) \/ SeedAPIs(t) \/ HardenHost(t) \/ BringUpTunnel(t)
             \/ SetUpRoutes(t) \/ WaitLocalAgent(t) \/ TakeOverDNS(t) \/ PersistBootState(t)
             \/ Connected(t)
      PROVE  NetOK(c)' /\ \A u \in Thread : NetAt(u, c)'
  <2>1. arg[t].conn = c /\ \A u \in Thread \ {t} : pc[u] \in {"idle", "toggle"}
    BY <1>0, <1>1, Solo DEF DialMove
  <2>2. NetOK(c)' /\ NetAt(t, c)'
    BY <1>0, <1>1, <2>1, NetDial
  <2>3. \A u \in Thread \ {t} : pc'[u] \in {"idle", "toggle"}
    BY <1>1, <2>1 DEF DialMove, Alone
  <2>4. \A u \in Thread \ {t} : NetAt(u, c)'
    BY <2>3, DownBusy DEF NetAt
  <2> QED BY <2>2, <2>4
<1>2. ASSUME NEW t \in Thread, UndoMove(t),
             TearDown(t) \/ DropShield(t) \/ GiveBackDNS(t) \/ DropRoutes(t) \/ DropTunnel(t)
      PROVE  NetOK(c)' /\ \A u \in Thread : NetAt(u, c)'
  <2>1. pc[t] \in TearingDown /\ arg[t].conn = c
    BY <1>0, <1>2 DEF UndoMove, TearingDown
  <2>2. /\ NetOK(c)' /\ NetAt(t, c)'
        /\ tun'[c] \in {tun[c], NoLink} /\ host'.resolv \in {host.resolv, "host"}
    BY <1>0, <1>2, <2>1, NetUndo
  <2>3. \A u \in Thread \ {t} : pc[u] \notin DialMid
    <3>1. ASSUME NEW u \in Thread \ {t}, pc[u] \in DialMid PROVE FALSE
      BY <1>0, <2>1, <3>1, Solo, DownBusy DEF TearingDown
    <3> QED BY <3>1
  <2>4. \A u \in Thread \ {t} : NetAt(u, c)'
    BY <1>0, <1>2, <2>2, <2>3, NetOthers DEF UndoMove, Alone
  <2> QED BY <2>2, <2>4
<1>3. ASSUME NetSteady(c)
      PROVE  NetOK(c)' /\ \A u \in Thread : NetAt(u, c)'
  BY <1>0, <1>3, SteadyNet
<1>4. ASSUME NEW t \in Thread, Dial(t) PROVE NetOK(c)' /\ \A u \in Thread : NetAt(u, c)'
  <2>1. CASE SmartFallback(t)
    BY <1>3, <2>1, SteadySteps
  <2>2. CASE StartMonitor(t)
    BY <1>3, <2>2, SteadySteps
  <2> QED BY <1>1, <1>4, <2>1, <2>2, DialMoves DEF Dial
<1>5. CASE \E t \in Thread : Undo(t)
  BY <1>0, <1>2, <1>3, <1>5, UndoMoves, SteadySteps DEF Undo
<1>6. CASE \E d \in Conn : Monitor(d)
  BY <1>3, <1>6, SteadySteps DEF OneConnection, Thread
<1>7. CASE \E t \in Thread : Disconnecting(t) \/ SetKillSwitch(t)
  BY <1>3, <1>7, SteadySteps
<1>8. CASE \E t \in Caller, d \in Conn : Call(t, d)
  BY <1>3, <1>8, SteadySteps DEF OneConnection, Thread
<1>9. CASE Environment \/ UNCHANGED vars
  <2>1. UNCHANGED <<host, tun, routes, pc, snap>>
    BY <1>9 DEF Environment, NetworkLost, NetworkBack, TriggerReconnect, CertificateRejected,
       CertificateExpires, vars, slots
  <2> QED BY <1>3, <2>1 DEF NetSteady
<1> QED BY <1>4, <1>5, <1>6, <1>7, <1>8, <1>9 DEF Next, Run

-----------------------------------------------------------------------------
(* The labels a dial and a teardown go through. *)

\* t goes on from a to b, or into the teardown.
Goes(t, a, b) == pc[t] = a /\ pc'[t] \in {b, "teardown"}

LEMMA DialLabels ==
  ASSUME TInv, NEW t \in Thread
  PROVE  /\ ShieldDown(t) => Goes(t, "shield", IF arg[t].ks THEN "apply" ELSE "harden")
         /\ ApplyRules(t) => Goes(t, "apply", "seed")
         /\ SeedAPIs(t) => Goes(t, "seed", "harden")
         /\ HardenHost(t) => Goes(t, "harden", "tunnel")
         /\ BringUpTunnel(t) => Goes(t, "tunnel", "routes")
         /\ SetUpRoutes(t) => Goes(t, "routes", "agent")
         /\ WaitLocalAgent(t) => Goes(t, "agent", "dns")
         /\ TakeOverDNS(t) => Goes(t, "dns", "persist")
         /\ PersistBootState(t) => Goes(t, "persist", "connected")
         /\ Connected(t) => Goes(t, "connected", "remonitor")
<1>0. LocalsOK
  BY DEF TInv, TypeOK
<1>1. ConnectError(t) => pc'[t] = "teardown"
  BY <1>0 DEF ConnectError, CallTeardown, Goto, LocalsOK
<1>2. \A label : Advance(t, label) \/ Goto(t, label) => pc'[t] = label
  BY <1>0 DEF Advance, Goto, LocalsOK
<1>3. /\ ShieldDown(t) => Goes(t, "shield", IF arg[t].ks THEN "apply" ELSE "harden")
      /\ ApplyRules(t) => Goes(t, "apply", "seed")
      /\ SeedAPIs(t) => Goes(t, "seed", "harden")
  BY <1>1, <1>2 DEF ShieldDown, ApplyRules, SeedAPIs, StepFails, Goes
<1>4. /\ HardenHost(t) => Goes(t, "harden", "tunnel")
      /\ BringUpTunnel(t) => Goes(t, "tunnel", "routes")
      /\ SetUpRoutes(t) => Goes(t, "routes", "agent")
  BY <1>1, <1>2 DEF HardenHost, BringUpTunnel, SetUpRoutes, StepFails, Goes
<1>5. /\ WaitLocalAgent(t) => Goes(t, "agent", "dns")
      /\ TakeOverDNS(t) => Goes(t, "dns", "persist")
      /\ PersistBootState(t) => Goes(t, "persist", "connected")
      /\ Connected(t) => Goes(t, "connected", "remonitor")
  BY <1>1, <1>2 DEF WaitLocalAgent, TakeOverDNS, PersistBootState, Connected, StepFails, Goes
<1> QED BY <1>3, <1>4, <1>5

\* A dial keeps its parameters, a teardown its own.
LEMMA KeepsParameters ==
  ASSUME TInv, NEW t \in Thread
  PROVE  /\ \/ ShieldDown(t) \/ ApplyRules(t) \/ SeedAPIs(t) \/ HardenHost(t) \/ BringUpTunnel(t)
            \/ SetUpRoutes(t) \/ WaitLocalAgent(t) \/ TakeOverDNS(t) \/ PersistBootState(t)
            \/ Connected(t)
            => arg'[t].ks = arg[t].ks
         /\ TearDown(t) \/ DropShield(t) \/ GiveBackDNS(t) \/ DropRoutes(t) \/ DropTunnel(t)
            => snap'[t].keep = snap[t].keep
<1>0. LocalsOK
  BY DEF TInv, TypeOK
<1>1. ConnectError(t) => arg'[t].ks = arg[t].ks
  BY <1>0 DEF ConnectError, CallTeardown, LocalsOK, Arg
<1>2. \A label : Advance(t, label) => arg'[t].ks = arg[t].ks
  BY DEF Advance
<1>3. ASSUME NEW i, arg' = [arg EXCEPT ![t].link = i] PROVE arg'[t].ks = arg[t].ks
  BY <1>0, <1>3 DEF LocalsOK, Arg
<1>4. ShieldDown(t) \/ ApplyRules(t) \/ SeedAPIs(t) \/ HardenHost(t) => arg'[t].ks = arg[t].ks
  BY <1>1, <1>2 DEF ShieldDown, ApplyRules, SeedAPIs, HardenHost, StepFails
<1>5. BringUpTunnel(t) \/ SetUpRoutes(t) \/ WaitLocalAgent(t) => arg'[t].ks = arg[t].ks
  BY <1>1, <1>2, <1>3 DEF BringUpTunnel, SetUpRoutes, WaitLocalAgent
<1>6. TakeOverDNS(t) \/ PersistBootState(t) \/ Connected(t) => arg'[t].ks = arg[t].ks
  BY <1>1, <1>2 DEF TakeOverDNS, PersistBootState, Connected, StepFails
<1>7. TearDown(t) \/ DropShield(t) \/ GiveBackDNS(t) \/ DropRoutes(t) \/ DropTunnel(t)
      => snap'[t].keep = snap[t].keep
  BY <1>0 DEF TearDown, DropShield, GiveBackDNS, DropRoutes, DropTunnel, Undone, Advance, LocalsOK, Snap
<1> QED BY <1>4, <1>5, <1>6, <1>7

-----------------------------------------------------------------------------
(* A live connection's monitor is not cancelled. *)

LEMMA InitUncancelled == Init => Uncancelled
  BY DEF Init, Uncancelled, Thread, TearingDown

LEMMA NextUncancelled == TInv /\ Roles /\ Fields /\ Uncancelled /\ [Next]_vars => Uncancelled'
<1> SUFFICES ASSUME TInv, Roles, Fields, Uncancelled, [Next]_vars PROVE Uncancelled'
  OBVIOUS
<1>0. LocalsOK /\ FieldsOK /\ Conn \subseteq Thread
  BY DEF TInv, TypeOK, Thread
<1>1. ASSUME UNCHANGED cancelled,
             \A c \in Conn : ref'[c] = "live" => ref[c] = "live",
             \A c \in Conn : /\ pc'[c] # "idle" => pc[c] # "idle"
                             /\ pc'[c] \in TearingDown /\ ret'[c] = "cancelled" =>
                                   cancelled[c] \/ (pc[c] \in TearingDown /\ ret[c] = "cancelled")
      PROVE  Uncancelled'
  BY <1>1 DEF Uncancelled
<1>2. ASSUME NEW t \in Thread, DialMove(t) PROVE Uncancelled'
  BY <1>0, <1>1, <1>2 DEF DialMove, Alone, Dialing, TearingDown
<1>3. ASSUME NEW t \in Thread, UndoMove(t) PROVE Uncancelled'
  BY <1>0, <1>1, <1>3 DEF UndoMove, Alone, TearingDown
<1>4. ASSUME NEW t \in Caller, DialOver(t) PROVE Uncancelled'
  <2>1. \A c \in Conn : pc'[c] = pc[c] /\ ret'[c] = ret[c]
    BY <1>0, <1>4, ConnectionAssumption DEF DialOver, Alone
  <2>2. \A c \in Conn : ref'[c] = "live" => ref[c] = "live"
    BY <1>4 DEF DialOver
  <2> QED BY <1>1, <1>4, <2>1, <2>2 DEF DialOver
<1>5. ASSUME NEW t \in Thread, StartMonitor(t) PROVE Uncancelled'
  <2>1. arg[t].conn \in Conn /\ Target(t) = arg[t].conn
    BY <1>5 DEF StartMonitor, TInv, TargetOK, Target
  <2>2. \A d \in Conn \ {arg[t].conn} :
           /\ pc'[d] \in {pc[d], "idle"} /\ ret'[d] \in {ret[d], "none"}
           /\ cancelled'[d] = cancelled[d] /\ ref'[d] = ref[d]
    BY <1>0, <1>5, <2>1 DEF StartMonitor, LocalsOK, FieldsOK
  <2>3. /\ pc'[arg[t].conn] \notin TearingDown
        /\ pc'[arg[t].conn] # "idle" => ~cancelled'[arg[t].conn]
    BY <1>0, <1>5, <2>1 DEF StartMonitor, LocalsOK, FieldsOK, TearingDown
  <2> QED BY <2>2, <2>3 DEF Uncancelled, TearingDown
<1>6. ASSUME NEW c \in Conn, Monitor(c) \/ RelaxHost(c) PROVE Uncancelled'
  <2>1. /\ UNCHANGED <<cancelled, ref>> /\ pc[c] # "idle"
        /\ \A d \in Conn \ {c} : pc'[d] = pc[d] /\ ret'[d] = ret[d]
    BY <1>0, <1>6, MonitorMoves DEF MonitorMove, Alone
  <2>2. CASE ReconnectCancelled(c)
    BY <1>1, <2>1, <2>2 DEF ReconnectCancelled
  <2>3. CASE BeginReconnect(c)
    BY <1>0, <1>1, <2>1, <2>3 DEF BeginReconnect, LocalsOK
  <2>4. CASE \/ MonitorStops(c) \/ MonitorWakes(c) \/ TunnelStale(c) \/ CheckAfterWake(c)
             \/ LoopHead(c) \/ WaitNetwork(c) \/ Attempt(c) \/ WakeFromBackoff(c) \/ WaitExpires(c)
             \/ RelaxHost(c)
    <3>1. pc'[c] \notin TearingDown
      BY <1>0, <2>4 DEF MonitorStops, MonitorWakes, TunnelStale, CheckAfterWake, GoesStale, LoopHead,
         WaitNetwork, Attempt, WakeFromBackoff, WaitExpires, RelaxHost, ReturnToConnect,
         ReturnToReconnect, ReturnToEnd, Finish, Goto, LocalsOK, TearingDown
    <3> QED BY <1>1, <2>1, <3>1
  <2> QED BY <1>6, <2>2, <2>3, <2>4 DEF Monitor
<1>7. ASSUME NEW t \in Caller, RelaxHost(t) /\ ReturnToEnd(t) PROVE Uncancelled'
  <2>1. UNCHANGED <<cancelled, ref>> /\ \A d \in Conn : pc'[d] = pc[d] /\ ret'[d] = ret[d]
    BY <1>0, <1>7, ConnectionAssumption DEF RelaxHost, ReturnToEnd, Finish, Goto, control, LocalsOK
  <2> QED BY <1>1, <2>1
<1>8. CASE \E t \in Thread : Disconnecting(t) \/ SetKillSwitch(t)
  <2>1. PICK t \in Thread : Disconnecting(t) \/ SetKillSwitch(t)
    BY <1>8
  <2>2. UNCHANGED <<cancelled, ref>> /\ t \in Caller
    BY <2>1 DEF Disconnecting, SetKillSwitch, control, Roles, MonitorRole, Thread
  <2>3. \A d \in Conn : pc'[d] = pc[d] /\ ret'[d] = ret[d]
    BY <1>0, <2>1, <2>2, ConnectionAssumption
    DEF Disconnecting, SetKillSwitch, CallTeardown, Finish, Goto, LocalsOK
  <2> QED BY <1>1, <2>2, <2>3
<1>9. CASE \E t \in Caller, c \in Conn : Connect(t, c) \/ CheckConnected(t, c)
  <2>1. PICK t \in Caller, c \in Conn : Connect(t, c) \/ CheckConnected(t, c)
    BY <1>9
  <2>2. UNCHANGED cancelled /\ \A d \in Conn : ref'[d] = "live" => ref[d] = "live"
    BY <1>0, <2>1 DEF Connect, CheckConnected, control, FieldsOK
  <2>3. \A d \in Conn : pc'[d] = pc[d] /\ ret'[d] = ret[d]
    BY <1>0, <2>1, ConnectionAssumption DEF Connect, CheckConnected, Goto, LocalsOK
  <2> QED BY <1>1, <2>2, <2>3
<1>10. CASE \E t \in Caller, c \in Conn : Disconnect(t, c)
  <2>1. PICK t \in Caller, c \in Conn : Disconnect(t, c)
    BY <1>10
  <2>2. /\ ref'[c] = "closed" /\ (cancelled[c] => cancelled'[c])
        /\ \A d \in Conn \ {c} : ref'[d] = ref[d] /\ cancelled'[d] = cancelled[d]
    BY <1>0, <2>1 DEF Disconnect, FieldsOK
  <2>3. \A d \in Conn : pc'[d] = pc[d] /\ ret'[d] = ret[d]
    BY <1>0, <2>1, ConnectionAssumption DEF Disconnect, Goto, LocalsOK
  <2> QED BY <2>2, <2>3 DEF Uncancelled
<1>11. CASE Environment \/ UNCHANGED vars
  <2>1. UNCHANGED <<cancelled, ref, pc, ret>>
    BY <1>11 DEF Environment, NetworkLost, NetworkBack, TriggerReconnect, CertificateRejected,
       CertificateExpires, vars, control
  <2> QED BY <1>1, <2>1
<1>12. ASSUME NEW t \in Thread, Dial(t) PROVE Uncancelled'
  <2>1. CASE SmartFallback(t)
    <3>1. t \in Caller
      BY <2>1 DEF SmartFallback, Roles, MonitorRole, Thread
    <3> QED BY <1>4, <2>1, <3>1, DialOvers
  <2> QED BY <1>2, <1>5, <1>12, <2>1, DialMoves DEF Dial
<1>13. ASSUME NEW t \in Thread, Undo(t) PROVE Uncancelled'
  <2>1. CASE t \in Caller /\ RelaxHost(t)
    <3>1. ret[t] \in {"connectFailed", "disconnect"}
      BY <2>1 DEF RelaxHost, Roles, CallerRole, TearingDown
    <3>2. (RelaxHost(t) /\ ReturnToConnect(t)) \/ (RelaxHost(t) /\ ReturnToEnd(t))
      BY <2>1, <3>1 DEF RelaxHost, ReturnToReconnect
    <3> QED BY <1>4, <1>7, <2>1, <3>2, DialOvers
  <2> QED BY <1>3, <1>6, <1>13, <2>1, UndoMoves DEF Undo, Thread
<1> QED BY <1>6, <1>8, <1>9, <1>10, <1>11, <1>12, <1>13 DEF Next, Run, Call

-----------------------------------------------------------------------------
(* The sysctls. *)

Hard == DialMid \cup {"tunnel"}

\* A step that leaves the hardening alone.
SysSteady(c) ==
    /\ hard'[c] = hard[c]
    /\ hard[c] # "nil" => host'.arp = host.arp
    /\ \A u \in Thread :
          /\ snap'[u].saved = "own" => snap[u].saved = "own"
          /\ pc'[u] \in Hard => pc[u] \in Hard
    /\ ref'[c] = "live" /\ pc'[c] \in Watching \ {"idle"} =>
          ref[c] = "live" /\ pc[c] \in Watching \ {"idle"}
    /\ Redials(c)' /\ arg'[c].has =>
          /\ Redials(c) /\ arg[c].has
          /\ pc'[c] \in TearingDown =>
                snap'[c].keep \/ (pc[c] \in TearingDown /\ snap'[c].keep = snap[c].keep)

LEMMA SteadySys ==
  ASSUME NEW c \in Conn, SysOK(c), \A t \in Thread : SysAt(t, c), SysSteady(c)
  PROVE  SysOK(c)' /\ \A t \in Thread : SysAt(t, c)'
<1>1. SysOK(c)'
  BY DEF SysOK, SysSteady
<1>2. ASSUME NEW t \in Thread PROVE SysAt(t, c)'
  BY DEF SysAt, SysSteady, Hard
<1> QED BY <1>1, <1>2

\* The steps of a dial, but for HardenHost.
LEMMA DialSteadySys ==
  ASSUME TInv, Roles, Kept, NEW c \in Conn, NEW t \in Thread, DialMove(t), Untouched,
         t \in Conn => t = c, t \in Caller => ref[c] = "dialing",
         pc'[t] \in Hard => pc[t] \in Hard
  PROVE  SysSteady(c)
<1>0. c \in Thread /\ (t \notin Conn \/ t = c)
  BY DEF Thread
<1>1. /\ hard' = hard /\ host'.arp = host.arp /\ ref' = ref /\ cancelled' = cancelled
      /\ \A u \in Thread : snap'[u].saved = "own" => snap[u].saved = "own"
      /\ \A u \in Thread : pc'[u] \in Hard => pc[u] \in Hard
  BY DEF Untouched, DialMove, Alone
<1>2. CASE t = c
  <2>1. pc[c] \notin Watching /\ pc'[c] \notin Watching /\ arg'[c].has = arg[c].has
    BY <1>2 DEF DialMove, Watching, Dialing
  <2>2. pc'[c] \in TearingDown => snap'[c].keep = arg[c].has
    BY <1>2 DEF DialMove, Dialing, TearingDown
  <2> QED BY <1>1, <2>1, <2>2 DEF SysSteady, Redials
<1>3. CASE t # c
  <2>1. pc[c] = "idle" /\ pc'[c] = "idle" 
    BY <1>0, <1>3 DEF DialMove, Alone, Roles, OneDialer, Thread
  <2> QED BY <1>1, <2>1 DEF SysSteady, Redials, Watching
<1> QED BY <1>2, <1>3

LEMMA HardenSys ==
  ASSUME TInv, Roles, Kept, NEW c \in Conn, NEW t \in Thread, HardenHost(t), DialMove(t),
         SysOK(c), \A u \in Thread : SysAt(u, c), arg[t].conn = c,
         \A u \in Thread \ {t} : pc[u] \in {"idle", "toggle"},
         t \in Conn => t = c, t \in Caller => ref[c] = "dialing" /\ pc[c] = "idle"
  PROVE  SysOK(c)' /\ \A u \in Thread : SysAt(u, c)'
<1>0. /\ c \in Thread /\ (t = c \/ (t # c /\ pc[c] = "idle" /\ ref[c] = "dialing"))
      /\ LocalsOK /\ FieldsOK /\ host \in HostState /\ Target(t) = c
  BY DEF Thread, TInv, TypeOK, Target
<1>1. hard'[c] # "nil" /\ host'.arp = "hard" /\ pc'[t] = "tunnel" /\ snap' = snap
      /\ ref' = ref /\ cancelled' = cancelled /\ arg' = arg
  <2>1. pc'[t] = "tunnel" /\ snap' = snap /\ ref' = ref /\ cancelled' = cancelled /\ arg' = arg
    BY <1>0 DEF HardenHost, Advance, Goto, control, LocalsOK
  <2>2. CASE hard[c] = "nil"
    BY <1>0, <2>1, <2>2 DEF HardenHost, NeedsHardener, ApplySaves, Harden, FieldsOK, HostState
  <2>3. CASE hard[c] # "nil"
    BY <1>0, <2>1, <2>3 DEF HardenHost, NeedsHardener, SysOK
  <2> QED BY <2>2, <2>3
<1>2. \A u \in Thread : snap[u].saved # "own"
  BY DEF Kept, SavedInTeardown, TearingDown, HardenHost
<1>3. SysOK(c)'
  BY <1>0, <1>1 DEF SysOK, Redials, Watching, TearingDown, DialMove, Alone
<1>4. \A u \in Thread : SysAt(u, c)'
  BY <1>1, <1>2 DEF SysAt
<1> QED BY <1>3, <1>4

\* A teardown takes the hardener only where no reconnect relies on it.
LEMMA TearDownSys ==
  ASSUME TInv, Roles, Kept, Fields, OneConnection, NEW c \in Conn, ~raced[c], NEW t \in Thread,
         TearDown(t), SysOK(c), \A u \in Thread : SysAt(u, c)
  PROVE  SysOK(c)' /\ \A u \in Thread : SysAt(u, c)'
<1>0. /\ c \in Thread /\ LocalsOK /\ FieldsOK /\ arg[t].conn = c /\ Target(t) = c /\ pc[t] = "teardown"
  BY DEF Thread, TInv, TypeOK, Target, TargetOK, TearDown, OneConnection
<1>1. /\ pc'[t] = "tdShield" /\ snap'[t].keep = snap[t].keep
      /\ \A u \in Thread \ {t} : pc'[u] = pc[u] /\ snap'[u] = snap[u]
      /\ arg' = arg /\ ref' = ref /\ cancelled' = cancelled /\ host' = host
  BY <1>0 DEF TearDown, Goto, control, LocalsOK
<1>2. CASE snap[t].keep
  <2>1. hard' = hard /\ snap'[t].saved = "nil"
    BY <1>0, <1>2 DEF TearDown, TakesHardener, LocalsOK
  <2>2. \A u \in Thread : (snap'[u].saved = "own" => snap[u].saved = "own")
    BY <1>1, <2>1
  <2>3. \A u \in Thread : pc'[u] \in Hard => pc[u] \in Hard
    BY <1>1 DEF Hard, DialMid
  <2>4. /\ pc'[c] \in Watching <=> pc[c] \in Watching
        /\ pc'[c] \in TearingDown <=> pc[c] \in TearingDown
        /\ pc'[c] \in Watching => pc'[c] = pc[c]
        /\ snap'[c].keep = snap[c].keep
    BY <1>0, <1>1 DEF Watching, TearingDown
  <2>5. SysSteady(c)
    BY <1>1, <2>1, <2>2, <2>3, <2>4 DEF SysSteady, Redials
  <2> QED BY <2>5, SteadySys
<1>3. CASE ~snap[t].keep
  <2>1. hard'[c] = "nil" /\ snap'[t].saved = hard[c]
    BY <1>0, <1>3 DEF TearDown, TakesHardener, LocalsOK, FieldsOK
  <2>2. \A u \in Thread : SysAt(u, c)'
    <3>1. \A u \in Thread : pc[u] \notin Hard
      <4>1. ASSUME NEW u \in Thread, pc[u] \in Hard PROVE FALSE
        <5>1. pc[u] \in Dialing
          BY <4>1 DEF Hard, DialMid, Dialing
        <5>2. u # t
          BY <1>0, <4>1 DEF Hard, DialMid
        <5> QED BY <1>0, <5>1, <5>2, Solo
      <4> QED BY <4>1
    <3>2. \A u \in Thread : pc'[u] \notin Hard
      BY <1>1, <3>1 DEF Hard, DialMid
    <3> QED BY <2>1, <3>2 DEF SysAt, Hard
  <2>3. SysOK(c)'
    <3>1. CASE t = c
      BY <1>0, <1>1, <1>3, <2>1, <3>1 DEF SysOK, Redials, Watching, TearingDown
    <3>2. CASE t \in Caller
      <4>1. c # t
        BY <3>2, ConnectionAssumption
      <4>2. Dials(t) \/ Disconnects(t)
        BY <1>0, <3>2 DEF Dials, Disconnects, Roles, CallerRole, TearingDown
      <4>3. ref[c] # "live" /\ ~Redials(c)
        <5>1. CASE Dials(t)
          BY <1>0, <3>2, <5>1 DEF Roles, OneDialer, Redials, Watching
        <5>2. CASE Disconnects(t)
          BY <1>0, <3>2, <5>2 DEF Fields, DisconnectUndone, ClosedClears, Redials, Watching
        <5> QED BY <4>2, <5>1, <5>2
      <4> QED BY <1>0, <1>1, <2>1, <4>1, <4>3 DEF SysOK, Redials
    <3> QED BY <3>1, <3>2 DEF Thread, OneConnection
  <2> QED BY <2>2, <2>3
<1> QED BY <1>2, <1>3 DEF TInv, TypeOK, LocalsOK, Snap

\* The other steps of a teardown.
LEMMA UndoSteadySys ==
  ASSUME TInv, Kept, NEW c \in Conn, NEW t \in Thread, UndoMove(t), Untouched,
         snap'[t].keep = snap[t].keep
  PROVE  SysSteady(c)
<1>1. /\ hard' = hard /\ host'.arp = host.arp /\ ref' = ref /\ cancelled' = cancelled
      /\ \A u \in Thread : snap'[u].saved = "own" => snap[u].saved = "own"
      /\ \A u \in Thread : arg'[u] = arg[u] /\ snap'[u].keep = snap[u].keep
  BY DEF Untouched, UndoMove, Alone
<1>2. \A u \in Thread : \/ pc'[u] = pc[u]
                        \/ pc'[u] \in TearingDown /\ pc[u] \in TearingDown
  BY DEF UndoMove, Alone, Undoing
<1>3. TearingDown \cap (Hard \cup Watching) = {} /\ c \in Thread
  BY DEF TearingDown, Hard, DialMid, Watching, Thread
<1> QED BY <1>1, <1>2, <1>3 DEF SysSteady, Redials

\* The sysctls go back when a teardown ends.
LEMMA RelaxSys ==
  ASSUME TInv, Roles, Kept, Fields, Uncancelled, NEW c \in Conn, NEW t \in Thread, RelaxHost(t),
         OneConnection, SysOK(c), \A u \in Thread : SysAt(u, c)
  PROVE  SysSteady(c)
<1>0. /\ c \in Thread /\ LocalsOK /\ FieldsOK /\ host \in HostState
      /\ arg[t].conn = c /\ Target(t) = c /\ pc[t] = "tdSysctl"
  BY DEF Thread, TInv, TypeOK, Target, TargetOK, RelaxHost, OneConnection
<1>1. /\ hard' = hard /\ cancelled' = cancelled
      /\ hard[c] # "nil" => host'.arp = host.arp
  BY <1>0 DEF RelaxHost, Relax, slots, control, SysAt
<1>2. ReturnToConnect(t) \/ ReturnToReconnect(t) \/ ReturnToEnd(t)
  BY DEF RelaxHost
<1>3. /\ \A u \in Thread \ {t} : pc'[u] = pc[u] /\ snap'[u] = snap[u] /\ arg'[u] = arg[u]
      /\ pc'[t] \in {"idle", "fallback", "loop", "backoff"}
      /\ snap'[t] = NoSnap
      /\ ref'[c] = "live" => ref[c] = "live"
  BY <1>0, <1>2 DEF ReturnToConnect, ReturnToReconnect, ReturnToEnd, Finish, Goto, LocalsOK, FieldsOK
<1>4. pc'[t] \in {"loop", "backoff"} => arg'[t] = arg[t]
  BY <1>0, <1>2 DEF ReturnToConnect, ReturnToReconnect, ReturnToEnd, Finish, Goto, LocalsOK
<1>5. \A u \in Thread : /\ snap'[u].saved = "own" => snap[u].saved = "own"
                        /\ pc'[u] \in Hard => pc[u] \in Hard
  BY <1>3 DEF NoSnap, Hard, DialMid
<1>6. CASE t = c
  <2>1. pc'[c] # "fallback"
    BY <1>0, <1>6, <1>2 DEF ReturnToConnect, ReturnToReconnect, ReturnToEnd, Finish, Goto, LocalsOK,
       Roles, MonitorRole, TearingDown
  <2> QED BY <1>0, <1>1, <1>3, <1>4, <1>5, <1>6, <2>1 DEF SysSteady, Redials, Watching, TearingDown
<1>7. CASE t # c
  BY <1>0, <1>1, <1>3, <1>5, <1>7 DEF SysSteady, Redials
<1> QED BY <1>6, <1>7

\* The monitor's own steps.
LEMMA MonitorSys ==
  ASSUME TInv, Roles, Kept, Fields, NEW c \in Conn, ~raced[c], Monitor(c),
         SysOK(c), \A u \in Thread : SysAt(u, c)
  PROVE  SysOK(c)' /\ \A u \in Thread : SysAt(u, c)'
<1>0. /\ c \in Thread /\ LocalsOK /\ FieldsOK /\ pc[c] # "idle"
      /\ UNCHANGED <<host, hard, ref, cancelled>>
      /\ \A u \in Thread \ {c} : pc'[u] = pc[u] /\ snap'[u] = snap[u] /\ arg'[u] = arg[u]
  <2>1. host' = host
    BY DEF Monitor, MonitorStops, MonitorWakes, TunnelStale, CheckAfterWake, BeginReconnect,
       ReconnectCancelled, LoopHead, WaitNetwork, Attempt, WakeFromBackoff, WaitExpires
  <2> QED BY <2>1, MonitorMoves DEF MonitorMove, Alone, Thread, TInv, TypeOK
<1>1. ASSUME snap'[c].saved = "own" => snap[c].saved = "own", pc'[c] \notin Hard,
             pc'[c] \in Watching \ {"idle"} => pc[c] \in Watching \ {"idle"},
             \/ cancelled[c] \/ pc'[c] \in Watching
             \/ pc[c] \notin Watching /\ arg'[c].has = arg[c].has /\ pc'[c] \notin TearingDown
      PROVE  SysOK(c)' /\ \A u \in Thread : SysAt(u, c)'
  BY <1>0, <1>1, SteadySys DEF SysSteady, Redials
<1>2. CASE MonitorStops(c) \/ MonitorWakes(c) \/ TunnelStale(c) \/ CheckAfterWake(c)
  <2>1. /\ snap'[c] \in {snap[c], NoSnap} /\ pc[c] \in {"watch", "wake"} /\ pc'[c] \in Watching
    BY <1>0, <1>2 DEF MonitorStops, MonitorWakes, TunnelStale, CheckAfterWake, GoesStale, Finish, Goto,
       LocalsOK, Watching
  <2> QED BY <1>1, <2>1 DEF Watching, Hard, DialMid, NoSnap
<1>3. CASE BeginReconnect(c)
  <2>1. /\ pc[c] = "reconnect" /\ pc'[c] = "teardown" /\ arg'[c].has = ks[c]
        /\ snap'[c].keep = ks[c] /\ snap'[c].saved = snap[c].saved
    BY <1>0, <1>3 DEF BeginReconnect, Goto, LocalsOK, NoArg, Snap
  <2>2. ~cancelled[c] => ref[c] = "live"
    BY <1>0, <2>1 DEF Fields, ClosedClears, Roles, OneDialer, FieldsOK
  <2>3. ~cancelled[c] => hard[c] # "nil"
    BY <2>1, <2>2 DEF SysOK, Watching
  <2>4. SysOK(c)'
    BY <1>0, <2>1, <2>3 DEF SysOK, Redials, Watching
  <2>5. \A u \in Thread : SysAt(u, c)'
    BY <1>0, <2>1 DEF SysAt, DialMid
  <2> QED BY <2>4, <2>5
<1>4. CASE ReconnectCancelled(c)
  <2>1. /\ snap'[c].saved \in {snap[c].saved, "nil"} /\ pc[c] \notin Watching
        /\ pc'[c] \in {"idle", "teardown"} /\ cancelled[c]
    BY <1>0, <1>4 DEF ReconnectCancelled, CallTeardown, Finish, Goto, LocalsOK, Snap, NoSnap, Watching, Waiting
  <2> QED BY <1>1, <2>1 DEF Watching, Hard, DialMid
<1>5. CASE LoopHead(c) \/ WaitNetwork(c) \/ Attempt(c) \/ WakeFromBackoff(c) \/ WaitExpires(c)
  <2>1. /\ snap'[c] = snap[c] /\ pc[c] \notin Watching
        /\ pc'[c] \in {"loop", "waitnet", "attempt", "shield"} \cup Waiting
    BY <1>0, <1>5 DEF LoopHead, WaitNetwork, Attempt, WakeFromBackoff, WaitExpires, Goto, LocalsOK,
       Watching, Waiting
  <2>2. arg'[c].has = arg[c].has
    BY <1>0, <1>5 DEF LoopHead, WaitNetwork, Attempt, WakeFromBackoff, WaitExpires, LocalsOK, Arg
  <2> QED BY <1>1, <2>1, <2>2 DEF Watching, Waiting, Hard, DialMid, TearingDown
<1> QED BY <1>2, <1>3, <1>4, <1>5 DEF Monitor

\* A dial that succeeds leaves a live connection with its hardener.
LEMMA StartMonitorSys ==
  ASSUME TInv, Roles, Kept, Fields, OneConnection, NEW c \in Conn, ~raced[c],
         NEW t \in Thread, StartMonitor(t),
         SysOK(c), \A u \in Thread : SysAt(u, c)
  PROVE  SysOK(c)' /\ \A u \in Thread : SysAt(u, c)'
<1>0. /\ c \in Thread /\ LocalsOK /\ FieldsOK /\ pc[t] = "remonitor"
      /\ arg[t].conn = c /\ Target(t) = c
  BY DEF Thread, TInv, TypeOK, Target, TargetOK, StartMonitor, OneConnection
<1>1. /\ UNCHANGED <<host, hard, snap>>
      /\ pc'[c] \in {"idle", "watch"} /\ pc'[t] \in {"idle", "watch"}
      /\ \A u \in Thread \ {t, c} : pc'[u] = pc[u]
  BY <1>0 DEF StartMonitor, slots, LocalsOK
<1>2. hard[c] # "nil"
  BY <1>0 DEF SysAt, DialMid
<1>3. SysOK(c)'
  BY <1>1, <1>2 DEF SysOK, Redials, Watching
<1>4. \A u \in Thread : SysAt(u, c)'
  BY <1>1, <1>2 DEF SysAt, DialMid
<1> QED BY <1>3, <1>4

\* What callers do before and after a dial or a teardown.
LEMMA CallsSys ==
  ASSUME TInv, Roles, Kept, Fields, NEW c \in Conn, NEW t \in Thread,
         \/ SmartFallback(t) \/ Disconnecting(t) \/ SetKillSwitch(t)
         \/ t \in Caller /\ Call(t, c)
  PROVE  SysSteady(c)
<1>0. /\ c \in Thread /\ LocalsOK /\ FieldsOK /\ host \in HostState /\ t \in Caller /\ t # c
  <2>1. t \in Caller
    BY DEF SmartFallback, Disconnecting, SetKillSwitch, Roles, MonitorRole, Thread
  <2> QED BY <2>1, ConnectionAssumption DEF Thread, TInv, TypeOK
<1>1. \A u \in Thread \ {t} : pc'[u] = pc[u] /\ snap'[u] = snap[u] /\ arg'[u] = arg[u]
  BY <1>0 DEF SmartFallback, Disconnecting, SetKillSwitch, CallTeardown, Finish, Goto, Call, Connect,
     Disconnect, CheckConnected, LocalsOK
<1>2. /\ pc'[t] \in {"shield", "idle", "teardown", "disconnect", "toggle"}
      /\ snap'[t].saved \in {snap[t].saved, "nil"}
  <2>1. Finish(t) => pc'[t] = "idle" /\ snap'[t].saved = "nil"
    BY <1>0 DEF Finish, Goto, LocalsOK, NoSnap
  <2>2. CallTeardown(t, FALSE, "disconnect") => pc'[t] = "teardown" /\ snap'[t].saved = snap[t].saved
    BY <1>0 DEF CallTeardown, Goto, LocalsOK, Snap
  <2>3. \A label : Goto(t, label) => pc'[t] = label
    BY <1>0 DEF Goto, LocalsOK
  <2>4. CASE SmartFallback(t)
    BY <2>1, <2>3, <2>4 DEF SmartFallback
  <2>5. CASE Disconnecting(t) \/ SetKillSwitch(t)
    BY <2>1, <2>2, <2>5 DEF Disconnecting, SetKillSwitch
  <2>6. CASE Call(t, c)
    BY <2>3, <2>6 DEF Call, Connect, Disconnect, CheckConnected
  <2> QED BY <2>4, <2>5, <2>6
<1>3. hard' = hard /\ (cancelled[c] => cancelled'[c])
  BY <1>0 DEF SmartFallback, Disconnecting, SetKillSwitch, Call, Connect, Disconnect, CheckConnected,
     slots, control, FieldsOK
<1>4. ref'[c] = "live" => ref[c] = "live"
  BY <1>0 DEF SmartFallback, Disconnecting, SetKillSwitch, Call, Connect, Disconnect, CheckConnected,
     FieldsOK
<1>5. host'.arp = host.arp
  <2>1. CASE SetKillSwitch(t)
    BY <1>0, <2>1 DEF SetKillSwitch, SwitchOn, SwitchOff, WriteFlag, ShieldOn, ShieldOff, HostState
  <2> QED BY <2>1 DEF SmartFallback, Disconnecting, Call, Connect, Disconnect, CheckConnected
<1> QED BY <1>0, <1>1, <1>2, <1>3, <1>4, <1>5 DEF SysSteady, Redials, Hard, DialMid

LEMMA InitSys == Init => Sys
<1> SUFFICES ASSUME Init, NEW c \in Conn PROVE SysOK(c) /\ \A t \in Thread : SysAt(t, c)
  BY DEF Sys
<1>1. /\ hard[c] = "nil" /\ ref[c] = "new" /\ c \in Thread
      /\ \A t \in Thread : pc[t] = "idle" /\ snap[t] = NoSnap
  BY DEF Init, Thread
<1> QED BY <1>1 DEF SysOK, SysAt, Redials, Watching, NoSnap, DialMid

LEMMA NextSys ==
  TInv /\ Roles /\ Kept /\ Fields /\ OneConnection /\ Uncancelled /\ Sys /\ [Next]_vars => Sys'
<1> SUFFICES ASSUME TInv, Roles, Kept, Fields, OneConnection, Uncancelled, Sys, [Next]_vars,
                    NEW c \in Conn, ~raced'[c]
             PROVE  SysOK(c)' /\ \A t \in Thread : SysAt(t, c)'
  BY DEF Sys
<1>0. /\ ~raced[c] /\ SysOK(c) /\ \A t \in Thread : SysAt(t, c)
  BY RacedStays DEF Sys
<1>1. ASSUME SysSteady(c) PROVE SysOK(c)' /\ \A u \in Thread : SysAt(u, c)'
  BY <1>0, <1>1, SteadySys
<1>2. ASSUME NEW t \in Thread,
             \/ ShieldDown(t) \/ ApplyRules(t) \/ SeedAPIs(t) \/ HardenHost(t) \/ BringUpTunnel(t)
             \/ SetUpRoutes(t) \/ WaitLocalAgent(t) \/ TakeOverDNS(t) \/ PersistBootState(t)
             \/ Connected(t)
      PROVE  SysOK(c)' /\ \A u \in Thread : SysAt(u, c)'
  <2>1. DialMove(t)
    BY <1>2, DialMoves
  <2>2. /\ arg[t].conn = c /\ \A u \in Thread \ {t} : pc[u] \in {"idle", "toggle"}
        /\ t \in Conn => t = c
        /\ t \in Caller => ref[c] = "dialing" /\ pc[c] = "idle"
    BY <1>0, <2>1, Solo DEF DialMove
  <2>3. CASE HardenHost(t)
    BY <1>0, <2>1, <2>2, <2>3, HardenSys
  <2>4. CASE ~HardenHost(t)
    <3>1. Untouched
      BY <1>2, <2>4, ShieldDownU, ApplyRulesU, SeedAPIsU, BringUpTunnelU, SetUpRoutesU, WaitLocalAgentU,
         TakeOverDNSU, PersistBootStateU, ConnectedU
    <3>2. pc'[t] \in Hard => pc[t] \in Hard
      BY <1>2, <2>4, DialLabels DEF Goes, Hard, DialMid
    <3> QED BY <1>1, <2>1, <2>2, <3>1, <3>2, DialSteadySys
  <2> QED BY <2>3, <2>4
<1>3. ASSUME NEW t \in Thread, Undo(t)
      PROVE  SysOK(c)' /\ \A u \in Thread : SysAt(u, c)'
  <2>1. CASE TearDown(t)
    BY <1>0, <2>1, TearDownSys
  <2>2. CASE RelaxHost(t)
    BY <1>0, <1>1, <2>2, RelaxSys
  <2>3. CASE DropShield(t) \/ GiveBackDNS(t) \/ DropRoutes(t) \/ DropTunnel(t)
    <3>1. Untouched
      BY <2>3, DropShieldU, GiveBackDNSU, DropRoutesU, DropTunnelU
    <3>2. UndoMove(t) /\ snap'[t].keep = snap[t].keep
      BY <2>3, UndoMoves, KeepsParameters
    <3> QED BY <1>1, <3>1, <3>2, UndoSteadySys
  <2> QED BY <1>3, <2>1, <2>2, <2>3 DEF Undo
<1>4. ASSUME NEW t \in Thread, Dial(t)
      PROVE  SysOK(c)' /\ \A u \in Thread : SysAt(u, c)'
  <2>1. CASE SmartFallback(t)
    BY <1>1, <2>1, CallsSys
  <2>2. CASE StartMonitor(t)
    BY <1>0, <2>2, StartMonitorSys
  <2> QED BY <1>2, <1>4, <2>1, <2>2 DEF Dial
<1>5. CASE \E d \in Conn : Monitor(d)
  BY <1>0, <1>5, MonitorSys DEF OneConnection
<1>6. CASE \E t \in Thread : Disconnecting(t) \/ SetKillSwitch(t)
  BY <1>1, <1>6, CallsSys
<1>7. CASE \E t \in Caller, d \in Conn : Call(t, d)
  BY <1>1, <1>7, CallsSys DEF OneConnection, Thread
<1>8. CASE Environment \/ UNCHANGED vars
  <2>1. UNCHANGED <<host, hard, pc, snap, arg, ref, cancelled>>
    BY <1>8 DEF Environment, NetworkLost, NetworkBack, TriggerReconnect, CertificateRejected,
       CertificateExpires, vars, slots, control
  <2> QED BY <1>1, <2>1 DEF SysSteady, Redials
<1> QED BY <1>3, <1>4, <1>5, <1>6, <1>7, <1>8 DEF Next, Run

-----------------------------------------------------------------------------
(* The kill switch table. *)

Raising == {"shield", "apply", "seed"}
Raised  == {"harden", "tunnel"} \cup DialMid

\* A step that leaves the kill switch alone.
TabSteady(c) ==
    /\ host'.table = host.table
    /\ ks'[c] = ks[c] /\ lastKS'[c] = lastKS[c] /\ enabled'[c] = enabled[c]
    /\ ref'[c] = "live" /\ pc'[c] \in Watching => ref[c] = "live" /\ pc[c] \in Watching
    /\ Redials(c)' =>
          /\ Redials(c) /\ arg'[c].ks = arg[c].ks /\ arg'[c].has = arg[c].has
          /\ pc[c] \in {"apply", "seed"} => pc'[c] \in {"apply", "seed"}
    /\ \A u \in Thread :
          /\ pc[u] = "seed" => pc'[u] = "seed"
          /\ pc'[u] \in {"apply", "seed"} => pc'[u] = pc[u] /\ arg'[u].ks = arg[u].ks
          /\ pc'[u] \in Raised => pc[u] \in Raised /\ arg'[u].ks = arg[u].ks
          /\ pc'[u] \in Raising => \/ pc[u] \in Raising /\ arg'[u].has = arg[u].has
                                   \/ arg'[u].has = ks[c]
          /\ u \in Caller /\ Dials(u)' => Dials(u) /\ arg'[u].ks = arg[u].ks

LEMMA SteadyTab ==
  ASSUME NEW c \in Conn, TabOK(c), \A t \in Thread : TabAt(t, c), TabSteady(c)
  PROVE  TabOK(c)' /\ \A t \in Thread : TabAt(t, c)'
<1>1. TabOK(c)'
  <2>1. host'.table = c => \/ ks'[c] \/ enabled'[c] = "seedFailed"
                           \/ \E t \in Thread : pc'[t] = "seed"
    BY DEF TabOK, TabSteady
  <2>2. ref'[c] = "live" /\ pc'[c] \in Watching =>
          (ks'[c] <=> lastKS'[c]) /\ (ks'[c] => host'.table = c)
    BY DEF TabOK, TabSteady
  <2>3. Redials(c)' => arg'[c].ks = lastKS'[c] /\ arg'[c].has = lastKS'[c] /\ ks'[c] = lastKS'[c]
    BY DEF TabOK, TabSteady
  <2>4. Redials(c)' /\ arg'[c].has /\ pc'[c] \notin {"apply", "seed"} /\ enabled'[c] # "applyFailed" =>
          host'.table = c
    BY DEF TabOK, TabSteady
  <2> QED BY <2>1, <2>2, <2>3, <2>4 DEF TabOK
<1>2. ASSUME NEW t \in Thread PROVE TabAt(t, c)'
  BY DEF TabAt, TabSteady, Raising, Raised
<1> QED BY <1>1, <1>2

LEMMA TabLabels ==
  /\ Raising \subseteq Dialing /\ Raised \subseteq Dialing /\ Raising \cap Raised = {}
  /\ Dialing \cap TearingDown = {} /\ Dialing \cap Watching = {} /\ TearingDown \cap Watching = {}
  /\ {"idle", "toggle", "fallback", "disconnect", "loop", "waitnet", "attempt"}
        \cap (Dialing \cup TearingDown) = {}
  /\ Waiting \cap (Dialing \cup TearingDown \cup Watching) = {}
  BY DEF Raising, Raised, DialMid, Dialing, TearingDown, Watching, Waiting

\* What a dial does once the table is loaded.
LEMMA RaisedSteady ==
  ASSUME TInv, Roles, NEW c \in Conn, NEW t \in Thread, DialMove(t),
         t \in Conn => t = c, t \in Caller => ref[c] = "dialing" /\ pc[c] = "idle",
         \/ HardenHost(t) \/ BringUpTunnel(t) \/ SetUpRoutes(t) \/ WaitLocalAgent(t)
         \/ TakeOverDNS(t) \/ PersistBootState(t) \/ Connected(t)
  PROVE  TabSteady(c)
<1>0. /\ c \in Thread /\ LocalsOK /\ FieldsOK /\ host \in HostState /\ arg[t].conn \in Conn
  BY DEF Thread, TInv, TypeOK, TargetOK, DialMove, Dialing
<1>1. host'.table = host.table
  <2>1. HardenHost(t) => host'.table = host.table
    BY <1>0 DEF HardenHost, Harden, HostState
  <2>2. BringUpTunnel(t) => host'.table = host.table
    <3>1. LinkDel(host).table = host.table /\ LinkDel(host) \in HostState
      BY <1>0, HostOps DEF LinkDel, HostState
    <3>2. \A h \in HostState, i \in Link : LinkAdd(h, i).table = h.table
      BY DEF LinkAdd, HostState
    <3> QED BY <1>0, <3>1, <3>2 DEF BringUpTunnel, Link
  <2>3. SetUpRoutes(t) => host'.table = host.table
    BY <1>0 DEF SetUpRoutes, RoutesOn, RoutesOff, HostState
  <2>4. WaitLocalAgent(t) \/ Connected(t) => host'.table = host.table
    BY DEF WaitLocalAgent, Connected
  <2>5. TakeOverDNS(t) \/ PersistBootState(t) => host'.table = host.table
    BY <1>0 DEF TakeOverDNS, PersistBootState, StepFails, DNSOn, WriteFlag, HostState
  <2> QED BY <2>1, <2>2, <2>3, <2>4, <2>5
<1>2. ks' = ks /\ lastKS' = lastKS /\ enabled' = enabled /\ ref' = ref /\ cancelled' = cancelled
  BY <1>0 DEF HardenHost, BringUpTunnel, SetUpRoutes, WaitLocalAgent, TakeOverDNS, PersistBootState,
     Connected, slots, memory, history, control
<1>3. arg'[t].ks = arg[t].ks /\ arg'[t].has = arg[t].has
  BY KeepsParameters DEF DialMove
<1>4. pc[t] \in Raised /\ pc'[t] \in Raised \cup {"teardown"}
  BY DialLabels DEF Goes, Raised, DialMid
<1>5. \A u \in Thread \ {t} : pc'[u] = pc[u] /\ ret'[u] = ret[u] /\ arg'[u] = arg[u]
  BY DEF DialMove, Alone
<1>6. "teardown" \notin Raising \cup Raised /\ "seed" \in Raising /\ "apply" \in Raising
  BY DEF Raising, Raised, DialMid
<1>7. ASSUME NEW u \in Thread
      PROVE  /\ pc[u] = "seed" => pc'[u] = "seed"
             /\ pc'[u] \in {"apply", "seed"} => pc'[u] = pc[u] /\ arg'[u].ks = arg[u].ks
             /\ pc'[u] \in Raised => pc[u] \in Raised /\ arg'[u].ks = arg[u].ks
             /\ pc'[u] \in Raising => pc[u] \in Raising /\ arg'[u].has = arg[u].has
             /\ u \in Caller /\ Dials(u)' => Dials(u) /\ arg'[u].ks = arg[u].ks
  <2>1. CASE u = t
    BY <1>3, <1>4, <1>6, <2>1, TabLabels DEF Dials
  <2>2. CASE u # t
    BY <1>5, <2>2 DEF Dials
  <2> QED BY <2>1, <2>2
<1>8. CASE t = c
  BY <1>0, <1>1, <1>2, <1>3, <1>4, <1>6, <1>7, <1>8, TabLabels DEF TabSteady, Redials, Watching
<1>9. CASE t # c
  BY <1>0, <1>1, <1>2, <1>5, <1>7, <1>9 DEF TabSteady, Redials
<1> QED BY <1>8, <1>9

\* The table goes when a dial begins ...
LEMMA ShieldDownTab ==
  ASSUME TInv, Roles, Fields, NEW c \in Conn, NEW t \in Thread, ShieldDown(t), DialMove(t),
         arg[t].conn = c, TabOK(c), \A u \in Thread : TabAt(u, c),
         \A u \in Thread \ {t} : pc[u] \in {"idle", "toggle"},
         t \in Conn => t = c /\ Redials(c),
         t \in Caller => ref[c] = "dialing" /\ pc[c] = "idle"
  PROVE  TabOK(c)' /\ \A u \in Thread : TabAt(u, c)'
<1>0. /\ c \in Thread /\ LocalsOK /\ FieldsOK /\ host \in HostState
      /\ pc[t] = "shield" /\ c # NoTable
  BY HostNetAssumption DEF Thread, TInv, TypeOK, ShieldDown
<1>1. /\ ks' = ks /\ lastKS' = lastKS /\ enabled' = enabled /\ ref' = ref /\ cancelled' = cancelled
      /\ arg'[t].ks = arg[t].ks /\ arg'[t].has = arg[t].has
      /\ \A u \in Thread \ {t} : pc'[u] = pc[u] /\ ret'[u] = ret[u] /\ arg'[u] = arg[u]
  BY KeepsParameters DEF ShieldDown, DialMove, Alone, slots, memory, history, control
<1>2. \/ /\ host'.table = NoTable
         /\ pc'[t] = IF arg[t].ks THEN "apply" ELSE "harden"
      \/ /\ host' = host /\ pc'[t] = "teardown"
         /\ ret'[t] = IF t \in Caller THEN "connectFailed" ELSE "attemptFailed"
  <2>1. ConnectError(t) => pc'[t] = "teardown"
    BY <1>0 DEF ConnectError, CallTeardown, Goto, LocalsOK
  <2> QED BY <1>0, <2>1 DEF ShieldDown, ShieldOff, Advance, Goto, StepFails, HostState, LocalsOK, DialMove, Dialing
<1>3. arg[t].has = ks[c] /\ lastKS[c] = arg[t].ks
  BY <1>0 DEF TabAt, TabOK, Dials, Dialing, Thread
<1>4. ~arg[t].ks => ~ks[c]
  <2>1. CASE t \in Conn
    BY <2>1, <1>3 DEF TabOK
  <2>2. CASE t \in Caller
    BY <1>0, <1>3, <2>2 DEF Fields, DialUndone, Dials, Dialing
  <2> QED BY <2>1, <2>2 DEF Thread
<1>5. host'.table = c => host.table = c
  BY <1>0, <1>2
<1>6. \A u \in Thread : pc[u] # "seed"
  BY <1>0
<1>7. TabOK(c)'
  <2>1. CASE t = c
    BY <1>0, <1>1, <1>2, <1>3, <1>4, <1>6, <2>1 DEF TabOK, Redials, Watching
  <2>2. CASE t # c
    <3>1. t \in Caller /\ ref'[c] # "live" /\ pc'[c] = "idle"
      BY <1>0, <1>1, <2>2 DEF Thread
    <3> QED BY <1>0, <1>1, <1>5, <1>6, <3>1 DEF TabOK, Redials, Watching
  <2> QED BY <2>1, <2>2
<1>8. \A u \in Thread \ {t} : TabAt(u, c)'
  <2>1. \A u \in Thread \ {t} : pc'[u] \in {"idle", "toggle"}
    BY <1>1
  <2>2. \A u \in Thread \ {t} : ~Dials(u)'
    BY <2>1, TabLabels DEF Dials
  <2> QED BY <2>1, <2>2 DEF TabAt, DialMid
<1>9. TabAt(t, c)'
  <2>1. t \in Caller => lastKS'[c] = arg'[t].ks
    BY <1>1, <1>3
  <2>2. pc'[t] \in {"apply", "harden"} => host'.table = NoTable
    BY <1>2
  <2>3. pc'[t] = "apply" => arg'[t].ks
    BY <1>1, <1>2
  <2>4. pc'[t] = "harden" => ~arg'[t].ks /\ ks'[c] = arg'[t].ks
    BY <1>0, <1>1, <1>2, <1>4 DEF LocalsOK, Arg, FieldsOK
  <2>5. pc'[t] \in {"apply", "harden", "teardown"}
    BY <1>2
  <2> QED BY <1>1, <1>3, <2>1, <2>2, <2>3, <2>4, <2>5 DEF TabAt, DialMid
<1> QED BY <1>7, <1>8, <1>9

\* ... and comes back with the new server's rules ...
LEMMA ApplyRulesTab ==
  ASSUME TInv, Roles, Fields, NEW c \in Conn, NEW t \in Thread, ApplyRules(t), DialMove(t),
         arg[t].conn = c, TabOK(c), \A u \in Thread : TabAt(u, c),
         \A u \in Thread \ {t} : pc[u] \in {"idle", "toggle"},
         t \in Conn => t = c /\ Redials(c),
         t \in Caller => ref[c] = "dialing" /\ pc[c] = "idle"
  PROVE  TabOK(c)' /\ \A u \in Thread : TabAt(u, c)'
<1>0. /\ c \in Thread /\ LocalsOK /\ FieldsOK /\ host \in HostState
      /\ pc[t] = "apply" /\ c # NoTable /\ Target(t) = c
  BY HostNetAssumption DEF Thread, TInv, TypeOK, ApplyRules, Target
<1>1. /\ ks' = ks /\ lastKS' = lastKS /\ ref' = ref /\ cancelled' = cancelled
      /\ arg'[t].ks = arg[t].ks /\ arg'[t].has = arg[t].has
      /\ \A u \in Thread \ {t} : pc'[u] = pc[u] /\ ret'[u] = ret[u] /\ arg'[u] = arg[u]
  BY KeepsParameters DEF ApplyRules, DialMove, Alone, slots, memory, control
<1>2. \/ host'.table = c /\ pc'[t] = "seed"
      \/ host' = host /\ pc'[t] = "teardown" /\ enabled'[c] = "applyFailed"
  <2>1. ConnectError(t) => pc'[t] = "teardown"
    BY <1>0 DEF ConnectError, CallTeardown, Goto, LocalsOK
  <2> QED BY <1>0, <2>1 DEF ApplyRules, ShieldOn, Advance, Goto, StepFails, HostState, LocalsOK, FieldsOK
<1>3. arg[t].has = ks[c] /\ lastKS[c] = arg[t].ks /\ arg[t].ks /\ host.table = NoTable
  BY <1>0 DEF TabAt, TabOK, Dials, Dialing, Thread
<1>4. TabOK(c)'
  <2>1. CASE t = c
    BY <1>0, <1>1, <1>2, <1>3, <2>1 DEF TabOK, Redials, Watching
  <2>2. CASE t # c
    <3>1. t \in Caller /\ ref'[c] # "live" /\ pc'[c] = "idle"
      BY <1>0, <1>1, <2>2 DEF Thread
    <3> QED BY <1>0, <1>1, <1>2, <1>3, <3>1 DEF TabOK, Redials, Watching
  <2> QED BY <2>1, <2>2
<1>5. \A u \in Thread \ {t} : TabAt(u, c)'
  <2>1. \A u \in Thread \ {t} : pc'[u] \in {"idle", "toggle"}
    BY <1>1
  <2>2. \A u \in Thread \ {t} : ~Dials(u)'
    BY <2>1, TabLabels DEF Dials
  <2> QED BY <2>1, <2>2 DEF TabAt, DialMid
<1>6. TabAt(t, c)'
  BY <1>0, <1>1, <1>2, <1>3 DEF TabAt, DialMid
<1> QED BY <1>4, <1>5, <1>6

\* ... and is the connection's own once the API addresses are in.
LEMMA SeedAPIsTab ==
  ASSUME TInv, Roles, Fields, NEW c \in Conn, NEW t \in Thread, SeedAPIs(t), DialMove(t),
         arg[t].conn = c, TabOK(c), \A u \in Thread : TabAt(u, c),
         \A u \in Thread \ {t} : pc[u] \in {"idle", "toggle"},
         t \in Conn => t = c /\ Redials(c),
         t \in Caller => ref[c] = "dialing" /\ pc[c] = "idle"
  PROVE  TabOK(c)' /\ \A u \in Thread : TabAt(u, c)'
<1>0. /\ c \in Thread /\ LocalsOK /\ FieldsOK /\ host \in HostState
      /\ pc[t] = "seed" /\ c # NoTable /\ Target(t) = c
  BY HostNetAssumption DEF Thread, TInv, TypeOK, SeedAPIs, Target
<1>1. /\ lastKS' = lastKS /\ ref' = ref /\ cancelled' = cancelled
      /\ arg'[t].ks = arg[t].ks /\ arg'[t].has = arg[t].has
      /\ \A u \in Thread \ {t} : pc'[u] = pc[u] /\ ret'[u] = ret[u] /\ arg'[u] = arg[u]
  BY KeepsParameters DEF SeedAPIs, DialMove, Alone, memory, control
<1>2. arg[t].has = ks[c] /\ lastKS[c] = arg[t].ks /\ arg[t].ks /\ host.table = c
  BY <1>0 DEF TabAt, TabOK, Dials, Dialing, Thread
<1>3. /\ host'.table = c
      /\ \/ pc'[t] = "harden" /\ ks'[c] /\ enabled'[c] = "ok"
         \/ pc'[t] = "teardown" /\ ks' = ks /\ enabled'[c] = "seedFailed"
  <2>1. ConnectError(t) => pc'[t] = "teardown"
    BY <1>0 DEF ConnectError, CallTeardown, Goto, LocalsOK
  <2>2. \/ /\ host'.table = c /\ ks' = [ks EXCEPT ![c] = TRUE] /\ enabled' = [enabled EXCEPT ![c] = "ok"]
           /\ Goto(t, "harden")
        \/ /\ host' = host /\ ks' = ks /\ enabled' = [enabled EXCEPT ![c] = "seedFailed"]
           /\ ConnectError(t)
    <3>1. WriteFlag(host).table = c
      BY <1>0, <1>2 DEF WriteFlag, HostState
    <3> QED BY <1>0, <1>2, <3>1 DEF SeedAPIs, Advance, StepFails
  <2> QED BY <1>0, <1>2, <2>1, <2>2 DEF Goto, LocalsOK, FieldsOK
<1>4. TabOK(c)'
  <2>1. CASE t = c
    <3>1. Redials(c)' => ks'[c]
      BY <1>0, <1>1, <1>2, <1>3, <2>1 DEF TabOK, Redials, Watching
    <3> QED BY <1>0, <1>1, <1>2, <1>3, <2>1, <3>1 DEF TabOK, Redials, Watching
  <2>2. CASE t # c
    <3>1. t \in Caller /\ ref'[c] # "live" /\ pc'[c] = "idle"
      BY <1>0, <1>1, <2>2 DEF Thread
    <3> QED BY <1>0, <1>1, <1>2, <1>3, <3>1 DEF TabOK, Redials, Watching
  <2> QED BY <2>1, <2>2
<1>5. \A u \in Thread \ {t} : TabAt(u, c)'
  <2>1. \A u \in Thread \ {t} : pc'[u] \in {"idle", "toggle"}
    BY <1>1
  <2>2. \A u \in Thread \ {t} : ~Dials(u)'
    BY <2>1, TabLabels DEF Dials
  <2> QED BY <2>1, <2>2 DEF TabAt, DialMid
<1>6. TabAt(t, c)'
  BY <1>0, <1>1, <1>2, <1>3 DEF TabAt, DialMid
<1> QED BY <1>4, <1>5, <1>6

\* The steps of a teardown.
LEMMA UndoTab ==
  ASSUME TInv, Roles, Kept, Fields, OneConnection, NEW c \in Conn, ~raced[c], NEW t \in Thread,
         TabOK(c), SysOK(c), \A u \in Thread : TabAt(u, c),
         TearDown(t) \/ DropShield(t) \/ GiveBackDNS(t) \/ DropRoutes(t) \/ DropTunnel(t)
  PROVE  TabOK(c)' /\ \A u \in Thread : TabAt(u, c)'
<1>0. /\ c \in Thread /\ LocalsOK /\ FieldsOK /\ host \in HostState
      /\ UndoMove(t) /\ pc[t] \in TearingDown /\ pc'[t] \in TearingDown
      /\ arg[t].conn = c /\ Target(t) = c /\ c # NoTable
  BY UndoMoves, HostNetAssumption
  DEF Thread, TInv, TypeOK, TargetOK, Target, OneConnection, UndoMove, Undoing, TearingDown
<1>1. /\ lastKS' = lastKS /\ enabled' = enabled /\ ref' = ref /\ cancelled' = cancelled /\ ret'[t] = ret[t]
      /\ \A u \in Thread : arg'[u] = arg[u]
      /\ \A u \in Thread \ {t} : pc'[u] = pc[u] /\ ret'[u] = ret[u]
  BY <1>0 DEF TearDown, DropShield, GiveBackDNS, DropRoutes, DropTunnel, memory, history, UndoMove, Alone
<1>2. \A u \in Thread :
         /\ u # t => pc'[u] = pc[u]
         /\ u = t => pc[u] \notin Dialing /\ pc'[u] \notin Dialing
         /\ pc'[u] \in Watching <=> pc[u] \in Watching
         /\ pc'[u] \in Watching => pc'[u] = pc[u]
         /\ Dials(u)' => Dials(u)
  BY <1>0, <1>1, TabLabels DEF Dials
<1>3. ASSUME host'.table = host.table, ks' = ks
      PROVE  TabOK(c)' /\ \A u \in Thread : TabAt(u, c)'
  <2>1. \A u \in Thread :
          /\ pc[u] = "seed" => pc'[u] = "seed"
          /\ pc'[u] \in {"apply", "seed"} => pc'[u] = pc[u] /\ arg'[u].ks = arg[u].ks
          /\ pc'[u] \in Raised => pc[u] \in Raised /\ arg'[u].ks = arg[u].ks
          /\ pc'[u] \in Raising => pc[u] \in Raising /\ arg'[u].has = arg[u].has
          /\ u \in Caller /\ Dials(u)' => Dials(u) /\ arg'[u].ks = arg[u].ks
    BY <1>1, <1>2, TabLabels DEF Raising
  <2>2. pc[c] \in {"apply", "seed"} => pc'[c] \in {"apply", "seed"}
    BY <1>0, <1>2 DEF Dialing
  <2>3. TabSteady(c)
    BY <1>0, <1>1, <1>2, <1>3, <2>1, <2>2 DEF TabSteady, Redials
  <2> QED BY <2>3, SteadyTab
<1>4. CASE DropShield(t) /\ DisablesShield(t)
  <2>1. host'.table = NoTable /\ ks'[c] = FALSE /\ ~snap[t].keep
    <3>1. host' = ShieldOff(host) /\ ks' = [ks EXCEPT ![c] = FALSE]
      BY <1>0, <1>4 DEF DropShield
    <3>2. ShieldOff(host).table = NoTable
      BY <1>0 DEF ShieldOff, HostState
    <3> QED BY <1>0, <1>4, <3>1, <3>2 DEF DisablesShield, FieldsOK
  <2>2. \A u \in Thread : pc'[u] \notin Dialing
    <3>1. ASSUME NEW u \in Thread, pc'[u] \in Dialing PROVE FALSE
      <4>1. u # t /\ pc[u] \in Dialing
        BY <1>2, <3>1
      <4> QED BY <1>0, <4>1, Solo, TabLabels DEF TearingDown
    <3> QED BY <3>1
  <2>3. Redials(c)' => ~arg'[c].has /\ ~arg'[c].ks /\ ~lastKS'[c]
    <3>1. CASE t = c
      <4>1. Redials(c)' => Redials(c)
        BY <1>0, <1>1, <1>2 DEF Redials
      <4>2. Redials(c) => ~arg[c].has
        BY <1>0, <2>1, <3>1 DEF SysOK
      <4>3. Redials(c) => ~arg[c].ks /\ ~lastKS[c]
        BY <1>0, <4>2 DEF TabOK, LocalsOK, Arg, FieldsOK
      <4> QED BY <1>0, <1>1, <4>1, <4>2, <4>3
    <3>2. CASE t \in Caller
      BY <1>0, <1>1, <1>2, <3>2 DEF Roles, CallerRole, OneDialer, Dials, Disconnects, Fields, DisconnectUndone,
         ClosedClears, Redials, Watching
    <3> QED BY <3>1, <3>2 DEF Thread, OneConnection
  <2>4. TabOK(c)'
    <3>1. ref'[c] = "live" /\ pc'[c] \in Watching => ~lastKS'[c]
      <4>1. CASE t = c
        BY <1>0, <4>1, TabLabels
      <4>2. CASE t \in Caller
        BY <1>0, <1>1, <4>2 DEF Roles, CallerRole, OneDialer, Dials, Disconnects, Fields, DisconnectUndone
      <4> QED BY <4>1, <4>2 DEF Thread, OneConnection
    <3>2. host'.table # c
      BY <1>0, <2>1
    <3>3. Redials(c)' => arg'[c].ks = lastKS'[c] /\ arg'[c].has = lastKS'[c] /\ ks'[c] = lastKS'[c]
      <4>1. \A b \in BOOLEAN : ~b => b = FALSE
        OBVIOUS
      <4>2. /\ arg'[c].ks \in BOOLEAN /\ arg'[c].has \in BOOLEAN /\ lastKS'[c] \in BOOLEAN
        BY <1>0, <1>1 DEF LocalsOK, Arg, FieldsOK
      <4> QED BY <2>1, <2>3, <4>1, <4>2
    <3> QED BY <2>1, <2>3, <3>1, <3>2, <3>3 DEF TabOK
  <2>5. \A u \in Thread : TabAt(u, c)'
    BY <1>1, <1>2, <2>2, TabLabels DEF TabAt, Raising, Raised
  <2> QED BY <2>4, <2>5
<1>5. CASE TearDown(t) \/ (DropShield(t) /\ ~DisablesShield(t)) \/ GiveBackDNS(t) \/ DropRoutes(t) \/ DropTunnel(t)
  <2>1. ks' = ks
    BY <1>5 DEF TearDown, DropShield, GiveBackDNS, DropRoutes, DropTunnel, slots
  <2>2. host'.table = host.table
    <3>1. DNSOff(host).table = host.table /\ RoutesOff(host).table = host.table
          /\ LinkDrop(host, snap[t].tun).table = host.table
      BY <1>0 DEF DNSOff, RoutesOff, LinkDrop, LinkDel, HostState
    <3> QED BY <1>5, <3>1 DEF TearDown, DropShield, GiveBackDNS, DropRoutes, DropTunnel
  <2> QED BY <1>3, <2>1, <2>2
<1> QED BY <1>4, <1>5

\* A goroutine that only waits, ends or turns to a teardown.
LEMMA AsideSteady ==
  ASSUME TInv, NEW c \in Conn, NEW t \in Thread,
         host'.table = host.table,
         ks'[c] = ks[c], lastKS'[c] = lastKS[c], enabled'[c] = enabled[c],
         \A u \in Thread \ {t} : pc'[u] = pc[u] /\ ret'[u] = ret[u] /\ arg'[u] = arg[u],
         pc[t] # "seed",
         \/ pc'[t] \notin Dialing
         \/ pc'[t] = "shield" /\ arg'[t].has = ks[c],
         t \in Caller /\ Dials(t)' => Dials(t) /\ arg'[t].ks = arg[t].ks,
         ref'[c] = "live" => ref[c] = "live",
         ref'[c] = "live" /\ pc'[c] \in Watching => pc[c] \in Watching,
         Redials(c)' =>
             /\ Redials(c) /\ arg'[c].ks = arg[c].ks /\ arg'[c].has = arg[c].has
             /\ pc[c] \in {"apply", "seed"} => pc'[c] \in {"apply", "seed"}
  PROVE  TabSteady(c)
<1>1. "shield" \notin Raised \cup {"apply", "seed"} /\ "shield" \in Raising
      /\ "apply" \in Dialing /\ "seed" \in Dialing
  BY DEF Raised, Raising, DialMid, Dialing
<1>2. ASSUME NEW u \in Thread
      PROVE  /\ pc[u] = "seed" => pc'[u] = "seed"
             /\ pc'[u] \in {"apply", "seed"} => pc'[u] = pc[u] /\ arg'[u].ks = arg[u].ks
             /\ pc'[u] \in Raised => pc[u] \in Raised /\ arg'[u].ks = arg[u].ks
             /\ pc'[u] \in Raising => \/ pc[u] \in Raising /\ arg'[u].has = arg[u].has
                                      \/ arg'[u].has = ks[c]
             /\ u \in Caller /\ Dials(u)' => Dials(u) /\ arg'[u].ks = arg[u].ks
  <2>1. CASE u = t
    BY <1>1, <2>1, TabLabels
  <2>2. CASE u # t
    BY <2>2 DEF Dials
  <2> QED BY <2>1, <2>2
<1> QED BY <1>2 DEF TabSteady

\* What the monitor does by itself.
LEMMA MonitorTab ==
  ASSUME TInv, Roles, Kept, Fields, Uncancelled, NEW c \in Conn, ~raced[c],
         Monitor(c), TabOK(c), \A u \in Thread : TabAt(u, c)
  PROVE  TabOK(c)' /\ \A u \in Thread : TabAt(u, c)'
<1>0. /\ c \in Thread /\ c \notin Caller /\ LocalsOK /\ FieldsOK /\ pc[c] # "idle"
      /\ UNCHANGED <<host, ks, lastKS, enabled, ref, cancelled>>
      /\ \A u \in Thread \ {c} : pc'[u] = pc[u] /\ ret'[u] = ret[u] /\ arg'[u] = arg[u]
  <2>1. host' = host
    BY DEF Monitor, MonitorStops, MonitorWakes, TunnelStale, CheckAfterWake, BeginReconnect,
       ReconnectCancelled, LoopHead, WaitNetwork, Attempt, WakeFromBackoff, WaitExpires
  <2>2. lastKS' = lastKS /\ enabled' = enabled
    BY DEF Monitor, MonitorStops, MonitorWakes, TunnelStale, CheckAfterWake, BeginReconnect,
       ReconnectCancelled, LoopHead, WaitNetwork, Attempt, WakeFromBackoff, WaitExpires, memory, history
  <2> QED BY <2>1, <2>2, MonitorMoves, ConnectionAssumption DEF MonitorMove, Alone, Thread, TInv, TypeOK
<1>1. ASSUME pc[c] # "seed",
             \/ pc'[c] \notin Dialing
             \/ pc'[c] = "shield" /\ arg'[c].has = ks[c],
             ref[c] = "live" /\ pc'[c] \in Watching => pc[c] \in Watching,
             Redials(c)' =>
                 /\ Redials(c) /\ arg'[c].ks = arg[c].ks /\ arg'[c].has = arg[c].has
                 /\ pc[c] \in {"apply", "seed"} => pc'[c] \in {"apply", "seed"}
      PROVE  TabOK(c)' /\ \A u \in Thread : TabAt(u, c)'
  BY <1>0, <1>1, AsideSteady, SteadyTab
<1>2. CASE MonitorStops(c) \/ MonitorWakes(c) \/ TunnelStale(c) \/ CheckAfterWake(c)
  <2>1. pc[c] \in {"watch", "wake"} /\ pc'[c] \in Watching
    BY <1>0, <1>2 DEF MonitorStops, MonitorWakes, TunnelStale, CheckAfterWake, GoesStale, Finish, Goto,
       LocalsOK, Watching
  <2> QED BY <1>1, <2>1, TabLabels DEF Watching, Redials
<1>3. CASE BeginReconnect(c)
  <2>1. /\ pc[c] = "reconnect" /\ pc'[c] = "teardown" /\ arg'[c].has = ks[c] /\ arg'[c].ks = lastKS[c]
    BY <1>0, <1>3 DEF BeginReconnect, Goto, LocalsOK, NoArg
  <2>2. ~cancelled[c] => ref[c] = "live"
    BY <1>0, <2>1 DEF Fields, ClosedClears, Roles, OneDialer, FieldsOK
  <2>3. ~cancelled[c] => ks[c] = lastKS[c] /\ (ks[c] => host.table = c)
    BY <1>0, <2>1, <2>2 DEF TabOK, Watching, FieldsOK
  <2>4. TabOK(c)'
    <3>1. \A u \in Thread : pc[u] = "seed" => pc'[u] = "seed"
      BY <1>0, <2>1
    <3> QED BY <1>0, <2>1, <2>3, <3>1, TabLabels DEF TabOK, Redials, TearingDown
  <2>5. \A u \in Thread : TabAt(u, c)'
    <3>1. TabAt(c, c)'
      BY <1>0, <2>1 DEF TabAt, DialMid
    <3>2. ASSUME NEW u \in Thread \ {c} PROVE TabAt(u, c)'
      BY <1>0, <3>2 DEF TabAt, Dials
    <3> QED BY <3>1, <3>2
  <2> QED BY <2>4, <2>5
<1>4. CASE ReconnectCancelled(c)
  <2>1. pc[c] \in {"loop"} \cup Waiting /\ pc'[c] \in {"idle", "teardown"} /\ cancelled[c]
    BY <1>0, <1>4 DEF ReconnectCancelled, CallTeardown, Finish, Goto, LocalsOK
  <2>2. ref[c] # "live"
    BY <1>0, <2>1 DEF Uncancelled
  <2> QED BY <1>0, <1>1, <2>1, <2>2, TabLabels DEF Waiting, Redials, TearingDown
<1>5. CASE LoopHead(c) \/ WaitNetwork(c) \/ WakeFromBackoff(c) \/ WaitExpires(c)
  <2>1. /\ pc[c] \in {"loop", "waitnet"} \cup Waiting
        /\ pc'[c] \in {"loop", "waitnet", "attempt"} \cup Waiting /\ arg' = arg
    BY <1>0, <1>5 DEF LoopHead, WaitNetwork, WakeFromBackoff, WaitExpires, Goto, LocalsOK, Waiting
  <2> QED BY <1>0, <1>1, <2>1, TabLabels DEF Waiting, Redials, Watching
<1>6. CASE Attempt(c)
  <2>1. /\ pc[c] = "attempt" /\ pc'[c] \in {"shield"} \cup Waiting
        /\ arg'[c].ks = arg[c].ks /\ arg'[c].has = arg[c].has
    BY <1>0, <1>6 DEF Attempt, Goto, LocalsOK, Arg, Waiting
  <2>2. ~cancelled[c]
    BY <1>0, <2>1 DEF Fields, ClosedClears, Roles, OneDialer, FieldsOK, MidAttempt, Uncancelled
  <2>3. arg[c].has = ks[c]
    BY <2>1, <2>2 DEF TabOK, Redials, Watching
  <2> QED BY <1>0, <1>1, <2>1, <2>3, TabLabels DEF Waiting, Redials, Watching
<1> QED BY <1>2, <1>3, <1>4, <1>5, <1>6 DEF Monitor

\* A teardown that returns.
LEMMA RelaxTab ==
  ASSUME TInv, Roles, Kept, Fields, Uncancelled, OneConnection, NEW c \in Conn,
         NEW t \in Thread, RelaxHost(t)
  PROVE  TabSteady(c)
<1>0. /\ c \in Thread /\ LocalsOK /\ FieldsOK /\ host \in HostState
      /\ arg[t].conn = c /\ Target(t) = c /\ pc[t] = "tdSysctl"
  BY DEF Thread, TInv, TypeOK, Target, TargetOK, RelaxHost, OneConnection
<1>1. /\ host'.table = host.table
      /\ ks' = ks /\ lastKS' = lastKS /\ enabled' = enabled /\ cancelled' = cancelled
  BY <1>0 DEF RelaxHost, Relax, slots, control, history, HostState
<1>2. ReturnToConnect(t) \/ ReturnToReconnect(t) \/ ReturnToEnd(t)
  BY DEF RelaxHost
<1>3. /\ \A u \in Thread \ {t} : pc'[u] = pc[u] /\ ret'[u] = ret[u] /\ arg'[u] = arg[u]
      /\ pc'[t] \in {"idle", "fallback", "loop", "backoff"}
      /\ ref'[c] = "live" => ref[c] = "live"
  BY <1>0, <1>2 DEF ReturnToConnect, ReturnToReconnect, ReturnToEnd, Finish, Goto, LocalsOK, FieldsOK
<1>4. /\ pc'[t] = "fallback" => ret[t] = "connectFailed" /\ arg' = arg
      /\ pc'[t] \in {"loop", "backoff"} => arg' = arg
      /\ pc'[t] = "idle" => ret[t] \in {"connectFailed", "cancelled", "disconnect"}
  BY <1>0, <1>2 DEF ReturnToConnect, ReturnToReconnect, ReturnToEnd, Finish, Goto, LocalsOK
<1>5. t \in Caller /\ Dials(t)' => Dials(t) /\ arg'[t].ks = arg[t].ks
  BY <1>0, <1>3, <1>4, TabLabels DEF Dials, TearingDown, Dialing
<1>6. CASE t = c
  <2>1. pc[c] \in TearingDown /\ ret[c] \in {"reconnect", "attemptFailed", "cancelled"}
    BY <1>0, <1>6 DEF Roles, MonitorRole, TearingDown
  <2>2. pc'[c] # "fallback" /\ (pc'[c] = "idle" => ret[c] = "cancelled")
    BY <1>3, <1>4, <1>6, <2>1
  <2>3. ref'[c] = "live" /\ pc'[c] \in Watching => pc[c] \in Watching
    BY <1>0, <1>3, <2>1, <2>2, <1>6 DEF Uncancelled, Watching, TearingDown
  <2>4. Redials(c)' =>
             /\ Redials(c) /\ arg'[c].ks = arg[c].ks /\ arg'[c].has = arg[c].has
             /\ pc[c] \in {"apply", "seed"} => pc'[c] \in {"apply", "seed"}
    BY <1>0, <1>1, <1>3, <1>4, <2>1, <2>2, <1>6, TabLabels DEF Redials, Watching
  <2>5. pc'[t] \notin Dialing
    BY <1>3 DEF Dialing
  <2> QED BY <1>0, <1>1, <1>3, <1>5, <1>6, <2>3, <2>4, <2>5, AsideSteady
<1>7. CASE t # c
  <2>1. pc'[t] \notin Dialing
    BY <1>3 DEF Dialing
  <2>2. Redials(c)' =>
             /\ Redials(c) /\ arg'[c].ks = arg[c].ks /\ arg'[c].has = arg[c].has
             /\ pc[c] \in {"apply", "seed"} => pc'[c] \in {"apply", "seed"}
    BY <1>0, <1>1, <1>3, <1>7 DEF Redials
  <2> QED BY <1>0, <1>1, <1>3, <1>5, <1>7, <2>1, <2>2, AsideSteady
<1> QED BY <1>6, <1>7

\* Calls that do not concern the kill switch.
LEMMA CallsTab ==
  ASSUME TInv, Roles, Kept, Fields, OneConnection, NEW c \in Conn, NEW t \in Thread,
         \/ SmartFallback(t) \/ Disconnecting(t)
         \/ t \in Caller /\ (Disconnect(t, c) \/ CheckConnected(t, c))
  PROVE  TabSteady(c)
<1>0. /\ c \in Thread /\ LocalsOK /\ FieldsOK /\ t \in Caller /\ t # c /\ pc[t] # "seed"
  <2>1. t \in Caller
    BY DEF SmartFallback, Disconnecting, Roles, MonitorRole, Thread
  <2> QED BY <2>1, ConnectionAssumption
      DEF Thread, TInv, TypeOK, SmartFallback, Disconnecting, Disconnect, CheckConnected
<1>1. \A u \in Thread \ {t} : pc'[u] = pc[u] /\ ret'[u] = ret[u] /\ arg'[u] = arg[u]
  BY <1>0 DEF SmartFallback, Disconnecting, CallTeardown, Finish, Goto, Disconnect, CheckConnected, LocalsOK
<1>2. /\ host' = host /\ ks' = ks /\ lastKS' = lastKS /\ enabled' = enabled
      /\ cancelled[c] => cancelled'[c]
      /\ ref'[c] = "live" => ref[c] = "live"
  BY <1>0 DEF SmartFallback, Disconnecting, Disconnect, CheckConnected, slots, memory, history, control, FieldsOK
<1>3. /\ pc'[t] \notin Dialing \/ (pc'[t] = "shield" /\ arg'[t].has = ks[c])
      /\ Dials(t)' => Dials(t) /\ arg'[t].ks = arg[t].ks
  <2>1. CASE SmartFallback(t)
    <3>1. Dials(t) /\ Target(t) = c
      BY <2>1 DEF SmartFallback, Dials, TInv, TargetOK, Target, OneConnection
    <3>2. \/ pc'[t] = "idle"
          \/ pc'[t] = "shield" /\ arg'[t].has = ks[c] /\ arg'[t].ks = arg[t].ks
      BY <1>0, <2>1, <3>1 DEF SmartFallback, Finish, Goto, LocalsOK, Arg
    <3> QED BY <3>1, <3>2, TabLabels DEF Dials
  <2>2. CASE Disconnecting(t)
    <3>1. pc'[t] = "teardown" /\ ret'[t] = "disconnect"
      BY <1>0, <2>2 DEF Disconnecting, CallTeardown, Goto, LocalsOK
    <3> QED BY <3>1 DEF Dials, Dialing
  <2>3. CASE Disconnect(t, c) \/ CheckConnected(t, c)
    <3>1. pc'[t] \in {"disconnect", "toggle"}
      BY <1>0, <2>3 DEF Disconnect, CheckConnected, Goto, LocalsOK
    <3> QED BY <3>1, TabLabels DEF Dials
  <2> QED BY <2>1, <2>2, <2>3
<1>4. Redials(c)' =>
             /\ Redials(c) /\ arg'[c].ks = arg[c].ks /\ arg'[c].has = arg[c].has
             /\ pc[c] \in {"apply", "seed"} => pc'[c] \in {"apply", "seed"}
  BY <1>0, <1>1, <1>2 DEF Redials
<1>5. /\ host'.table = host.table
      /\ ks'[c] = ks[c] /\ lastKS'[c] = lastKS[c] /\ enabled'[c] = enabled[c]
      /\ ref'[c] = "live" /\ pc'[c] \in Watching => pc[c] \in Watching
  BY <1>0, <1>1, <1>2
<1> QED BY <1>0, <1>1, <1>2, <1>3, <1>4, <1>5, AsideSteady

\* A toggle to the setting that is already there.
LEMMA IdleToggleTab ==
  ASSUME TInv, Roles, NEW c \in Conn, NEW t \in Thread, SetKillSwitch(t),
         OneConnection, arg[t].ks = ks[c]
  PROVE  TabSteady(c)
<1>0. /\ c \in Thread /\ LocalsOK /\ t \in Caller /\ t # c /\ Target(t) = c /\ pc[t] = "toggle"
  <2>1. t \in Caller
    BY DEF SetKillSwitch, Roles, MonitorRole, Thread
  <2> QED BY <2>1, ConnectionAssumption
      DEF Thread, TInv, TypeOK, SetKillSwitch, TargetOK, Target, OneConnection
<1>1. /\ UNCHANGED <<host, ks, lastKS, enabled, ref, cancelled>>
      /\ \A u \in Thread \ {t} : pc'[u] = pc[u] /\ ret'[u] = ret[u] /\ arg'[u] = arg[u]
      /\ pc'[t] = "idle"
  BY <1>0 DEF SetKillSwitch, Finish, Goto, control, LocalsOK
<1>2. ~Dials(t)' /\ pc'[t] \notin Dialing
  BY <1>1, TabLabels DEF Dials
<1> QED BY <1>0, <1>1, <1>2, AsideSteady DEF Redials

\* A toggle on a connection that is not in the middle of a reconnect.
LEMMA SetKillSwitchTab ==
  ASSUME TInv, Roles, Kept, Fields, OneConnection, NEW c \in Conn, ~raced'[c],
         NEW t \in Thread, SetKillSwitch(t), arg[t].ks # ks[c],
         TabOK(c), \A u \in Thread : TabAt(u, c)
  PROVE  TabOK(c)' /\ \A u \in Thread : TabAt(u, c)'
<1>0. /\ c \in Thread /\ LocalsOK /\ FieldsOK /\ host \in HostState /\ t \in Caller /\ t # c
      /\ pc[t] = "toggle" /\ arg[t].conn = c /\ Target(t) = c /\ c # NoTable
  <2>1. t \in Caller
    BY DEF SetKillSwitch, Roles, MonitorRole, Thread
  <2> QED BY <2>1, ConnectionAssumption, HostNetAssumption
      DEF Thread, TInv, TypeOK, SetKillSwitch, TargetOK, Target, OneConnection
<1>1. ~raced[c] /\ ~MidReconnect(c) /\ ref[c] = "live"
  <2>1. ref[c] \in {"live", "closed"}
    BY <1>0 DEF Fields, DisconnectUndone
  <2> QED BY <1>0, <2>1 DEF SetKillSwitch, Overtakes, FieldsOK
<1>2. /\ \A u \in Thread \ {t} : pc'[u] = pc[u] /\ ret'[u] = ret[u] /\ arg'[u] = arg[u]
      /\ pc'[t] = "idle" /\ ref' = ref /\ cancelled' = cancelled
  BY <1>0 DEF SetKillSwitch, Finish, Goto, control, LocalsOK
<1>3. pc[c] \in {"idle", "watch", "wake"} /\ pc'[c] = pc[c]
  BY <1>0, <1>1, <1>2 DEF MidReconnect
<1>4. \A u \in Thread : pc[u] \notin Dialing
  <2>1. ASSUME NEW u \in Thread, pc[u] \in Dialing PROVE FALSE
    <3>1. CASE u \in Conn
      <4>1. u = c
        BY <3>1 DEF OneConnection
      <4> QED BY <1>3, <2>1, <4>1 DEF Dialing
    <3>2. CASE u \in Caller
      BY <1>1, <2>1, <3>2, Solo
    <3> QED BY <3>1, <3>2 DEF Thread
  <2> QED BY <2>1
<1>5. \A u \in Caller : ~Dials(u)
  BY <1>1 DEF Roles, OneDialer, Dials, TInv, TargetOK, OneConnection, Thread, Dialing, TearingDown
<1>6. \A u \in Thread : TabAt(u, c)'
  <2>1. \A u \in Thread : pc'[u] \notin Dialing
    BY <1>2, <1>4, TabLabels
  <2>2. \A u \in Caller : ~Dials(u)'
    BY <1>2, <1>5, TabLabels DEF Dials, Thread
  <2> QED BY <2>1, <2>2, TabLabels DEF TabAt, Raising, Raised
<1>7. TabOK(c)'
  <2>1. ~Redials(c)'
    BY <1>3 DEF Redials, Watching
  <2>2. (ks[c] <=> lastKS[c]) /\ (ks[c] => host.table = c)
    BY <1>1, <1>3 DEF TabOK, Watching
  <2>3. SUFFICES /\ host'.table = c => ks'[c] \/ enabled'[c] = "seedFailed"
                 /\ (ks'[c] <=> lastKS'[c]) /\ (ks'[c] => host'.table = c)
    BY <2>1 DEF TabOK
  <2>4. CASE arg[t].ks
    <3>1. SwitchOn(c) /\ ~ks[c]
      BY <1>0, <2>4 DEF SetKillSwitch, LocalsOK, Arg, FieldsOK
    <3>2. /\ ShieldOff(host).table = NoTable
          /\ ShieldOn(ShieldOff(host), c).table = c
          /\ WriteFlag(ShieldOn(ShieldOff(host), c)).table = c
      BY <1>0 DEF ShieldOff, ShieldOn, WriteFlag, HostState
    <3> QED BY <1>0, <2>2, <3>1, <3>2 DEF SwitchOn, FieldsOK
  <2>5. CASE ~arg[t].ks
    <3>1. SwitchOff(c)
      BY <1>0, <2>5 DEF SetKillSwitch
    <3>2. ShieldOff(host).table = NoTable
      BY <1>0 DEF ShieldOff, HostState
    <3> QED BY <1>0, <3>1, <3>2 DEF SwitchOff, FieldsOK
  <2> QED BY <2>4, <2>5
<1> QED BY <1>6, <1>7

\* A connection is called for the first time.
LEMMA ConnectTab ==
  ASSUME TInv, Roles, Kept, Fields, OneConnection, NEW c \in Conn,
         NEW t \in Caller, Connect(t, c), TabOK(c), \A u \in Thread : TabAt(u, c)
  PROVE  TabOK(c)' /\ \A u \in Thread : TabAt(u, c)'
<1>0. /\ c \in Thread /\ t \in Thread /\ LocalsOK /\ FieldsOK /\ t # c
      /\ pc[t] = "idle" /\ ref[c] = "new" /\ pc[c] = "idle"
  BY ConnectionAssumption DEF Thread, TInv, TypeOK, Connect, Roles, OneDialer
<1>1. /\ \A u \in Thread \ {t} : pc'[u] = pc[u] /\ ret'[u] = ret[u] /\ arg'[u] = arg[u]
      /\ pc'[t] = "shield" /\ ref'[c] = "dialing"
      /\ UNCHANGED <<host, ks, enabled>>
  BY <1>0 DEF Connect, Goto, slots, history, LocalsOK, FieldsOK
<1>2. arg'[t].has = ks[c] /\ arg'[t].ks = lastKS'[c]
  BY <1>0 DEF Connect, LocalsOK, FieldsOK, NoArg
<1>3. \A u \in Caller : ~Dials(u)
  BY <1>0 DEF Roles, OneDialer, Dials, TInv, TargetOK, OneConnection, Thread, Dialing, TearingDown
<1>4. \A u \in Thread : pc[u] \notin Dialing
  BY <1>0, <1>3 DEF Dials, Thread, OneConnection, Dialing
<1>5. \A u \in Thread \ {t} : TabAt(u, c)'
  BY <1>1, <1>3, <1>4, TabLabels DEF TabAt, Raising, Raised, Dials, Thread
<1>6. TabAt(t, c)'
  BY <1>1, <1>2 DEF TabAt, DialMid
<1>7. TabOK(c)'
  <2>1. \A u \in Thread : pc[u] # "seed"
    BY <1>4 DEF Dialing
  <2> QED BY <1>0, <1>1, <2>1 DEF TabOK, Redials, Watching
<1> QED BY <1>5, <1>6, <1>7

\* A dial that succeeds leaves the table as it was asked for.
LEMMA StartMonitorTab ==
  ASSUME TInv, Roles, Kept, Fields, Uncancelled, OneConnection, NEW c \in Conn, ~raced[c],
         NEW t \in Thread, StartMonitor(t), TabOK(c), \A u \in Thread : TabAt(u, c)
  PROVE  TabOK(c)' /\ \A u \in Thread : TabAt(u, c)'
<1>0. /\ c \in Thread /\ LocalsOK /\ FieldsOK /\ host \in HostState /\ pc[t] = "remonitor"
      /\ pc[t] \in Dialing /\ Target(t) = c /\ c # NoTable
  BY HostNetAssumption
  DEF Thread, TInv, TypeOK, Target, TargetOK, StartMonitor, OneConnection, Dialing
<1>1. /\ arg[t].conn = c /\ \A u \in Thread \ {t} : pc[u] \in {"idle", "toggle"}
      /\ t \in Conn => t = c /\ ref[c] = "live"
  BY <1>0, Solo
<1>2. /\ UNCHANGED <<host, ks, lastKS, enabled>>
      /\ pc'[c] \in {"idle", "watch"} /\ pc'[t] \in {"idle", "watch"}
      /\ \A u \in Thread \ {t, c} : pc'[u] = pc[u]
  BY <1>0 DEF StartMonitor, slots, memory, history, LocalsOK
<1>3. lastKS[c] = arg[t].ks
  <2>1. CASE t \in Caller
    BY <1>0, <2>1 DEF TabAt, Dials
  <2>2. CASE t \in Conn
    BY <1>0, <1>1, <2>2 DEF TabOK, Redials, Watching, Uncancelled
  <2> QED BY <2>1, <2>2 DEF Thread
<1>4. ks[c] = arg[t].ks /\ (arg[t].ks => host.table = c) /\ (~arg[t].ks => host.table = NoTable)
  BY <1>0 DEF TabAt, DialMid
<1>5. \A u \in Thread : pc'[u] \in {"idle", "toggle", "watch"}
  BY <1>1, <1>2
<1>6. TabOK(c)'
  BY <1>0, <1>2, <1>3, <1>4 DEF TabOK, Redials, Watching
<1>7. \A u \in Thread : TabAt(u, c)'
  BY <1>5 DEF TabAt, DialMid, Dials, Dialing, TearingDown
<1> QED BY <1>6, <1>7

LEMMA InitTab == Init => Tab
<1> SUFFICES ASSUME Init, NEW c \in Conn PROVE TabOK(c) /\ \A t \in Thread : TabAt(t, c)
  BY DEF Tab
<1>1. host.table \in {NoTable, BootTable}
  <2>1. host \in {CleanHost, [CleanHost EXCEPT !.table = BootTable, !.flag = TRUE]}
    BY DEF Init
  <2>2. CASE host = CleanHost
    BY <2>2 DEF CleanHost
  <2>3. CASE host = [CleanHost EXCEPT !.table = BootTable, !.flag = TRUE]
    BY <2>3 DEF CleanHost
  <2> QED BY <2>1, <2>2, <2>3
<1>3. ref[c] = "new" /\ c \in Thread /\ \A t \in Thread : pc[t] = "idle"
  BY DEF Init, Thread
<1>2. host.table # c
  BY <1>1, HostNetAssumption
<1> QED BY <1>2, <1>3 DEF TabOK, TabAt, Redials, Watching, DialMid, Dials, Dialing, TearingDown

LEMMA NextTab ==
  TInv /\ Roles /\ Kept /\ Fields /\ OneConnection /\ Uncancelled /\ Sys /\ Tab /\ [Next]_vars => Tab'
<1> SUFFICES ASSUME TInv, Roles, Kept, Fields, OneConnection, Uncancelled, Sys, Tab, [Next]_vars,
                    NEW c \in Conn, ~raced'[c]
             PROVE  TabOK(c)' /\ \A t \in Thread : TabAt(t, c)'
  BY DEF Tab
<1>0. /\ ~raced[c] /\ TabOK(c) /\ SysOK(c) /\ \A t \in Thread : TabAt(t, c)
  BY RacedStays DEF Tab, Sys
<1>1. ASSUME TabSteady(c) PROVE TabOK(c)' /\ \A u \in Thread : TabAt(u, c)'
  BY <1>0, <1>1, SteadyTab
<1>2. ASSUME NEW t \in Thread,
             \/ ShieldDown(t) \/ ApplyRules(t) \/ SeedAPIs(t) \/ HardenHost(t) \/ BringUpTunnel(t)
             \/ SetUpRoutes(t) \/ WaitLocalAgent(t) \/ TakeOverDNS(t) \/ PersistBootState(t)
             \/ Connected(t)
      PROVE  TabOK(c)' /\ \A u \in Thread : TabAt(u, c)'
  <2>1. DialMove(t)
    BY <1>2, DialMoves
  <2>2. /\ arg[t].conn = c /\ \A u \in Thread \ {t} : pc[u] \in {"idle", "toggle"}
        /\ t \in Conn => t = c /\ ref[c] = "live"
        /\ t \in Caller => ref[c] = "dialing" /\ pc[c] = "idle"
    BY <1>0, <2>1, Solo DEF DialMove
  <2>3. t \in Conn => t = c /\ Redials(c)
    BY <2>1, <2>2, TabLabels DEF Redials, Uncancelled, DialMove, Watching
  <2> QED BY <1>0, <1>1, <1>2, <2>1, <2>2, <2>3, ShieldDownTab, ApplyRulesTab, SeedAPIsTab, RaisedSteady
<1>3. ASSUME NEW t \in Thread, Undo(t)
      PROVE  TabOK(c)' /\ \A u \in Thread : TabAt(u, c)'
  BY <1>0, <1>1, <1>3, UndoTab, RelaxTab DEF Undo
<1>4. ASSUME NEW t \in Thread, Dial(t)
      PROVE  TabOK(c)' /\ \A u \in Thread : TabAt(u, c)'
  <2>1. CASE SmartFallback(t)
    BY <1>1, <2>1, CallsTab
  <2>2. CASE StartMonitor(t)
    BY <1>0, <2>2, StartMonitorTab
  <2> QED BY <1>2, <1>4, <2>1, <2>2 DEF Dial
<1>5. CASE \E d \in Conn : Monitor(d)
  BY <1>0, <1>5, MonitorTab DEF OneConnection
<1>6. CASE \E t \in Thread : Disconnecting(t) \/ SetKillSwitch(t)
  BY <1>0, <1>1, <1>6, CallsTab, IdleToggleTab, SetKillSwitchTab
<1>7. CASE \E t \in Caller, d \in Conn : Call(t, d)
  <2>1. PICK t \in Caller : Call(t, c)
    BY <1>7 DEF OneConnection
  <2>2. t \in Thread
    BY DEF Thread
  <2> QED BY <1>0, <1>1, <2>1, <2>2, CallsTab, ConnectTab DEF Call
<1>8. CASE Environment \/ UNCHANGED vars
  <2>1. UNCHANGED <<host, ks, lastKS, enabled, pc, ret, arg, ref, cancelled>>
    BY <1>8 DEF Environment, NetworkLost, NetworkBack, TriggerReconnect, CertificateRejected,
       CertificateExpires, vars, slots, memory, control, history
  <2> QED BY <1>1, <2>1 DEF TabSteady, Redials, Dials
<1> QED BY <1>3, <1>4, <1>5, <1>6, <1>7, <1>8 DEF Next, Run

-----------------------------------------------------------------------------
(* What a host with one connection is left with. *)

Hosted == Fields /\ Uncancelled /\ Net /\ Sys /\ Tab

LEMMA HostedInvariant ==
  OneConnection /\ Spec => [](TInv /\ Roles /\ Kept /\ SysctlRecoverable /\ Hosted)
<1> SUFFICES ASSUME OneConnection
             PROVE  Spec => [](TInv /\ Roles /\ Kept /\ SysctlRecoverable /\ Hosted)
  OBVIOUS
<1>1. Init => Hosted
  BY InitFields, InitUncancelled, InitNet, InitSys, InitTab DEF Hosted
<1>2. TInv /\ Roles /\ Kept /\ Hosted /\ [Next]_vars => Hosted'
  BY NextFields, NextUncancelled, NextNet, NextSys, NextTab DEF Hosted
<1> QED BY <1>1, <1>2, TypeInvariant, KeptInvariant, PTL DEF Spec

\* A connection that failed, or that was disconnected outside a reconnect
\* attempt, gives the device, the rules, the route, the resolver and the
\* sysctls back, whatever step failed (teardown, connection.go).
THEOREM HostGivenBack == OneConnection /\ Spec => []TeardownRestoresHost
<1> SUFFICES ASSUME OneConnection PROVE Spec => []TeardownRestoresHost
  OBVIOUS
<1>1. TInv /\ Roles /\ Kept /\ SysctlRecoverable /\ Hosted => TeardownRestoresHost
  <2> SUFFICES ASSUME TInv, Roles, Kept, SysctlRecoverable, Hosted,
                      NEW c \in Conn, ref[c] = "closed", Quiet(c), ~raced[c]
               PROVE  Restored(host)
    BY DEF TeardownRestoresHost
  <2>0. host \in HostState /\ LocalsOK /\ FieldsOK
    BY DEF TInv, TypeOK
  <2>1. \A t \in Thread : pc[t] = "idle"
    BY DEF Quiet, TInv, TargetOK, OneConnection
  <2>2. ~Leaving(c)
    BY <2>1 DEF Leaving, Disconnects, TearingDown, Thread
  <2>3. Clear(c)
    BY <2>2 DEF Hosted, Fields, ClosedClears
  <2>4. NetOK(c)
    BY DEF Hosted, Net
  <2>5. host.arp # "hard"
    <3>1. \A d \in Conn : hard[d] # "own"
      BY <2>3 DEF Clear, OneConnection
    <3>2. \A t \in Thread : snap[t].saved # "own"
      BY <2>1 DEF Kept, SavedInTeardown, TearingDown
    <3> QED BY <3>1, <3>2 DEF SysctlRecoverable
  <2> QED BY <2>0, <2>3, <2>4, <2>5 DEF Clear, NetOK, Restored, HostState
<1> QED BY <1>1, HostedInvariant, PTL

\* It leaves no kill switch table either, unless Enable failed after the
\* rules were loaded (KillSwitch.Enable, killswitch.go).
THEOREM TableGivenBack == OneConnection /\ Spec => []TeardownDropsTable
<1> SUFFICES ASSUME OneConnection PROVE Spec => []TeardownDropsTable
  OBVIOUS
<1>1. TInv /\ Roles /\ Kept /\ Hosted => TeardownDropsTable
  <2> SUFFICES ASSUME TInv, Hosted, NEW c \in Conn, ref[c] = "closed", Quiet(c), ~raced[c],
                      enabled[c] # "seedFailed"
               PROVE  host.table # c
    BY DEF TeardownDropsTable
  <2>1. \A t \in Thread : pc[t] = "idle"
    BY DEF Quiet, TInv, TargetOK, OneConnection
  <2>2. ~Leaving(c)
    BY <2>1 DEF Leaving, Disconnects, TearingDown, Thread
  <2>3. Clear(c)
    BY <2>2 DEF Hosted, Fields, ClosedClears
  <2> QED BY <2>1, <2>3 DEF Hosted, Tab, TabOK, Clear
<1> QED BY <1>1, HostedInvariant, PTL

\* A kill switch that a reconnect found in place stays loaded through the
\* stale session's teardown, failed attempts and waits, but for Enable's own
\* window and for the time between an Enable that deleted the table without
\* loading a new one and the next one that succeeds (teardown(keepKillSwitch),
\* reconnectAttempt).
THEOREM ShieldHeld == OneConnection /\ Spec => []ShieldHeldWhileRecovering
<1> SUFFICES ASSUME OneConnection PROVE Spec => []ShieldHeldWhileRecovering
  OBVIOUS
<1>1. Hosted => ShieldHeldWhileRecovering
  BY DEF Hosted, Tab, TabOK, ShieldHeldWhileRecovering, Recovering, Redials, Watching
<1> QED BY <1>1, HostedInvariant, PTL

\* With a kill switch the host stays hardened through a whole reconnect, in
\* Enable's window too (teardown's comment on sysctl, connection.go).
THEOREM HardeningHeld == OneConnection /\ Spec => []HardenedWhileRecovering
<1> SUFFICES ASSUME OneConnection PROVE Spec => []HardenedWhileRecovering
  OBVIOUS
<1>1. TInv /\ Roles /\ Kept /\ Hosted => HardenedWhileRecovering
  <2> SUFFICES ASSUME TInv, Roles, Kept, Hosted, NEW c \in Conn,
                      MidReconnect(c), arg[c].has, ~cancelled[c], ~raced[c]
               PROVE  host.arp = "hard"
    BY DEF HardenedWhileRecovering
  <2>1. SysOK(c)
    BY DEF Hosted, Sys
  <2>2. hard[c] # "nil"
    <3>1. CASE pc[c] = "reconnect"
      <4>1. ref[c] = "live"
        BY <3>1 DEF Hosted, Fields, ClosedClears, Roles, OneDialer, TInv, TypeOK, FieldsOK
      <4> QED BY <2>1, <3>1, <4>1 DEF SysOK, Watching
    <3>2. CASE pc[c] # "reconnect"
      BY <2>1, <3>2 DEF SysOK, Redials, MidReconnect, Watching
    <3> QED BY <3>1, <3>2
  <2> QED BY <2>1, <2>2 DEF SysOK
<1> QED BY <1>1, HostedInvariant, PTL

\* On a settled connection the table is loaded exactly when the last kill
\* switch setting that was acknowledged asks for it, as long as the setting was
\* not changed while a reconnect was under way (SetKillSwitch, doConnect).
THEOREM SwitchHonoured == OneConnection /\ Spec => []KillSwitchHonoured
<1> SUFFICES ASSUME OneConnection PROVE Spec => []KillSwitchHonoured
  OBVIOUS
<1>1. TInv /\ Roles /\ Kept /\ Hosted => KillSwitchHonoured
  <2> SUFFICES ASSUME TInv, Roles, Hosted, NEW c \in Conn, ref[c] = "live", pc[c] = "watch",
                      ~raced[c], enabled[c] # "seedFailed"
               PROVE  lastKS[c] <=> host.table = c
    BY DEF KillSwitchHonoured
  <2>1. TabOK(c)
    BY DEF Hosted, Tab
  <2>2. \A t \in Thread : pc[t] # "seed"
    <3>1. ASSUME NEW t \in Thread, pc[t] = "seed" PROVE FALSE
      <4>1. pc[t] \in Dialing
        BY <3>1 DEF Dialing
      <4>2. CASE t \in Conn
        BY <3>1, <4>2 DEF OneConnection
      <4>3. CASE t \in Caller
        BY <4>1, <4>3, Solo DEF Hosted
      <4> QED BY <4>2, <4>3 DEF Thread
    <3> QED BY <3>1
  <2> QED BY <2>1, <2>2 DEF TabOK, Watching
<1> QED BY <1>1, HostedInvariant, PTL

=============================================================================
