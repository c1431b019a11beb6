----------------------------- MODULE Connection -----------------------------
(***************************************************************************)
(* vpn.Connection (internal/vpn/connection.go): connect, monitor,          *)
(* reconnect, live kill switch toggle and disconnect, as the goroutines    *)
(* that execute them, over the host state of HostNet.                      *)
(*                                                                         *)
(* A thread is either a caller (an IPC handler or the daemon's connect     *)
(* goroutine) or the monitor goroutine of a connection, which is named by  *)
(* the connection itself: Connect starts it and doReconnect, on success,   *)
(* replaces it by a new one just before it ends.                           *)
(*                                                                         *)
(* One step is one host operation together with the update of the c.*      *)
(* field guarded by c.mu that follows it.  Between two steps of a thread   *)
(* any other thread may run: connection.go holds c.mu only around single   *)
(* field accesses, never across an operation.                              *)
(***************************************************************************)
EXTENDS HostNet

CONSTANTS Caller,         \* goroutines that call into a Connection
          NoConn,
          Reachable,      \* tunnel protocols the network lets through
          AutoReconnect,  \* cfg.Connection.Reconnect
          MaxFaults       \* bound on the faults of one behaviour

Proto  == {"wireguard", "stealth"}
Thread == Conn \cup Caller

ASSUME ConnectionAssumption ==
    /\ Conn \cap Caller = {}
    /\ NoConn \notin Conn \cup {NoTable}
    /\ Reachable \subseteq Proto
    /\ AutoReconnect \in BOOLEAN
    /\ MaxFaults \in Nat

VARIABLES
    host,
    \* Connection fields
    state,                  \* info.State
    ks, routes, tun, hard,  \* c.ks, c.routes, c.wg or c.stealthMgr, c.sysctl
    lastKS, lastProto,      \* parameters kept for reconnection
    cred,                   \* c.lastKeyPair with c.lastCert
    cancelFn, cancelled,    \* c.reconnectCancel, and the monitor's context
    wake,                   \* a token is in c.wakeCh
    \* goroutines
    pc, ret, arg, snap,
    \* the holder's reference to the connection, and the environment
    ref, net, faults,
    \* history
    raced,                  \* a call took effect in the middle of a reconnect
    enabled                 \* outcome of the last KillSwitch.Enable

slots   == <<ks, routes, tun, hard>>
memory  == <<lastKS, lastProto, cred>>
control == <<cancelFn, cancelled, wake>>
history == <<raced, enabled>>
vars    == <<host, state, slots, memory, control, pc, ret, arg, snap, ref,
             net, faults, history>>

-----------------------------------------------------------------------------
State == {"Disconnected", "Connecting", "Connected", "Disconnecting",
          "Reconnecting", "Error"}

Waiting    == {"backoff", "floor", "limited"}
Dialing    == {"shield", "apply", "seed", "harden", "tunnel", "routes",
               "agent", "dns", "persist", "connected", "remonitor"}
TearingDown == {"teardown", "tdShield", "tdDNS", "tdRoutes", "tdTunnel",
                "tdSysctl"}
PC == {"idle", "watch", "wake", "reconnect", "loop", "waitnet", "attempt",
       "fallback", "toggle", "disconnect"} \cup Waiting \cup Dialing \cup TearingDown

Ret == {"none", "connect", "attempt", "connectFailed", "attemptFailed",
        "reconnect", "cancelled", "disconnect"}

\* Locals of a goroutine: its connection, doConnect's parameters, and the
\* existingKS / hasKillSwitch its caller read before the call.
Arg == [ conn : Conn \cup {NoConn}, ks : BOOLEAN, proto : Proto,
         cred : {"good", "bad"}, reused : BOOLEAN, has : BOOLEAN, link : Link ]
NoArg == [ conn |-> NoConn, ks |-> FALSE, proto |-> "wireguard",
           cred |-> "good", reused |-> FALSE, has |-> FALSE, link |-> NoLink ]

\* Locals of teardown: its parameter and what it read under c.mu.
Snap == [ keep : BOOLEAN, ks : BOOLEAN, routes : BOOLEAN, tun : Link,
          saved : Hardener, err : BOOLEAN ]
NoSnap == [ keep |-> FALSE, ks |-> FALSE, routes |-> FALSE, tun |-> NoLink,
            saved |-> "nil", err |-> FALSE ]

Init ==
    /\ host \in {CleanHost, [CleanHost EXCEPT !.table = BootTable, !.flag = TRUE]}
    /\ state = [c \in Conn |-> "Disconnected"]
    /\ ks = [c \in Conn |-> FALSE]
    /\ routes = [c \in Conn |-> FALSE]
    /\ tun = [c \in Conn |-> NoLink]
    /\ hard = [c \in Conn |-> "nil"]
    /\ lastKS = [c \in Conn |-> FALSE]
    /\ lastProto = [c \in Conn |-> "none"]
    /\ cred = [c \in Conn |-> "none"]
    /\ cancelFn = [c \in Conn |-> FALSE]
    /\ cancelled = [c \in Conn |-> FALSE]
    /\ wake = [c \in Conn |-> FALSE]
    /\ pc = [t \in Thread |-> "idle"]
    /\ ret = [t \in Thread |-> "none"]
    /\ arg = [t \in Thread |-> NoArg]
    /\ snap = [t \in Thread |-> NoSnap]
    /\ ref = [c \in Conn |-> "new"]
    /\ raced = [c \in Conn |-> FALSE]
    /\ enabled = [c \in Conn |-> "none"]
    /\ net = TRUE
    /\ faults = MaxFaults

-----------------------------------------------------------------------------
(* Control helpers. *)

Target(t) == arg[t].conn

Goto(t, label) == pc' = [pc EXCEPT ![t] = label]

Fault == faults > 0 /\ faults' = faults - 1

\* A goroutine returns: its locals are gone.
Finish(t) ==
    /\ Goto(t, "idle")
    /\ ret' = [ret EXCEPT ![t] = "none"]
    /\ arg' = [arg EXCEPT ![t] = NoArg]
    /\ snap' = [snap EXCEPT ![t] = NoSnap]

CallTeardown(t, keep, next) ==
    /\ Goto(t, "teardown")
    /\ ret' = [ret EXCEPT ![t] = next]
    /\ arg' = [arg EXCEPT ![t].link = NoLink]
    /\ snap' = [snap EXCEPT ![t].keep = keep]

\* doConnect returns an error; both callers tear down, preserving a kill
\* switch that existed before the call.
ConnectError(t) ==
    CallTeardown(t, arg[t].has,
                 IF ret[t] = "connect" THEN "connectFailed" ELSE "attemptFailed")

\* Advance within doConnect, or fail and leave the host as the step found it.
Advance(t, label) == Goto(t, label) /\ UNCHANGED <<ret, arg, snap, faults>>
StepFails(t)      == Fault /\ ConnectError(t) /\ UNCHANGED host

\* The peer answers: its server admits the credential, the tunnel carries
\* traffic and no kill switch table for another server is in the way.
Passes(c, i, p, cr) ==
    /\ net
    /\ p \in Reachable
    /\ cr = "good"
    /\ i # NoLink /\ host.link = i /\ host.route = i
    /\ host.table \in {NoTable, c}

\* Stats: the last handshake of the live tunnel is recent.  A certificate that
\* is merely too old to be reused still carries the tunnel it built.
Healthy(c) ==
    Passes(c, tun[c], arg[c].proto, IF cred[c] = "bad" THEN "bad" ELSE "good")
-----------------------------------------------------------------------------
(* Connect, called once on a fresh object by the daemon's connect goroutine. *)

\* Connect up to doConnect: Connecting, the parameters kept for reconnection,
\* and connectWithProtocol's existingKS.  "smart" dials WireGuard first.
Connect(t, c) ==
    /\ t \in Caller /\ pc[t] = "idle"
    /\ ref[c] = "new"
    /\ ref' = [ref EXCEPT ![c] = "dialing"]
    /\ state' = [state EXCEPT ![c] = "Connecting"]
    /\ \E p \in Proto \cup {"smart"}, k \in BOOLEAN :
          /\ lastProto' = [lastProto EXCEPT ![c] = p]
          /\ lastKS' = [lastKS EXCEPT ![c] = k]
          /\ arg' = [arg EXCEPT ![t] =
                 [NoArg EXCEPT !.conn = c, !.ks = k, !.has = ks[c],
                               !.proto = IF p = "smart" THEN "wireguard" ELSE p]]
    /\ Goto(t, "shield")
    /\ ret' = [ret EXCEPT ![t] = "connect"]
    /\ UNCHANGED <<host, slots, cred, control, snap, net, faults, history>>

\* connectSmart after a failed WireGuard dial: a new key and certificate,
\* then one more dial, over stealth.
SmartFallback(t) ==
    /\ pc[t] = "fallback"
    /\ \/ /\ state' = [state EXCEPT ![Target(t)] = "Connecting"]
          /\ arg' = [arg EXCEPT ![t].proto = "stealth", ![t].has = ks[Target(t)],
                                ![t].cred = "good"]
          /\ Goto(t, "shield")
          /\ ret' = [ret EXCEPT ![t] = "connect"]
          /\ UNCHANGED <<snap, ref, faults>>
       \/ /\ Fault
          /\ Finish(t)
          /\ ref' = [ref EXCEPT ![Target(t)] = "closed"]
          /\ UNCHANGED state
    /\ UNCHANGED <<host, slots, memory, control, net, history>>

-----------------------------------------------------------------------------
(* doConnect, step by step. *)

\* Step 0 begins by deleting whatever table is loaded, with the kill switch
\* requested (Enable calls Disable) or not.  It is not reached when no
\* physical server is online or nft is missing.
ShieldDown(t) ==
    /\ pc[t] = "shield"
    /\ \/ /\ host' = ShieldOff(host)
          /\ Advance(t, IF arg[t].ks THEN "apply" ELSE "harden")
       \/ StepFails(t)
    /\ UNCHANGED <<state, slots, memory, control, ref, net, history>>

ApplyRules(t) ==
    /\ pc[t] = "apply"
    /\ \/ /\ host' = ShieldOn(host, Target(t))
          /\ Advance(t, "seed")
          /\ UNCHANGED enabled
       \/ /\ StepFails(t)
          /\ enabled' = [enabled EXCEPT ![Target(t)] = "applyFailed"]
    /\ UNCHANGED <<state, slots, memory, control, ref, net, raced>>

\* The API addresses go in one by one; on success the boot flag is written
\* (best effort) and c.ks is set.  On failure the loaded table stays.
SeedAPIs(t) ==
    /\ pc[t] = "seed"
    /\ \/ /\ host.table # NoTable
          /\ ks' = [ks EXCEPT ![Target(t)] = TRUE]
          /\ enabled' = [enabled EXCEPT ![Target(t)] = "ok"]
          /\ \/ host' = WriteFlag(host) /\ Advance(t, "harden")
             \/ /\ Fault /\ Goto(t, "harden")
                /\ UNCHANGED <<host, ret, arg, snap>>
       \/ /\ StepFails(t)
          /\ enabled' = [enabled EXCEPT ![Target(t)] = "seedFailed"]
          /\ UNCHANGED ks
       \/ /\ host.table = NoTable      \* deleted by another goroutine
          /\ ConnectError(t)
          /\ enabled' = [enabled EXCEPT ![Target(t)] = "applyFailed"]
          /\ UNCHANGED <<host, ks, faults>>
    /\ UNCHANGED <<state, routes, tun, hard, memory, control, ref, net, raced>>

\* Step 0.5, under c.mu: one hardener per connection, reused while it lasts.
NeedsHardener_Mutant(c) == TRUE
NeedsHardener(c) == hard[c] = "nil"

HardenHost(t) ==
    /\ pc[t] = "harden"
    /\ IF NeedsHardener(Target(t))
       THEN /\ hard' = [hard EXCEPT ![Target(t)] = ApplySaves(host)]
            /\ host' = Harden(host)
       ELSE UNCHANGED <<hard, host>>
    /\ Advance(t, "tunnel")
    /\ UNCHANGED <<state, ks, routes, tun, memory, control, ref, net, history>>

\* The kernel does not give out again an index some goroutine still holds.
FreshIndex(i) ==
    LET held == {host.link} \cup {tun[c] : c \in Conn}
                \cup {snap[t].tun : t \in Thread} \cup {arg[t].link : t \in Thread}
    IN  i \notin held /\ \A j \in IfIndex \ held : i <= j

\* Step 1.  WireGuard deletes a stale pvpn0 first; the stealth TUN cannot be
\* created while the name is taken.
BringUpTunnel(t) ==
    LET c    == Target(t)
        base == IF arg[t].proto = "wireguard" THEN LinkDel(host) ELSE host
    IN  /\ pc[t] = "tunnel"
        /\ \/ /\ base.link = NoLink
              /\ \E i \in IfIndex :
                    /\ FreshIndex(i)
                    /\ host' = LinkAdd(base, i)
                    /\ tun' = [tun EXCEPT ![c] = i]
                    /\ arg' = [arg EXCEPT ![t].link = i]
              /\ Goto(t, "routes")
              /\ UNCHANGED <<ret, snap, faults>>
           \/ /\ \/ base.link # NoLink /\ UNCHANGED faults
                 \/ base.link = NoLink /\ Fault
              /\ host' = base
              /\ ConnectError(t)
              /\ UNCHANGED tun
        /\ UNCHANGED <<state, ks, routes, hard, memory, control, ref, net, history>>

\* Step 2.  RouteManager.Up clears the rules and the table, then fills them;
\* a fatal failure, such as a device that is gone, undoes both.
SetUpRoutes(t) ==
    LET c == Target(t)
    IN  /\ pc[t] = "routes"
        /\ \/ /\ host.link = arg[t].link
              /\ host' = RoutesOn(host, arg[t].link)
              /\ routes' = [routes EXCEPT ![c] = TRUE]
              /\ Advance(t, "agent")
           \/ /\ IF host.link = arg[t].link THEN Fault ELSE UNCHANGED faults
              /\ host' = RoutesOff(host)
              /\ ConnectError(t)
              /\ UNCHANGED routes
        /\ UNCHANGED <<state, ks, tun, hard, memory, control, ref, net, history>>

\* Step 3: the Local Agent connects through the tunnel, or times out.
WaitLocalAgent(t) ==
    LET a == arg[t]
    IN  /\ pc[t] = "agent"
        /\ IF Passes(a.conn, a.link, a.proto, a.cred)
           THEN \/ /\ Goto(t, "dns")
                   /\ arg' = [arg EXCEPT ![t].link = NoLink]   \* last use
                   /\ UNCHANGED <<ret, snap, faults>>
                \/ Fault /\ ConnectError(t)
           ELSE ConnectError(t) /\ UNCHANGED faults
        /\ UNCHANGED <<host, state, slots, memory, control, ref, net, history>>

\* Step 4.
TakeOverDNS(t) ==
    /\ pc[t] = "dns"
    /\ \/ host' = DNSOn(host) /\ Advance(t, "persist")
       \/ StepFails(t)
    /\ UNCHANGED <<state, slots, memory, control, ref, net, history>>

\* Step 5: with a kill switch held, rewrite the boot state if the API
\* addresses resolve.
PersistBootState(t) ==
    /\ pc[t] = "persist"
    /\ \/ arg[t].ks /\ ks[Target(t)] /\ host' = WriteFlag(host)
       \/ UNCHANGED host
    /\ Advance(t, "connected")
    /\ UNCHANGED <<state, slots, memory, control, ref, net, history>>

\* doConnect succeeds.  It has not looked at a context since the dial began.
Connected(t) ==
    /\ pc[t] = "connected"
    /\ state' = [state EXCEPT ![Target(t)] = "Connected"]
    /\ cred' = [cred EXCEPT ![Target(t)] = arg[t].cred]
    /\ Advance(t, "remonitor")
    /\ UNCHANGED <<host, slots, lastKS, lastProto, control, ref, net, history>>

\* monitorConnection, the last act of Connect and of doReconnect: a new
\* context and a new monitor.  Connect's caller then publishes the object.
InstallsCancel_Mutant(t) == ret[t] = "connect"
InstallsCancel(t) == TRUE

StartMonitor(t) ==
    LET c == Target(t)
    IN  /\ pc[t] = "remonitor"
        /\ cancelFn' = [cancelFn EXCEPT ![c] = @ \/ InstallsCancel(t)]
        /\ cancelled' = [cancelled EXCEPT ![c] = ~AutoReconnect]
        /\ pc' = [pc EXCEPT ![t] = "idle",
                            ![c] = IF AutoReconnect THEN "watch" ELSE "idle"]
        /\ ret' = [ret EXCEPT ![t] = "none"]
        /\ arg' = [arg EXCEPT ![t] = NoArg,
                              ![c] = [NoArg EXCEPT !.conn = c, !.proto = arg[t].proto]]
        /\ ref' = [ref EXCEPT ![c] = IF @ = "dialing" THEN "live" ELSE @]
        /\ UNCHANGED <<host, state, slots, memory, wake, snap, net, faults, history>>
-----------------------------------------------------------------------------
(* teardown: read the fields under c.mu, then undo in reverse order. *)

\* Only a full teardown takes the hardener, disables the kill switch.
TakesHardener_Mutant(t) == TRUE
TakesHardener(t) == ~snap[t].keep
DisablesShield_Mutant(t) == snap[t].ks
DisablesShield(t) == snap[t].ks /\ ~snap[t].keep

\* ifIndex, read with the other fields, says whether DNS was ever touched.
RevertsDNS_Mutant(t) == snap[t].tun # NoLink /\ ~snap[t].keep
RevertsDNS(t) == snap[t].tun # NoLink

TearDown(t) ==
    LET c == Target(t)
    IN  /\ pc[t] = "teardown"
        /\ snap' = [snap EXCEPT ![t] =
               [ keep |-> snap[t].keep, ks |-> ks[c], routes |-> routes[c],
                 tun |-> tun[c], saved |-> IF TakesHardener(t) THEN hard[c] ELSE "nil",
                 err |-> FALSE ]]
        /\ hard' = IF TakesHardener(t) THEN [hard EXCEPT ![c] = "nil"] ELSE hard
        /\ Goto(t, "tdShield")
        /\ UNCHANGED <<host, state, ks, routes, tun, memory, control, ret, arg,
                       ref, net, faults, history>>

DropShield(t) ==
    /\ pc[t] = "tdShield"
    /\ IF DisablesShield(t)
       THEN /\ host' = ShieldOff(host)
            /\ ks' = [ks EXCEPT ![Target(t)] = FALSE]
       ELSE UNCHANGED <<host, ks>>
    /\ Advance(t, "tdDNS")
    /\ UNCHANGED <<state, routes, tun, hard, memory, control, ref, net, history>>

GiveBackDNS(t) ==
    /\ pc[t] = "tdDNS"
    /\ host' = IF RevertsDNS(t) THEN DNSOff(host) ELSE host
    /\ Advance(t, "tdRoutes")
    /\ UNCHANGED <<state, slots, memory, control, ref, net, history>>

\* Undoing what another goroutine has already undone may report an error,
\* which is remembered and does not stop the teardown.
Undone(t, label, stale) ==
    /\ Goto(t, label)
    /\ \/ UNCHANGED snap
       \/ stale /\ snap' = [snap EXCEPT ![t].err = TRUE]
    /\ UNCHANGED <<ret, arg, faults>>

DropRoutes(t) ==
    /\ pc[t] = "tdRoutes"
    /\ IF snap[t].routes
       THEN /\ host' = RoutesOff(host)
            /\ routes' = [routes EXCEPT ![Target(t)] = FALSE]
       ELSE UNCHANGED <<host, routes>>
    /\ Undone(t, "tdTunnel", snap[t].routes /\ ~host.rules)
    /\ UNCHANGED <<state, ks, tun, hard, memory, control, ref, net, history>>

DropTunnel(t) ==
    /\ pc[t] = "tdTunnel"
    /\ IF snap[t].tun # NoLink
       THEN /\ host' = LinkDrop(host, snap[t].tun)
            /\ tun' = [tun EXCEPT ![Target(t)] = NoLink]
       ELSE UNCHANGED <<host, tun>>
    /\ Undone(t, "tdSysctl", snap[t].tun \notin {NoLink, host.link})
    /\ UNCHANGED <<state, ks, routes, hard, memory, control, ref, net, history>>

\* The host's sysctls go back last; then teardown returns to its caller.
ReturnToConnect(t) ==
    LET c == Target(t)
    IN  /\ ret[t] = "connectFailed"
        /\ state' = [state EXCEPT ![c] = "Disconnected"]
        /\ IF lastProto[c] = "smart" /\ arg[t].proto = "wireguard"
           THEN /\ Goto(t, "fallback")
                /\ snap' = [snap EXCEPT ![t] = NoSnap]
                /\ UNCHANGED <<ret, arg, ref>>
           ELSE Finish(t) /\ ref' = [ref EXCEPT ![c] = "closed"]
        /\ UNCHANGED cred

\* invalidateCredentials, when the attempt had reused them.
Forgets_Mutant(t) == FALSE
Forgets(t) == arg[t].reused

ReturnToReconnect(t) ==
    LET c == Target(t)
    IN  /\ \/ /\ ret[t] = "reconnect"
              /\ Goto(t, "loop")
              /\ UNCHANGED cred
           \/ /\ ret[t] = "attemptFailed"
              /\ Goto(t, "backoff")
              /\ cred' = IF Forgets(t) THEN [cred EXCEPT ![c] = "none"] ELSE cred
        /\ ret' = [ret EXCEPT ![t] = "none"]
        /\ snap' = [snap EXCEPT ![t] = NoSnap]
        /\ UNCHANGED <<state, arg, ref>>

ReturnToEnd(t) ==
    /\ ret[t] \in {"cancelled", "disconnect"}
    /\ state' = [state EXCEPT ![Target(t)] =
           IF ret[t] = "disconnect" /\ snap[t].err THEN "Error" ELSE "Disconnected"]
    /\ Finish(t)
    /\ UNCHANGED <<cred, ref>>

RelaxHost(t) ==
    /\ pc[t] = "tdSysctl"
    /\ host' = Relax(host, snap[t].saved)
    /\ ReturnToConnect(t) \/ ReturnToReconnect(t) \/ ReturnToEnd(t)
    /\ UNCHANGED <<slots, lastKS, lastProto, control, net, faults, history>>

-----------------------------------------------------------------------------
(* The monitor goroutine of c, and doReconnect. *)

\* monitorConnection's select.
MonitorStops(c) ==
    /\ pc[c] = "watch"
    /\ \/ cancelled[c] /\ UNCHANGED wake
       \/ state[c] # "Connected" /\ UNCHANGED wake           \* at a tick
       \/ state[c] # "Connected" /\ wake[c] /\ wake' = [wake EXCEPT ![c] = FALSE]
    /\ Finish(c)
    /\ UNCHANGED <<host, state, slots, memory, cancelFn, cancelled, ref, net,
                   faults, history>>

MonitorWakes(c) ==
    /\ pc[c] = "watch"
    /\ wake[c] /\ state[c] = "Connected"
    /\ wake' = [wake EXCEPT ![c] = FALSE]
    /\ Goto(c, "wake")
    /\ UNCHANGED <<host, state, slots, memory, cancelFn, cancelled, ret, arg,
                   snap, ref, net, faults, history>>

GoesStale(c) ==
    /\ state' = [state EXCEPT ![c] = "Reconnecting"]
    /\ Goto(c, "reconnect")

\* Three ticks without a recent handshake.
TunnelStale(c) ==
    /\ pc[c] = "watch"
    /\ state[c] = "Connected" /\ ~Healthy(c)
    /\ GoesStale(c)
    /\ UNCHANGED <<host, slots, memory, control, ret, arg, snap, ref, net,
                   faults, history>>

\* After a wake: waitForNetwork returns false on a timeout and, alike, on a
\* cancelled context; otherwise the handshake decides.
CheckAfterWake(c) ==
    /\ pc[c] = "wake"
    /\ \/ (~net \/ cancelled[c] \/ ~Healthy(c)) /\ GoesStale(c)
       \/ Healthy(c) /\ Goto(c, "watch") /\ UNCHANGED state
    /\ UNCHANGED <<host, slots, memory, control, ret, arg, snap, ref, net,
                   faults, history>>

\* doReconnect: the parameters, then hasKillSwitch, then the stale session is
\* torn down.  Anything but "stealth" dials WireGuard, "smart" included.
BeginReconnect(c) ==
    /\ pc[c] = "reconnect"
    /\ Goto(c, "teardown")
    /\ ret' = [ret EXCEPT ![c] = "reconnect"]
    /\ arg' = [arg EXCEPT ![c] =
           [NoArg EXCEPT !.conn = c, !.ks = lastKS[c], !.has = ks[c],
                         !.proto = IF lastProto[c] = "stealth"
                                   THEN "stealth" ELSE "wireguard"]]
    /\ snap' = [snap EXCEPT ![c].keep = ks[c]]
    /\ UNCHANGED <<host, state, slots, memory, control, ref, net, faults, history>>

\* ctx.Done, seen at the head of the loop and in each wait of its tail.
ReconnectCancelled(c) ==
    /\ pc[c] \in {"loop"} \cup Waiting
    /\ cancelled[c]
    /\ IF arg[c].has
       THEN CallTeardown(c, FALSE, "cancelled") /\ UNCHANGED state
       ELSE Finish(c) /\ state' = [state EXCEPT ![c] = "Disconnected"]
    /\ UNCHANGED <<host, slots, memory, control, ref, net, faults, history>>

LoopHead(c) ==
    /\ pc[c] = "loop"
    /\ ~cancelled[c]
    /\ Goto(c, "waitnet")
    /\ UNCHANGED <<host, state, slots, memory, control, ret, arg, snap, ref, net,
                   faults, history>>

WaitNetwork(c) ==
    /\ pc[c] = "waitnet"
    /\ \/ net /\ Goto(c, "attempt")
       \/ cancelled[c] /\ Goto(c, "loop")
    /\ UNCHANGED <<host, state, slots, memory, control, ret, arg, snap, ref, net,
                   faults, history>>

\* reconnectAttempt: stored credentials while they last, else a new
\* certificate, which the API may refuse or rate-limit.
Attempt(c) ==
    /\ pc[c] = "attempt"
    /\ \/ /\ cred[c] # "none"
          /\ arg' = [arg EXCEPT ![c].cred = cred[c], ![c].reused = TRUE]
          /\ Goto(c, "shield")
          /\ ret' = [ret EXCEPT ![c] = "attempt"]
          /\ UNCHANGED faults
       \/ /\ cred[c] = "none"
          /\ arg' = [arg EXCEPT ![c].cred = "good", ![c].reused = FALSE]
          /\ Goto(c, "shield")
          /\ ret' = [ret EXCEPT ![c] = "attempt"]
          /\ UNCHANGED faults
       \/ /\ cred[c] = "none"
          /\ \/ Fault /\ \E w \in {"backoff", "limited"} : Goto(c, w)
             \/ cancelled[c] /\ Goto(c, "backoff") /\ UNCHANGED faults
          /\ UNCHANGED <<arg, ret>>
    /\ UNCHANGED <<host, state, slots, memory, control, snap, ref, net, history>>

\* A wake cuts the backoff short, down to the floor; a rate limit ignores it.
WakeFromBackoff(c) ==
    /\ pc[c] = "backoff"
    /\ wake[c]
    /\ wake' = [wake EXCEPT ![c] = FALSE]
    /\ Goto(c, "floor")
    /\ UNCHANGED <<host, state, slots, memory, cancelFn, cancelled, ret, arg,
                   snap, ref, net, faults, history>>

WaitExpires(c) ==
    /\ pc[c] \in Waiting
    /\ Goto(c, "loop")
    /\ UNCHANGED <<host, state, slots, memory, control, ret, arg, snap, ref, net,
                   faults, history>>
-----------------------------------------------------------------------------
(* Calls on a published connection. *)

\* The monitor is past its last look at the context, or tearing down: what a
\* call does now, the reconnect may undo or overlook.
MidReconnect(c) == pc[c] \notin {"idle", "watch", "wake"}
MidAttempt(c)   == pc[c] \in {"waitnet", "attempt"} \cup Dialing

\* The monitor's context, after Disconnect called the cancel function.
Cancel_Mutant(c) == FALSE
Cancel(c) == cancelFn[c]

\* Disconnect: cancel under c.mu, then Disconnecting, then a full teardown.  The
\* holder has dropped its reference, so each connection sees one Disconnect.
Disconnect(t, c) ==
    /\ t \in Caller /\ pc[t] = "idle"
    /\ ref[c] = "live"
    /\ ref' = [ref EXCEPT ![c] = "closed"]
    /\ cancelled' = [cancelled EXCEPT ![c] = @ \/ Cancel(c)]
    /\ cancelFn' = [cancelFn EXCEPT ![c] = FALSE]
    /\ raced' = [raced EXCEPT ![c] = @ \/ MidAttempt(c)]
    /\ arg' = [arg EXCEPT ![t] = [NoArg EXCEPT !.conn = c]]
    /\ Goto(t, "disconnect")
    /\ UNCHANGED <<host, state, slots, memory, wake, ret, snap, net, faults, enabled>>

Disconnecting_Mutant(t) ==
    /\ pc[t] = "disconnect"
    /\ state' = [state EXCEPT ![Target(t)] = "Disconnecting"]
    /\ CallTeardown(t, TRUE, "disconnect")
    /\ UNCHANGED <<host, slots, memory, control, ref, net, faults, history>>

Disconnecting(t) ==
    /\ pc[t] = "disconnect"
    /\ state' = [state EXCEPT ![Target(t)] = "Disconnecting"]
    /\ CallTeardown(t, FALSE, "disconnect")
    /\ UNCHANGED <<host, slots, memory, control, ref, net, faults, history>>

\* cmdSettings looks at the state and then calls SetKillSwitch, holding no
\* lock in between.
CheckConnected(t, c) ==
    /\ t \in Caller /\ pc[t] = "idle"
    /\ ref[c] = "live"
    /\ state[c] = "Connected"
    /\ \E k \in BOOLEAN :
          arg' = [arg EXCEPT ![t] = [NoArg EXCEPT !.conn = c, !.ks = k]]
    /\ Goto(t, "toggle")
    /\ UNCHANGED <<host, state, slots, memory, control, ret, snap, ref, net,
                   faults, history>>

\* SetKillSwitch, under c.mu throughout.
SwitchOn(c) ==
    \/ /\ \/ host' = WriteFlag(ShieldOn(ShieldOff(host), c)) /\ UNCHANGED faults
          \/ host' = ShieldOn(ShieldOff(host), c) /\ Fault
       /\ ks' = [ks EXCEPT ![c] = TRUE]
       /\ lastKS' = [lastKS EXCEPT ![c] = TRUE]
       /\ enabled' = [enabled EXCEPT ![c] = "ok"]
    \/ /\ Fault
       /\ \/ /\ host' = ShieldOff(host)
             /\ enabled' = [enabled EXCEPT ![c] = "applyFailed"]
          \/ /\ host' = ShieldOn(ShieldOff(host), c)
             /\ enabled' = [enabled EXCEPT ![c] = "seedFailed"]
       /\ UNCHANGED <<ks, lastKS>>

SwitchOff_Mutant(c) ==
    /\ host' = ShieldOff(host)
    /\ ks' = [ks EXCEPT ![c] = FALSE]
    /\ UNCHANGED <<lastKS, faults, enabled>>

SwitchOff(c) ==
    /\ host' = ShieldOff(host)
    /\ ks' = [ks EXCEPT ![c] = FALSE]
    /\ lastKS' = [lastKS EXCEPT ![c] = FALSE]
    /\ UNCHANGED <<faults, enabled>>

\* The setting changes after doReconnect took its own copy of it, or after
\* the disconnect.
Overtakes(t) ==
    LET c == Target(t)
    IN  arg[t].ks # ks[c] /\ (MidReconnect(c) \/ ref[c] = "closed")

SetKillSwitch(t) ==
    LET c == Target(t)
    IN  /\ pc[t] = "toggle"
        /\ IF arg[t].ks = ks[c] THEN UNCHANGED <<host, ks, lastKS, faults, enabled>>
           ELSE IF arg[t].ks THEN SwitchOn(c)
           ELSE SwitchOff(c)
        /\ raced' = [raced EXCEPT ![c] = @ \/ Overtakes(t)]
        /\ Finish(t)
        /\ UNCHANGED <<state, routes, tun, hard, lastProto, cred, control, ref, net>>

\* TriggerReconnect, on a resume from sleep or a network change.
TriggerReconnect(c) ==
    /\ ref[c] = "live"
    /\ state[c] \in {"Connected", "Reconnecting"}
    /\ ~wake[c]
    /\ wake' = [wake EXCEPT ![c] = TRUE]
    /\ UNCHANGED <<host, state, slots, memory, cancelFn, cancelled, pc, ret, arg,
                   snap, ref, net, faults, history>>

-----------------------------------------------------------------------------
(* The environment. *)

NetworkLost ==
    /\ net /\ Fault
    /\ net' = FALSE
    /\ UNCHANGED <<host, state, slots, memory, control, pc, ret, arg, snap, ref, history>>

NetworkBack ==
    /\ ~net
    /\ net' = TRUE
    /\ UNCHANGED <<host, state, slots, memory, control, pc, ret, arg, snap, ref,
                   faults, history>>

\* The servers stop honouring a stored certificate before it expires.
CertificateRejected(c) ==
    /\ cred[c] = "good" /\ Fault
    /\ cred' = [cred EXCEPT ![c] = "bad"]
    /\ UNCHANGED <<host, state, slots, lastKS, lastProto, control, pc, ret, arg,
                   snap, ref, net, history>>

\* The stored certificate comes within certReuseMargin of its end.
CertificateExpires(c) ==
    /\ cred[c] # "none" /\ Fault
    /\ cred' = [cred EXCEPT ![c] = "none"]
    /\ UNCHANGED <<host, state, slots, lastKS, lastProto, control, pc, ret, arg,
                   snap, ref, net, history>>

-----------------------------------------------------------------------------
Dial(t) ==
    \/ SmartFallback(t) \/ ShieldDown(t) \/ ApplyRules(t) \/ SeedAPIs(t)
    \/ HardenHost(t) \/ BringUpTunnel(t) \/ SetUpRoutes(t) \/ WaitLocalAgent(t)
    \/ TakeOverDNS(t) \/ PersistBootState(t) \/ Connected(t) \/ StartMonitor(t)

Undo(t) ==
    \/ TearDown(t) \/ DropShield(t) \/ GiveBackDNS(t) \/ DropRoutes(t)
    \/ DropTunnel(t) \/ RelaxHost(t)

Monitor(c) ==
    \/ MonitorStops(c) \/ MonitorWakes(c) \/ TunnelStale(c) \/ CheckAfterWake(c)
    \/ BeginReconnect(c) \/ ReconnectCancelled(c) \/ LoopHead(c) \/ WaitNetwork(c)
    \/ Attempt(c) \/ WakeFromBackoff(c) \/ WaitExpires(c)

\* What a goroutine that has been started does by itself.
Run(t) ==
    \/ Dial(t) \/ Undo(t) \/ Disconnecting(t) \/ SetKillSwitch(t)
    \/ t \in Conn /\ Monitor(t)

Call(t, c) == Connect(t, c) \/ Disconnect(t, c) \/ CheckConnected(t, c)

Environment ==
    \/ NetworkLost \/ NetworkBack
    \/ \E c \in Conn :
          TriggerReconnect(c) \/ CertificateRejected(c) \/ CertificateExpires(c)

Next ==
    \/ \E t \in Thread : Run(t)
    \/ \E t \in Caller, c \in Conn : Call(t, c)
    \/ Environment

Spec == Init /\ [][Next]_vars

\* Goroutines are scheduled, timers fire and the network comes back; users
\* and faults owe nothing.
Fairness == (\A t \in Thread : WF_vars(Run(t))) /\ WF_vars(NetworkBack)

FairSpec == Spec /\ Fairness

-----------------------------------------------------------------------------
(* Properties. *)

\* The fields of the Connection objects and what is observed of them.
FieldsOK ==
    /\ state \in [Conn -> State]
    /\ ks \in [Conn -> BOOLEAN]
    /\ routes \in [Conn -> BOOLEAN]
    /\ tun \in [Conn -> Link]
    /\ hard \in [Conn -> Hardener]
    /\ lastKS \in [Conn -> BOOLEAN]
    /\ lastProto \in [Conn -> Proto \cup {"smart", "none"}]
    /\ cred \in [Conn -> {"none", "good", "bad"}]
    /\ cancelFn \in [Conn -> BOOLEAN]
    /\ cancelled \in [Conn -> BOOLEAN]
    /\ wake \in [Conn -> BOOLEAN]
    /\ ref \in [Conn -> {"new", "dialing", "live", "closed"}]
    /\ raced \in [Conn -> BOOLEAN]
    /\ enabled \in [Conn -> {"none", "ok", "applyFailed", "seedFailed"}]

\* The locals of the goroutines.
LocalsOK ==
    /\ pc \in [Thread -> PC]
    /\ ret \in [Thread -> Ret]
    /\ arg \in [Thread -> Arg]
    /\ snap \in [Thread -> Snap]

\* The type invariant.
TypeOK ==
    /\ host \in HostState
    /\ FieldsOK
    /\ LocalsOK
    /\ net \in BOOLEAN
    /\ faults \in Nat

\* No goroutine is at work on c.
Quiet(c) == \A t \in Thread : arg[t].conn = c => pc[t] = "idle"

\* Between the stale session's teardown and the next success, outside the
\* window in which Enable has the table in its hands.
Recovering(c) ==
    /\ pc[c] \notin {"idle", "watch", "wake", "reconnect", "apply", "seed"}
    /\ ~cancelled[c]

\* A connection that failed, or that was disconnected outside a reconnect
\* attempt, leaves no device, rule, route, resolver or sysctl behind,
\* whatever step failed and however the monitor's own teardown overlapped
\* with Disconnect's (teardown, connection.go).
TeardownRestoresHost ==
    \A c \in Conn :
        ref[c] = "closed" /\ Quiet(c) /\ ~raced[c] => Restored(host)

\* Nor does it leave its kill switch table, unless Enable failed after
\* loading it (KillSwitch.Enable, killswitch.go).
TeardownDropsTable ==
    \A c \in Conn :
        ref[c] = "closed" /\ Quiet(c) /\ ~raced[c] /\ enabled[c] # "seedFailed"
            => host.table # c

\* The kill switch a reconnect found in place stays loaded through the
\* teardown of the stale session, through failed attempts and the waits
\* between them (teardown(keepKillSwitch), reconnectAttempt).  Excepted is
\* the time after an attempt that failed inside Enable, which had deleted the
\* table and could not load the new one, until a later Enable succeeds (see
\* ShieldHeldThroughFailures), and a setting changed during the reconnect.
ShieldHeldWhileRecovering ==
    \A c \in Conn :
        Recovering(c) /\ arg[c].has /\ arg[c].ks /\ ~raced[c] /\ enabled[c] # "applyFailed"
            => host.table = c

\* With a kill switch, the ARP hardening is never relaxed while reconnecting,
\* Enable's window included (teardown's comment on sysctl).
HardenedWhileRecovering ==
    \A c \in Conn :
        MidReconnect(c) /\ arg[c].has /\ ~cancelled[c] /\ ~raced[c]
            => host.arp = "hard"

\* On a settled connection the kernel agrees with the last kill switch
\* setting that was acknowledged (SetKillSwitch, doConnect), as long as none
\* was changed while a reconnect was under way: doReconnect goes on with the
\* setting it read when it began (see AcknowledgedHonoured).
KillSwitchHonoured ==
    \A c \in Conn :
        /\ ref[c] = "live" /\ pc[c] = "watch" /\ state[c] = "Connected"
        /\ ~raced[c] /\ enabled[c] # "seedFailed"
        => (lastKS[c] <=> host.table = c)

\* No interleaving of Apply and Revert, of any number of connections, loses
\* the host's own sysctl values: while they are overwritten, some hardener
\* that a teardown will still reach remembers them (sysctl.go).
SysctlRecoverable ==
    host.arp = "hard" =>
        \/ \E c \in Conn : hard[c] = "own"
        \/ \E t \in Thread : snap[t].saved = "own"

\* Whenever a monitor or a reconnect runs, Disconnect can reach it: its
\* cancel function is installed, or was called (monitorConnection).
MonitorStoppable ==
    \A c \in Conn : pc[c] # "idle" => cancelFn[c] \/ cancelled[c]

\* A disconnect that lands outside an attempt ends the monitor and the
\* reconnect loop, in whatever wait they are (doReconnect's ctx.Done cases).
DisconnectEndsMonitor ==
    \A c \in Conn : ref[c] = "closed" ~> (Quiet(c) \/ raced[c])

\* While nobody disconnects, a lost tunnel comes back once faults cease: the
\* loop neither gives up nor replays a rejected certificate for ever.
ReconnectSucceeds ==
    \A c \in Conn :
        state[c] = "Reconnecting" /\ ~cancelled[c]
            ~> state[c] = "Connected" \/ cancelled[c] \/ raced[c]

-----------------------------------------------------------------------------
(* What comments of the source promise and the program does not keep. *)

\* "Stops any reconnection attempts" (Disconnect): once Disconnect has
\* returned, no reconnect that was under way installs a session.
DisconnectStopsReconnecting ==
    \A c \in Conn :
        /\ ref[c] = "closed"
        /\ \A u \in Caller : arg[u].conn # c
        => state[c] # "Connected"

\* The rules "are left active so traffic cannot leak during reconnection"
\* (teardown): a reconnect that found a kill switch never exposes the host,
\* even when no step of it fails.
NoExposureWhileReconnecting ==
    \A c \in Conn :
        /\ MidReconnect(c) /\ arg[c].conn = c /\ arg[c].has /\ arg[c].ks
        /\ ~cancelled[c] /\ ~raced[c]
        => ~Exposed(host)

\* The same comment: nor does a failed attempt expose it.  An attempt whose
\* Enable deletes the table and then fails leaves the host without one
\* through the backoff that follows.
ShieldHeldThroughFailures ==
    \A c \in Conn :
        Recovering(c) /\ arg[c].has /\ arg[c].ks /\ ~raced[c] => host.table = c

\* "Apply kill switch change to the live connection immediately" (cmdSettings):
\* a setting that SetKillSwitch acknowledged is the kernel's once the connection
\* has settled, also when a reconnect was under way that began with the old one.
AcknowledgedHonoured ==
    \A c \in Conn :
        /\ ref[c] = "live" /\ pc[c] = "watch" /\ state[c] = "Connected"
        /\ enabled[c] # "seedFailed"
        => (lastKS[c] <=> host.table = c)

\* "On ANY failure, all partially-created resources are torn down" (Connect).
FailedConnectLeavesNoTable ==
    \A c \in Conn :
        ref[c] = "closed" /\ Quiet(c) /\ ~raced[c] => host.table # c

\* "Smart mode tries WireGuard first, then falls back to stealth on failure"
\* (Connect): so does its reconnect, where only stealth gets through.
SmartReconnects ==
    \A c \in Conn :
        /\ lastProto[c] = "smart" /\ state[c] = "Reconnecting"
        /\ ~cancelled[c] /\ ~raced[c]
        ~> state[c] = "Connected" \/ cancelled[c] \/ raced[c]
=============================================================================
