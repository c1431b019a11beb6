------------------------------- MODULE Daemon -------------------------------
(***************************************************************************)
(* daemon.Daemon (internal/daemon/daemon.go) above vpn.Connection: which   *)
(* goroutine may call which Connection when, and the process around them.  *)
(*                                                                         *)
(* A caller is one goroutine of pvpnd: a handler of an IPC command, the    *)
(* goroutine cmdConnect or autoConnect starts for doConnect, or the signal *)
(* handler of main.  job[t] is where it is in the daemon's code; while it  *)
(* is inside a Connection method, pc[t] of module Connection says where.   *)
(*                                                                         *)
(* connectMu is held through the whole of doConnect, and a second doConnect*)
(* waits for it (job "queued").  d.mu is held through a Disconnect by      *)
(* doConnect and by cmdLogout, and otherwise only around one access to     *)
(* d.conn: both locks are therefore a matter of job.                       *)
(***************************************************************************)
EXTENDS Connection

CONSTANTS Requested,  \* protocols a connect may ask for
          MaxWrites,  \* bound on the settings the user saves
          MaxStarts   \* bound on the restarts of pvpnd

ASSUME DaemonAssumption ==
    /\ Requested \subseteq Proto \cup {"smart"}
    /\ MaxWrites \in Nat
    /\ MaxStarts \in Nat

VARIABLES
    held,       \* d.conn
    job, mine,  \* of a caller: its place in the daemon, its local conn
    cfg, disk,  \* Connection.KillSwitch in d.cfg and in the config file
    writes,     \* settings saved by the user so far
    session,    \* authenticated, with a server list
    up,         \* the process
    starts,     \* its restarts so far
    shielded,   \* history: the last process died with its kill switch settled
    overlap     \* history: see Overlap

dvars == <<held, job, mine, cfg, disk, writes, session, up, starts, shielded>>
allvars == <<vars, dvars, overlap>>

ConnectJob == {"replace", "replacing", "reload", "dial", "dialing", "refused",
               "publish", "reread", "save"}
LockedJob  == {"replacing", "leaving"}
Job == {"none", "queued", "drop", "dropping", "leaving", "switchOn", "switchOff",
        "switching", "stop", "stopping"} \cup ConnectJob

ConnectMuFree_Mutant == TRUE
ConnectMuFree == \A t \in Caller : job[t] \notin ConnectJob
DMuFree       == \A t \in Caller : job[t] \notin LockedJob

DInit ==
    /\ Init
    /\ held = NoConn
    /\ job = [t \in Caller |-> "none"]
    /\ mine = [t \in Caller |-> NoConn]
    /\ cfg \in BOOLEAN
    /\ disk = cfg
    /\ writes = 0
    /\ session = TRUE
    /\ up = "up"
    /\ starts = 0
    /\ shielded = FALSE
    /\ overlap = FALSE

-----------------------------------------------------------------------------
(* Control helpers. *)

\* The goroutine is in no Connection method.
Here(t) == pc[t] = "idle"

Free(t) == up = "up" /\ Here(t) /\ job[t] = "none"

To(t, j) == job' = [job EXCEPT ![t] = j]

\* The goroutine ends, and releases what it held.
Done(t) ==
    /\ To(t, "none")
    /\ mine' = [mine EXCEPT ![t] = NoConn]

Process == <<up, starts, shielded>>
Config  == <<cfg, disk, writes>>

-----------------------------------------------------------------------------
(* doConnect, on behalf of cmdConnect or of doAutoConnect. *)

\* A request is accepted when a server list is loaded, whoever is connecting.
BeginConnect(t) ==
    /\ Free(t)
    /\ session
    /\ \E c \in Conn : ref[c] = "new"
    /\ To(t, "queued")
    /\ UNCHANGED <<vars, held, mine, Config, session, Process>>

LockConnect(t) ==
    /\ job[t] = "queued"
    /\ ConnectMuFree
    /\ To(t, "replace")
    /\ UNCHANGED <<vars, held, mine, Config, session, Process>>

Replace_Mutant(t) ==
    /\ job[t] = "replace"
    /\ DMuFree
    /\ held' = NoConn
    /\ To(t, "reload")
    /\ UNCHANGED <<vars, mine, Config, session, Process>>

\* An existing connection is disconnected under d.mu.  One that Stop has already
\* disconnected, and left in d.conn, has nothing more to give up.
Replace(t) ==
    /\ job[t] = "replace"
    /\ DMuFree
    /\ \/ held = NoConn /\ To(t, "reload") /\ UNCHANGED vars
       \/ held # NoConn /\ To(t, "replacing") /\ Disconnect(t, held)
       \/ held # NoConn /\ ref[held] = "closed" /\ To(t, "replacing") /\ UNCHANGED vars
    /\ UNCHANGED <<held, mine, Config, session, Process>>

Replaced(t) ==
    /\ job[t] = "replacing" /\ Here(t)
    /\ held' = NoConn
    /\ To(t, "reload")
    /\ UNCHANGED <<vars, mine, Config, session, Process>>

ReloadConfig(t) ==
    /\ job[t] \in {"reload", "reread"}
    /\ cfg' = disk
    /\ To(t, IF job[t] = "reload" THEN "dial" ELSE "save")
    /\ UNCHANGED <<vars, held, mine, disk, writes, session, Process>>

\* Network backend, key and certificate, then Connect on a new object with
\* the kill switch setting of the moment.  d.ctx ends the request at shutdown.
\* Conn bounds the objects: with none left the certificate request fails.
DialServer(t) ==
    /\ job[t] = "dial"
    /\ \/ /\ \E c \in Conn :
                /\ Connect(t, c)
                /\ lastKS'[c] = cfg
                /\ lastProto'[c] \in Requested
                /\ mine' = [mine EXCEPT ![t] = c]
          /\ To(t, "dialing")
          /\ shielded' = FALSE
       \/ /\ \/ Fault
             \/ (~session \/ up # "up" \/ \A c \in Conn : ref[c] # "new") /\ UNCHANGED faults
          /\ Done(t)
          /\ UNCHANGED <<host, state, slots, memory, control, pc, ret, arg, snap,
                         ref, net, history, shielded>>
    /\ UNCHANGED <<held, Config, session, up, starts>>

\* VerifyKillSwitch: some table is loaded.
Verified == cfg => host.table # NoTable

\* Connect has returned.
Dialed(t) ==
    LET c == mine[t]
    IN  /\ job[t] = "dialing" /\ Here(t)
        /\ \/ ref[c] # "live" /\ Done(t) /\ UNCHANGED vars
           \/ ref[c] = "live" /\ Verified
              /\ To(t, "publish") /\ UNCHANGED <<vars, mine>>
           \/ ref[c] = "live" /\ ~Verified
              /\ Disconnect(t, c) /\ To(t, "refused") /\ UNCHANGED mine
        /\ UNCHANGED <<held, Config, session, Process>>

Publish(t) ==
    /\ job[t] = "publish"
    /\ DMuFree
    /\ held' = mine[t]
    /\ To(t, "reread")
    /\ UNCHANGED <<vars, mine, Config, session, Process>>

\* The last server goes into the configuration, which is written as a whole.
SaveConfig(t) ==
    /\ job[t] = "save"
    /\ disk' = cfg
    /\ Done(t)
    /\ UNCHANGED <<vars, held, cfg, writes, session, Process>>

-----------------------------------------------------------------------------
(* The other commands. *)

\* cmdDisconnect takes d.conn under d.mu and disconnects it outside.
TakeConn(t) ==
    /\ Free(t)
    /\ DMuFree
    /\ held # NoConn
    /\ mine' = [mine EXCEPT ![t] = held]
    /\ held' = NoConn
    /\ To(t, "drop")
    /\ UNCHANGED <<vars, Config, session, Process>>

DropConn(t) ==
    /\ job[t] = "drop"
    /\ Disconnect(t, mine[t])
    /\ To(t, "dropping")
    /\ UNCHANGED <<held, mine, Config, session, Process>>

Logout_Mutant(t) ==
    /\ Free(t)
    /\ DMuFree
    /\ session
    /\ held' = NoConn
    /\ session' = FALSE
    /\ UNCHANGED <<vars, job, mine, Config, Process>>

\* cmdLogout disconnects under d.mu, then forgets session and server list.
Logout(t) ==
    /\ Free(t)
    /\ DMuFree
    /\ \/ /\ held = NoConn /\ session
          /\ session' = FALSE /\ UNCHANGED <<vars, job>>
       \/ held # NoConn /\ Disconnect(t, held) /\ To(t, "leaving")
          /\ UNCHANGED session
    /\ UNCHANGED <<held, mine, Config, Process>>

\* Waits for connectMu with d.mu held, the two locks in the other order.
LoggedOut_Mutant(t) ==
    /\ job[t] = "leaving" /\ Here(t)
    /\ ConnectMuFree
    /\ held' = NoConn
    /\ session' = FALSE
    /\ Done(t)
    /\ UNCHANGED <<vars, Config, Process>>

LoggedOut(t) ==
    /\ job[t] = "leaving" /\ Here(t)
    /\ held' = NoConn
    /\ session' = FALSE
    /\ Done(t)
    /\ UNCHANGED <<vars, Config, Process>>

\* cmdLogin, when it succeeds and the server list arrives.
Login(t) ==
    /\ Free(t)
    /\ ~session
    /\ session' = TRUE
    /\ UNCHANGED <<vars, held, job, mine, Config, Process>>

\* cmdSettings reloads the configuration and compares with what it was.
Settings(t) ==
    /\ Free(t)
    /\ cfg # disk
    /\ cfg' = disk
    /\ To(t, IF disk THEN "switchOn" ELSE "switchOff")
    /\ UNCHANGED <<vars, held, mine, disk, writes, session, Process>>

ApplySettings(t) ==
    /\ job[t] \in {"switchOn", "switchOff"} /\ Here(t)
    /\ DMuFree
    /\ \/ /\ held # NoConn
          /\ CheckConnected(t, held)
          /\ arg'[t].ks = (job[t] = "switchOn")
          /\ To(t, "switching")
       \/ /\ ~(held # NoConn /\ state[held] = "Connected")
          /\ To(t, "none")
          /\ UNCHANGED vars
    /\ UNCHANGED <<held, mine, Config, session, Process>>

\* A handler whose Connection method has returned is done.
Return(t) ==
    /\ job[t] \in {"dropping", "refused", "switching"} /\ Here(t)
    /\ Done(t)
    /\ UNCHANGED <<vars, held, Config, session, Process>>

\* The TUI saves the other setting; its "settings" command may follow.
UserSaves ==
    /\ writes < MaxWrites
    /\ writes' = writes + 1
    /\ disk' = ~disk
    /\ UNCHANGED <<vars, held, job, mine, cfg, session, Process>>

-----------------------------------------------------------------------------
(* The process. *)

ForceCleanup_Mutant(h) == RoutesOff(LinkDel(IF h.flag THEN h ELSE ShieldOff(h)))
ForceCleanup_Unguarded(h) == RoutesOff(LinkDel(DNSOff([h EXCEPT !.table = NoTable])))

\* ForceCleanup: resolver, device, rules and routes, and a table that no boot
\* flag protects.
ForceCleanup(h) ==
    LET g == RoutesOff(LinkDel(DNSOff(h)))
    IN  IF g.flag THEN g ELSE [g EXCEPT !.table = NoTable]

\* Stop cancels d.ctx and closes the listener ...
BeginStop(t) ==
    /\ Free(t)
    /\ up' = "stopping"
    /\ To(t, "stop")
    /\ UNCHANGED <<vars, held, mine, Config, session, starts, shielded>>

\* ... disconnects d.conn, without clearing it ...
StopConn(t) ==
    /\ job[t] = "stop" /\ Here(t)
    /\ DMuFree
    /\ \/ held = NoConn /\ UNCHANGED vars
       \/ held # NoConn /\ Disconnect(t, held)
    /\ To(t, "stopping")
    /\ UNCHANGED <<held, mine, Config, session, Process>>

\* ... and cleans up; the signal handler then exits.
Stopped(t) ==
    /\ job[t] = "stopping" /\ Here(t)
    /\ host' = ForceCleanup(host)
    /\ Done(t)
    /\ UNCHANGED <<state, slots, memory, control, pc, ret, arg, snap, ref, net,
                   faults, history, held, Config, session, Process>>

\* d.conn is up, with nobody at work on it or on shutting down.
Settled(c) ==
    /\ up = "up" /\ held = c /\ ref[c] = "live" /\ state[c] = "Connected"
    /\ \A t \in Thread : arg[t].conn = c => pc[t] \in {"idle", "watch"}
    /\ ~raced[c] /\ ~overlap

\* No object of module Connection and no goroutine is left.
Forget ==
    /\ state' = [c \in Conn |-> "Disconnected"]
    /\ ks' = [c \in Conn |-> FALSE]
    /\ routes' = [c \in Conn |-> FALSE]
    /\ tun' = [c \in Conn |-> NoLink]
    /\ hard' = [c \in Conn |-> "nil"]
    /\ lastKS' = [c \in Conn |-> FALSE]
    /\ lastProto' = [c \in Conn |-> "none"]
    /\ cred' = [c \in Conn |-> "none"]
    /\ cancelFn' = [c \in Conn |-> FALSE]
    /\ cancelled' = [c \in Conn |-> FALSE]
    /\ wake' = [c \in Conn |-> FALSE]
    /\ pc' = [t \in Thread |-> "idle"]
    /\ ret' = [t \in Thread |-> "none"]
    /\ arg' = [t \in Thread |-> NoArg]
    /\ snap' = [t \in Thread |-> NoSnap]
    /\ ref' = [c \in Conn |-> "new"]
    /\ raced' = [c \in Conn |-> FALSE]
    /\ enabled' = [c \in Conn |-> "none"]

\* Everything in memory is gone, and the table left is one for an earlier
\* server.  A stealth device goes with the process that opened it, a WireGuard
\* device stays.
Vanish(h) ==
    /\ host' = [h EXCEPT !.table = IF @ \in Conn THEN BootTable ELSE @]
    /\ Forget
    /\ held' = NoConn
    /\ job' = [t \in Caller |-> "none"]
    /\ mine' = [t \in Caller |-> NoConn]
    /\ up' = "down"
    /\ shielded' = (shielded \/ \E c \in Conn : Settled(c) /\ lastKS[c] /\ host.flag)
    /\ UNCHANGED <<net, faults, Config, session, starts>>

\* A crash, or the end of main: Run returns as soon as the listener is closed.
Exit ==
    /\ up # "down"
    /\ \/ up = "stopping"
       \/ starts < MaxStarts
    /\ \E h \in {host, LinkDel(host)} : Vanish(h)

\* A reboot keeps the files only; early in the boot the table of preboot.nft is
\* loaded if the flag exists.
Reboot ==
    /\ starts < MaxStarts
    /\ Vanish([host EXCEPT !.table = IF host.flag THEN BootTable ELSE NoTable,
                           !.link = NoLink, !.rules = FALSE, !.route = NoLink,
                           !.arp = "own"])

\* Run, up to the loops: clean up what the last process left.
Start ==
    /\ up = "down"
    /\ starts < MaxStarts
    /\ starts' = starts + 1
    /\ up' = "up"
    /\ host' = ForceCleanup(host)
    /\ cfg' = disk
    /\ UNCHANGED <<state, slots, memory, control, pc, ret, arg, snap, ref, net,
                   faults, history, held, job, mine, disk, writes, session,
                   shielded>>

-----------------------------------------------------------------------------
\* Inside a Connection method, or in a connection's monitor.
Within(t) == Run(t) /\ UNCHANGED dvars

DoConnect(t) ==
    \/ LockConnect(t) \/ Replace(t) \/ Replaced(t) \/ ReloadConfig(t) \/ DialServer(t)
    \/ Dialed(t) \/ Publish(t) \/ SaveConfig(t)

Goroutine(t) ==
    \/ DoConnect(t) \/ DropConn(t) \/ LoggedOut(t) \/ ApplySettings(t)
    \/ Return(t) \/ StopConn(t) \/ Stopped(t)

Command(t) ==
    \/ BeginConnect(t) \/ TakeConn(t) \/ Logout(t) \/ Login(t) \/ Settings(t)
    \/ BeginStop(t)

DEnvironment ==
    \/ /\ \/ NetworkLost \/ NetworkBack
          \/ \E c \in Conn :
                \/ held = c /\ TriggerReconnect(c)
                \/ CertificateRejected(c) \/ CertificateExpires(c)
       /\ UNCHANGED dvars
    \/ UserSaves \/ Exit \/ Reboot \/ Start

AtWork(t) == pc[t] \in {"disconnect"} \cup Dialing \cup TearingDown

\* Somebody works on the host for one connection while another has a session
\* there, or is about to.
Overlap ==
    \E t \in Thread, d \in Conn :
        AtWork(t) /\ arg[t].conn # d /\ ref[d] \in {"dialing", "live"}

Watch == overlap' = (overlap \/ Overlap' \/ \E c \in Conn : raced'[c])

DNext ==
    /\ \/ \E t \in Thread : Within(t)
       \/ \E t \in Caller : Goroutine(t) \/ Command(t)
       \/ DEnvironment
    /\ Watch

DSpec == DInit /\ [][DNext]_allvars

DFairness ==
    /\ \A t \in Thread : WF_allvars(Within(t) /\ Watch)
    /\ \A t \in Caller : WF_allvars(Goroutine(t) /\ Watch)
    /\ WF_allvars(NetworkBack /\ UNCHANGED <<dvars, overlap>>)

DFairSpec == DSpec /\ DFairness

-----------------------------------------------------------------------------
(* Properties. *)

\* The type invariant, with the exclusion the two mutexes are there for:
\* one doConnect at a time, one Disconnect under d.mu at a time, and d.conn
\* only ever a connection that was dialled.
DTypeOK ==
    /\ TypeOK
    /\ held \in Conn \cup {NoConn}
    /\ job \in [Caller -> Job]
    /\ mine \in [Caller -> Conn \cup {NoConn}]
    /\ {cfg, disk, session, shielded, overlap} \subseteq BOOLEAN
    /\ up \in {"up", "stopping", "down"}
    /\ writes \in 0 .. MaxWrites
    /\ starts \in 0 .. MaxStarts
    /\ held # NoConn => ref[held] \in {"live", "closed"}
    /\ \A t, u \in Caller :
          /\ job[t] \in ConnectJob /\ job[u] \in ConnectJob => t = u
          /\ job[t] \in LockedJob /\ job[u] \in LockedJob => t = u

\* Somebody in the daemon still refers to c.
Owned(c) ==
    \/ held = c
    \/ \E t \in Caller : mine[t] = c \/ arg[t].conn = c

\* A connection nobody refers to any more is a closed one: no path through
\* connect, refusal, replacement, disconnect and logout drops a live session.
NoSessionWithoutHolder ==
    \A c \in Conn :
        /\ ref[c] # "new" /\ ~Owned(c) /\ pc[c] \in {"idle", "watch"} /\ ~raced[c]
        => /\ ref[c] = "closed"
           /\ state[c] \in {"Disconnected", "Error"}
           /\ ~ks[c] /\ ~routes[c] /\ tun[c] = NoLink /\ hard[c] = "nil"

\* With no session and nobody at work nothing of one is left, whatever the
\* sessions, failures, crashes and reboots before; only a table that the boot
\* flag vouches for may be loaded.
IdleHostRestored ==
    /\ up = "up" /\ held = NoConn /\ ~overlap
    /\ \A t \in Thread : pc[t] = "idle"
    /\ \A t \in Caller : job[t] = "none"
    /\ \A c \in Conn : ~raced[c] /\ enabled[c] # "seedFailed"
    => /\ host.link = NoLink /\ ~host.rules /\ host.route = NoLink
       /\ host.resolv = "host"
       /\ host.arp = "own" \/ starts > 0
       /\ host.table = NoTable \/ (host.table = BootTable /\ host.flag)

\* If the process or the host dies while a session with a kill switch is
\* settled and its boot flag written (which is best effort), traffic
\* stays blocked through reboots and restarts until the next connect.
ShieldOutlivesProcess == shielded => host.table # NoTable

\* Every connect request that was accepted ends, however it overlaps with
\* other connects, disconnects, logouts, settings and Stop: whoever waits for
\* connectMu gets it in turn, and whoever holds it gets d.mu and gives both back.
ConnectReturns ==
    \A t \in Caller :
        job[t] \in {"queued"} \cup ConnectJob ~> job[t] \notin {"queued"} \cup ConnectJob

-----------------------------------------------------------------------------
(* Promises of the source that the program does not keep. *)

\* "Handle signals for clean shutdown" (cmd/pvpnd/main.go), with a cleanup "to
\* ensure the host network is never left broken" (cleanup.go): a daemon that
\* was told to stop, and did not crash, has restored the host when it is gone.
StopRestoresHost == up = "down" /\ starts = 0 => Restored(host)

\* A connection whose kill switch is not in the kernel is torn down "rather
\* than silently leave them unprotected" (doConnect): a settled session that
\* was asked to have a kill switch has some table loaded.
UnprotectedNever ==
    \A c \in Conn :
        /\ held = c /\ ref[c] = "live" /\ state[c] = "Connected" /\ lastKS[c]
        /\ pc[c] \in {"idle", "watch"} /\ ~raced[c]
        /\ \A t \in Caller : arg[t].conn # c
        => host.table # NoTable
=============================================================================
