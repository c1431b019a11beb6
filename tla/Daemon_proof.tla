---------------------------- MODULE Daemon_proof ----------------------------
(***************************************************************************)
(* Proofs about the daemon, for every set of connections and callers, any  *)
(* number of restarts and every value of the other constants.              *)
(*                                                                         *)
(* What is known of the Connection objects (Below) survives every step of  *)
(* the daemon, the death and the cleanups of the process included.  Above  *)
(* it, Seats says which goroutine of the daemon answers for which          *)
(* connection, and Excluded that the mutexes keep those goroutines apart.  *)
(*                                                                         *)
(* The second half follows the host itself, with several connections on    *)
(* it: Network and Table are what every step of a connection owes to it,   *)
(* and Hosts is the invariant that IdleHostRestored rests on, cleanups,    *)
(* deaths and restarts of the process included.                            *)
(***************************************************************************)
EXTENDS Daemon, Connection_proof

Below == TInv /\ Roles /\ Kept /\ Fields

Typed ==
    /\ held \in Conn \cup {NoConn}
    /\ job \in [Caller -> Job]
    /\ mine \in [Caller -> Conn \cup {NoConn}]
    /\ {cfg, disk, session, shielded} \subseteq BOOLEAN
    /\ up \in {"up", "stopping", "down"}
    /\ writes \in 0 .. MaxWrites
    /\ starts \in 0 .. MaxStarts

DTypes == Typed /\ overlap \in BOOLEAN

\* connectMu and d.mu exclude.
Excluded ==
    \A t, u \in Caller :
        /\ job[t] \in ConnectJob /\ job[u] \in ConnectJob => t = u
        /\ job[t] \in LockedJob /\ job[u] \in LockedJob => t = u

\* Places at which the daemon's own variable keeps a session from being lost.
Holding == {"dialing", "publish", "drop"}

\* Before the new session is published there is no old one.
Vacant == {"reload", "dial", "dialing", "publish"}

\* Who answers for a connection at each place of the daemon.
Seats ==
    /\ held # NoConn => ref[held] \in {"live", "closed"}
    /\ \A t \in Caller :
          /\ Dials(t) => job[t] = "dialing" /\ mine[t] = arg[t].conn
          /\ job[t] \in Holding => mine[t] \in Conn
          /\ job[t] = "publish" => ref[mine[t]] \in {"live", "closed"}
          /\ job[t] \in Vacant => held = NoConn
          /\ job[t] \in LockedJob => held # NoConn /\ ref[held] = "closed"
    /\ \A c \in Conn : ref[c] = "live" =>
          held = c \/ \E t \in Caller : job[t] \in Holding /\ mine[t] = c

Staffed == DTypes /\ Excluded /\ Seats

-----------------------------------------------------------------------------
(* What a step of the daemon is to the connections. *)

\* The process goes on, or begins to stop.
Runs == starts' = starts /\ (up' = "down" <=> up = "down") /\ (up' = "up" => up = "up")

\* A cleanup of the host, at the end of Stop or at a start, or a dial that
\* fails before it begins.
Cleans ==
    /\ UNCHANGED <<state, slots, memory, control, pc, ret, arg, snap, ref, net, history>>
    /\ faults' \in Nat
    /\ \/ host' = host /\ Runs
       \/ host' = ForceCleanup(host) /\ Runs /\ \E t \in Caller : job[t] = "stopping"
       \/ host' = ForceCleanup(host) /\ up = "down" /\ starts' > 0

Dies ==
    /\ Forget
    /\ up' = "down"
    /\ host' \in HostState /\ host'.table \notin Conn
    /\ host'.resolv = host.resolv /\ host'.backup = host.backup
    /\ UNCHANGED <<net, faults>>

LEMMA CleanupType ==
  ASSUME NEW h \in HostState
  PROVE  ForceCleanup(h) \in HostState
<1> DEFINE g == RoutesOff(LinkDel(DNSOff(h)))
<1>1. g \in HostState
  BY HostOps
<1>2. [g EXCEPT !.table = NoTable] \in HostState
  BY <1>1 DEF HostState
<1> QED BY <1>1, <1>2 DEF ForceCleanup

LEMMA VanishDies ==
  ASSUME NEW h \in HostState, h.resolv = host.resolv, h.backup = host.backup, Vanish(h)
  PROVE  Dies
<1> DEFINE g == [h EXCEPT !.table = IF @ \in Conn THEN BootTable ELSE @]
<1>1. g \in HostState /\ g.table \notin Conn /\ g.resolv = host.resolv /\ g.backup = host.backup
  BY HostNetAssumption DEF HostState
<1> QED BY <1>1 DEF Vanish, Dies

LEMMA DeathDies ==
  ASSUME TInv, Exit \/ Reboot
  PROVE  Dies
<1>0. host \in HostState
  BY DEF TInv, TypeOK
<1> DEFINE boot == [host EXCEPT !.table = IF host.flag THEN BootTable ELSE NoTable,
                                !.link = NoLink, !.rules = FALSE, !.route = NoLink,
                                !.arp = "own"]
<1>1. /\ LinkDel(host) \in HostState
      /\ LinkDel(host).resolv = host.resolv /\ LinkDel(host).backup = host.backup
  <2>1. LinkDel(host) \in HostState
    BY <1>0, HostOps
  <2> QED BY <1>0, <2>1 DEF LinkDel, HostState
<1>2. boot \in HostState /\ boot.resolv = host.resolv /\ boot.backup = host.backup
  BY <1>0 DEF HostState, Link
<1>3. CASE Exit
  BY <1>0, <1>1, <1>3, VanishDies DEF Exit
<1>4. CASE Reboot
  BY <1>2, <1>4, VanishDies DEF Reboot
<1> QED BY <1>3, <1>4

LEMMA DialServerSteps ==
  ASSUME TInv, NEW t \in Caller, DialServer(t)
  PROVE  (\E c \in Conn : Connect(t, c)) \/ Cleans
<1>1. CASE \E c \in Conn : Connect(t, c)
  BY <1>1
<1>2. CASE ~\E c \in Conn : Connect(t, c)
  <2>1. /\ UNCHANGED <<host, state, slots, memory, control, pc, ret, arg, snap, ref, net, history>>
        /\ Fault \/ UNCHANGED faults
    BY <1>2 DEF DialServer
  <2>2. Runs
    BY DEF DialServer, Runs
  <2> QED BY <2>1, <2>2 DEF Cleans, Fault, TInv, TypeOK
<1> QED BY <1>1, <1>2

LEMMA ConnectionSteps ==
  ASSUME Staffed, NEW t \in Caller,
         \/ Replace(t) \/ Dialed(t) \/ DropConn(t) \/ Logout(t) \/ ApplySettings(t) \/ StopConn(t)
  PROVE  UNCHANGED vars \/ \E c \in Conn : Disconnect(t, c) \/ CheckConnected(t, c)
<1>0. held \in Conn \cup {NoConn}
  BY DEF Staffed, DTypes, Typed
<1>1. CASE Replace(t) \/ Logout(t) \/ StopConn(t)
  BY <1>0, <1>1 DEF Replace, Logout, StopConn
<1>2. CASE ApplySettings(t)
  BY <1>0, <1>2 DEF ApplySettings
<1>3. CASE Dialed(t) \/ DropConn(t)
  <2>1. mine[t] \in Conn
    BY <1>3 DEF Dialed, DropConn, Staffed, Seats, Holding
  <2> QED BY <1>3, <2>1 DEF Dialed, DropConn
<1> QED BY <1>1, <1>2, <1>3

LEMMA Running ==
  ASSUME [DNext]_allvars
  PROVE  Runs \/ Exit \/ Reboot \/ Start
<1>1. ASSUME UNCHANGED Process PROVE Runs
  BY <1>1 DEF Process, Runs
<1>2. CASE UNCHANGED allvars \/ \E t \in Thread : Within(t)
  BY <1>2 DEF allvars, Within, dvars, Runs
<1>3. CASE \E t \in Caller : Goroutine(t)
  BY <1>1, <1>3 DEF Goroutine, DoConnect, Replace, Replaced, LockConnect, ReloadConfig, DialServer, Dialed, Publish,
     SaveConfig, DropConn, LoggedOut, ApplySettings, Return, StopConn, Stopped, Runs, Process
<1>4. CASE \E t \in Caller : Command(t)
  BY <1>1, <1>4 DEF Command, BeginConnect, TakeConn, Logout, Login, Settings, BeginStop, Free, Runs
<1>5. CASE DEnvironment
  BY <1>1, <1>5 DEF DEnvironment, UserSaves, dvars, Runs
<1> QED BY <1>2, <1>3, <1>4, <1>5 DEF DNext

LEMMA Steps ==
  ASSUME TInv, Staffed, [DNext]_allvars
  PROVE  ([Next]_vars /\ Runs) \/ Cleans \/ Dies
<1>0. host \in HostState /\ faults \in Nat
  BY DEF TInv, TypeOK
<1>1. ASSUME NEW t \in Thread, Within(t) PROVE [Next]_vars
  BY <1>1 DEF Within, Next
<1>2. ASSUME NEW t \in Caller, DoConnect(t) PROVE [Next]_vars \/ Cleans
  BY <1>2, DialServerSteps, ConnectionSteps
  DEF DoConnect, Replaced, LockConnect, ReloadConfig, Publish, SaveConfig, Next, Call
<1>3. ASSUME NEW t \in Caller, Goroutine(t) PROVE [Next]_vars \/ Cleans
  <2>1. CASE Stopped(t)
    BY <1>0, <2>1 DEF Stopped, Cleans, Process, Runs
  <2>2. CASE LoggedOut(t) \/ Return(t)
    BY <2>2 DEF LoggedOut, Return
  <2> QED BY <1>2, <1>3, <2>1, <2>2, ConnectionSteps DEF Goroutine, Next, Call
<1>4. ASSUME NEW t \in Caller, Command(t) PROVE [Next]_vars
  <2>1. CASE Logout(t)
    BY <2>1, ConnectionSteps DEF Next, Call
  <2> QED BY <1>4, <2>1 DEF Command, BeginConnect, TakeConn, Login, Settings, BeginStop
<1>5. ASSUME DEnvironment, ~(Exit \/ Reboot \/ Start) PROVE [Next]_vars
  <2>1. CASE UserSaves
    BY <2>1 DEF UserSaves
  <2> QED BY <1>5, <2>1 DEF DEnvironment, Environment, Next
<1>6. UNCHANGED allvars => UNCHANGED vars
  BY DEF allvars
<1>7. Exit \/ Reboot => Dies
  BY DeathDies
<1>8. Start => Cleans
  <2>1. Start => starts' > 0
    BY DEF Start, Staffed, DTypes, Typed
  <2> QED BY <1>0, <2>1 DEF Start, Cleans
<1> QED BY <1>1, <1>3, <1>4, <1>5, <1>6, <1>7, <1>8, Running DEF DNext

\* What a connection is after its process died.
LEMMA Forgotten ==
  ASSUME TInv, Dies
  PROVE  Below'
<1> USE DEF Dies, Forget
<1>0. /\ NoArg \in Arg /\ NoSnap \in Snap /\ NoArg.conn = NoConn /\ NoSnap.saved = "nil"
      /\ NoConn \notin Conn
  BY ConnectionAssumption DEF NoArg, NoSnap, Arg, Snap, Link, Proto, Hardener
<1>1. FieldsOK'
  BY DEF FieldsOK, State, Link, Hardener
<1>2. LocalsOK'
  BY <1>0 DEF LocalsOK, PC, Ret
<1>3. TInv'
  BY <1>1, <1>2 DEF TInv, TypeOK, TargetOK, Thread
<1>4. Roles'
  BY DEF Roles, CallerRole, MonitorRole, OneDialer, Dials, Dialing, TearingDown, Thread
<1>5. Kept'
  BY <1>0 DEF Kept, SavedInTeardown, MonitorStoppable, Thread
<1>6. Fields'
  <2>1. \A t \in Caller : ~Dials(t)' /\ ~Disconnects(t)' /\ pc'[t] = "idle" /\ arg'[t].conn = NoConn
    BY <1>0 DEF Dials, Disconnects, Dialing, TearingDown, Thread
  <2>2. \A c \in Conn : Clear(c)' /\ ref'[c] = "new"
    BY DEF Clear
  <2> QED BY <2>1, <2>2 DEF Fields, Fresh, DialUndone, DisconnectUndone, ClosedClears, DialerThere, TearingDown
<1> QED BY <1>3, <1>4, <1>5, <1>6 DEF Below

LEMMA NextBelow ==
  ASSUME Below, Staffed, [DNext]_allvars
  PROVE  Below'
<1>1. CASE [Next]_vars
  BY <1>1, NextType, NextRoles, NextKept, NextFields DEF Below
<1>2. CASE Cleans
  <2>0. host' \in HostState
    BY <1>2, CleanupType DEF Cleans, Below, TInv, TypeOK
  <2>1. TInv'
    BY <1>2, <2>0 DEF Below, TInv, TypeOK, FieldsOK, LocalsOK, TargetOK, Cleans, slots, memory, control, history
  <2>2. Roles' /\ Kept'
    BY <1>2 DEF Below, Roles, CallerRole, MonitorRole, OneDialer, Dials, Kept, SavedInTeardown,
       MonitorStoppable, Cleans, control
  <2>3. Fields'
    BY <1>2, StillFields DEF Below, Cleans, slots, control, history
  <2> QED BY <2>1, <2>2, <2>3 DEF Below
<1>3. CASE Dies
  BY <1>3, Forgotten DEF Below
<1> QED BY <1>1, <1>2, <1>3, Steps DEF Below

-----------------------------------------------------------------------------
(* What a goroutine inside a Connection method does to the daemon's seats. *)

\* A dial goes on or ends; only a dial makes a connection live.
Onward ==
    /\ \A u \in Caller : Dials(u)' => Dials(u) /\ arg'[u].conn = arg[u].conn
    /\ \A c \in Conn : ref[c] \in {"live", "closed"} => ref'[c] = ref[c]
    /\ \A c \in Conn : ref'[c] = "live" =>
          ref[c] = "live" \/ \E u \in Caller : Dials(u) /\ arg[u].conn = c

LEMMA DialOnward ==
  ASSUME TInv, Roles, Fields, NEW t \in Thread, Dial(t)
  PROVE  Onward
<1>0. LocalsOK /\ FieldsOK /\ Conn \cap Caller = {} /\ Caller \subseteq Thread /\ Conn \subseteq Thread
      /\ NoArg.conn = NoConn /\ NoConn \notin Conn
  BY ConnectionAssumption DEF TInv, TypeOK, Thread, NoArg
<1>1. CASE SmartFallback(t)
  <2>1. t \in Caller
    BY <1>0, <1>1 DEF SmartFallback, Roles, MonitorRole, Thread
  <2>2. DialOver(t)
    BY <1>1, <2>1, DialOvers
  <2>3. ref[arg[t].conn] = "dialing"
    BY <2>2 DEF DialOver, Roles, OneDialer
  <2> QED BY <1>0, <1>1, <2>1, <2>2, <2>3 DEF DialOver, Alone, Onward, Dials, Dialing, TearingDown
<1>2. CASE StartMonitor(t)
  <2>1. /\ pc[t] \in Dialing /\ arg[t].conn \in Conn
        /\ t \in Caller => Dials(t) /\ ref[arg[t].conn] = "dialing"
        /\ t \in Conn => arg[t].conn = t /\ ref[t] \notin {"new", "dialing"}
    BY <1>0, <1>2 DEF StartMonitor, Dialing, TInv, TargetOK, Dials, Roles, OneDialer
  <2>2. \A u \in Caller \ {t} : pc'[u] = pc[u] /\ ret'[u] = ret[u] /\ arg'[u] = arg[u]
    BY <1>0, <1>2, <2>1 DEF StartMonitor, Target, LocalsOK
  <2>3. t \in Caller => pc'[t] = "idle"
    BY <1>0, <1>2, <2>1 DEF StartMonitor, Target, LocalsOK
  <2>4. \A d \in Conn : ref'[d] = IF d = arg[t].conn /\ ref[d] = "dialing" THEN "live" ELSE ref[d]
    BY <1>0, <1>2, <2>1 DEF StartMonitor, Target, FieldsOK
  <2>5. \A u \in Caller : Dials(u)' => Dials(u) /\ arg'[u].conn = arg[u].conn
    BY <2>2, <2>3 DEF Dials, Dialing, TearingDown
  <2> QED BY <1>0, <2>1, <2>4, <2>5 DEF Onward, Thread
<1>3. CASE DialMove(t)
  <2>1. \A u \in Caller : Dials(u)' => Dials(u)
    BY <1>0, <1>3 DEF DialMove, Alone, Dials, Dialing
  <2> QED BY <1>0, <1>3, <2>1 DEF DialMove, Alone, Onward
<1> QED BY <1>1, <1>2, <1>3, DialMoves DEF Dial

LEMMA UndoOnward ==
  ASSUME TInv, Roles, Fields, NEW t \in Thread, Undo(t)
  PROVE  Onward
<1>0. LocalsOK /\ FieldsOK /\ Conn \cap Caller = {} /\ Caller \subseteq Thread /\ Conn \subseteq Thread
  BY ConnectionAssumption DEF TInv, TypeOK, Thread
<1>1. ASSUME RelaxHost(t), t \in Conn PROVE Onward
  BY <1>0, <1>1, MonitorMoves DEF MonitorMove, Alone, Onward, Dials
<1>2. ASSUME t \in Caller, RelaxHost(t), ReturnToConnect(t) PROVE Onward
  <2>1. DialOver(t)
    BY <1>2, DialOvers
  <2>2. ref[arg[t].conn] = "dialing"
    BY <2>1 DEF DialOver, Roles, OneDialer
  <2> QED BY <1>0, <1>2, <2>1, <2>2 DEF DialOver, Alone, Onward, Dials, Dialing, TearingDown
<1>3. ASSUME t \in Caller, RelaxHost(t), ReturnToEnd(t) PROVE Onward
  <2>1. /\ ref' = ref /\ pc'[t] = "idle"
        /\ \A u \in Thread \ {t} : pc'[u] = pc[u] /\ ret'[u] = ret[u] /\ arg'[u] = arg[u]
    BY <1>0, <1>3 DEF ReturnToEnd, Finish, Goto, LocalsOK
  <2> QED BY <1>0, <2>1 DEF Onward, Dials, Dialing, TearingDown
<1>4. ASSUME UndoMove(t) PROVE Onward
  BY <1>0, <1>4 DEF UndoMove, Undoing, Alone, Onward, Dials, Dialing, TearingDown
<1>5. ASSUME t \in Caller, RelaxHost(t) PROVE ReturnToConnect(t) \/ ReturnToEnd(t)
  <2>1. ret[t] \in {"connectFailed", "disconnect"}
    BY <1>5 DEF RelaxHost, Roles, CallerRole, TearingDown
  <2> QED BY <1>5, <2>1 DEF RelaxHost, ReturnToReconnect
<1> QED BY <1>1, <1>2, <1>3, <1>4, <1>5, UndoMoves DEF Undo, Thread

LEMMA RunOnward ==
  ASSUME TInv, Roles, Fields, NEW t \in Thread, Run(t)
  PROVE  Onward
<1>0. LocalsOK /\ Conn \cap Caller = {} /\ Caller \subseteq Thread /\ Conn \subseteq Thread
  BY ConnectionAssumption DEF TInv, TypeOK, Thread
<1>1. CASE t \in Conn /\ Monitor(t)
  BY <1>0, <1>1, MonitorMoves DEF MonitorMove, Alone, Onward, Dials
<1>2. CASE Disconnecting(t) \/ SetKillSwitch(t)
  <2>1. /\ ref' = ref
        /\ \A u \in Thread \ {t} : pc'[u] = pc[u] /\ ret'[u] = ret[u] /\ arg'[u] = arg[u]
        /\ pc'[t] = "idle" \/ (pc'[t] = "teardown" /\ ret'[t] = "disconnect")
    BY <1>0, <1>2 DEF Disconnecting, SetKillSwitch, CallTeardown, Finish, Goto, LocalsOK
  <2> QED BY <1>0, <2>1 DEF Onward, Dials, Dialing, TearingDown
<1> QED BY <1>1, <1>2, DialOnward, UndoOnward DEF Run

\* A call that does not dial.
Settles(c) ==
    /\ \A u \in Caller : Dials(u)' => Dials(u) /\ arg'[u].conn = arg[u].conn
    /\ \A d \in Conn \ {c} : ref'[d] = ref[d]
    /\ c \in Conn => ref'[c] = ref[c] \/ (ref[c] = "live" /\ ref'[c] = "closed")

LEMMA CallSettles ==
  ASSUME TInv, NEW t \in Caller, NEW c \in Conn, Disconnect(t, c) \/ CheckConnected(t, c)
  PROVE  Settles(c) /\ ~Dials(t)' /\ (Disconnect(t, c) => ref'[c] = "closed")
<1>0. LocalsOK /\ FieldsOK /\ Caller \subseteq Thread
  BY DEF TInv, TypeOK, Thread
<1>1. \A u \in Caller \ {t} : pc'[u] = pc[u] /\ ret'[u] = ret[u] /\ arg'[u] = arg[u]
  BY <1>0 DEF Disconnect, CheckConnected, Goto, LocalsOK
<1>2. pc'[t] \in {"disconnect", "toggle"}
  BY <1>0 DEF Disconnect, CheckConnected, Goto, LocalsOK
<1>3. /\ \A d \in Conn \ {c} : ref'[d] = ref[d]
      /\ ref'[c] = ref[c] \/ (ref[c] = "live" /\ ref'[c] = "closed")
      /\ Disconnect(t, c) => ref'[c] = "closed"
  BY <1>0 DEF Disconnect, CheckConnected, FieldsOK
<1> QED BY <1>1, <1>2, <1>3 DEF Settles, Dials, Dialing, TearingDown

LEMMA StillSettles == ASSUME UNCHANGED vars PROVE Settles(NoConn)
  BY DEF vars, Settles, Dials

\* A goroutine that moves without touching d.conn, and gives no session up.
LEMMA Seated ==
  ASSUME Staffed, NEW t \in Caller, NEW c \in Conn \cup {NoConn}, Settles(c), UNCHANGED held,
         \A u \in Caller \ {t} : job'[u] = job[u] /\ mine'[u] = mine[u],
         job'[t] \in LockedJob => job[t] \in LockedJob \/ (held \in Conn /\ ref'[held] = "closed"),
         job'[t] \in Vacant => job[t] \in Vacant \/ held = NoConn,
         \/ job'[t] = job[t] /\ mine'[t] = mine[t]
         \/ job'[t] \notin Holding /\ job[t] \notin Holding
         \/ job'[t] \notin Holding /\ ~Dials(t)' /\ ref'[mine[t]] # "live"
  PROVE  Seats'
<1>0. NoConn \notin Conn /\ held \in Conn \cup {NoConn}
  BY ConnectionAssumption DEF Staffed, DTypes, Typed
<1>1. \A d \in Conn : /\ ref[d] = "closed" => ref'[d] = "closed"
                      /\ ref'[d] = "live" => ref[d] = "live"
                      /\ ref[d] = "live" => ref'[d] \in {"live", "closed"}
  BY <1>0 DEF Settles
<1>2. held' # NoConn => ref'[held'] \in {"live", "closed"}
  BY <1>0, <1>1 DEF Staffed, Seats
<1>3. \A u \in Caller : Dials(u)' => job'[u] = "dialing" /\ mine'[u] = arg'[u].conn
  BY DEF Staffed, Seats, Settles, Holding
<1>4. \A u \in Caller : job'[u] \in Holding => mine'[u] \in Conn
  BY DEF Staffed, Seats
<1>5. \A u \in Caller : job'[u] = "publish" => ref'[mine'[u]] \in {"live", "closed"}
  BY <1>1, <1>4 DEF Staffed, Seats, Holding
<1>6. \A u \in Caller : job'[u] \in Vacant => held' = NoConn
  BY DEF Staffed, Seats
<1>7. \A u \in Caller : job'[u] \in LockedJob => held' # NoConn /\ ref'[held'] = "closed"
  BY <1>0, <1>1 DEF Staffed, Seats
<1>8. \A d \in Conn : ref'[d] = "live" =>
         held' = d \/ \E u \in Caller : job'[u] \in Holding /\ mine'[u] = d
  <2> SUFFICES ASSUME NEW d \in Conn, ref'[d] = "live", held # d
               PROVE  \E u \in Caller : job'[u] \in Holding /\ mine'[u] = d
    OBVIOUS
  <2>1. PICK u \in Caller : job[u] \in Holding /\ mine[u] = d
    BY <1>1 DEF Staffed, Seats
  <2> QED BY <2>1
<1> QED BY <1>2, <1>3, <1>4, <1>5, <1>6, <1>7, <1>8 DEF Seats

\* A goroutine that asks for a lock, or that has it, and no other moves.
LEMMA Excludes ==
  ASSUME Staffed, NEW t \in Caller,
         \A u \in Caller \ {t} : job'[u] = job[u],
         job'[t] \in ConnectJob => job[t] \in ConnectJob \/ ConnectMuFree,
         job'[t] \in LockedJob => job[t] \in LockedJob \/ DMuFree
  PROVE  Excluded'
  BY DEF Staffed, Excluded, ConnectMuFree, DMuFree

-----------------------------------------------------------------------------
(* The steps of the daemon. *)

LEMMA NextDTypes ==
  ASSUME Staffed, [DNext]_allvars
  PROVE  DTypes'
<1>0. Typed /\ overlap \in BOOLEAN
  BY DEF Staffed, DTypes
<1>1. ASSUME NEW t \in Caller, NEW j \in Job, To(t, j) PROVE job' \in [Caller -> Job]
  BY <1>0, <1>1 DEF Typed, To
<1>2. ASSUME NEW t \in Caller, Done(t)
      PROVE  job' \in [Caller -> Job] /\ mine' \in [Caller -> Conn \cup {NoConn}]
  BY <1>0, <1>2 DEF Typed, Done, To, Job
<1>3. ASSUME NEW t \in Caller, BeginConnect(t) \/ Replace(t) \/ Replaced(t) \/ LockConnect(t) \/ ReloadConfig(t)
      PROVE  Typed'
  BY <1>0, <1>1, <1>3 DEF Typed, BeginConnect, Replace, Replaced, LockConnect, ReloadConfig, Job, ConnectJob, Config, Process
<1>4. ASSUME NEW t \in Caller, DialServer(t) PROVE Typed'
  <2>1. job' \in [Caller -> Job] /\ mine' \in [Caller -> Conn \cup {NoConn}]
    BY <1>0, <1>1, <1>2, <1>4 DEF Typed, DialServer, Job, ConnectJob
  <2> QED BY <1>0, <1>4, <2>1 DEF Typed, DialServer, Config
<1>5. ASSUME NEW t \in Caller, Dialed(t) \/ SaveConfig(t) \/ Publish(t) PROVE Typed'
  <2>1. job' \in [Caller -> Job] /\ mine' \in [Caller -> Conn \cup {NoConn}]
    BY <1>0, <1>1, <1>2, <1>5 DEF Typed, Dialed, SaveConfig, Publish, Job, ConnectJob
  <2> QED BY <1>0, <1>5, <2>1 DEF Typed, Dialed, SaveConfig, Publish, Config, Process
<1>6. ASSUME NEW t \in Caller, TakeConn(t) \/ DropConn(t) \/ Logout(t) \/ LoggedOut(t) \/ Login(t)
      PROVE  Typed'
  <2>1. job' \in [Caller -> Job] /\ mine' \in [Caller -> Conn \cup {NoConn}]
    BY <1>0, <1>1, <1>2, <1>6 DEF Typed, TakeConn, DropConn, Logout, LoggedOut, Login, Job
  <2> QED BY <1>0, <1>6, <2>1 DEF Typed, TakeConn, DropConn, Logout, LoggedOut, Login, Config, Process
<1>7. ASSUME NEW t \in Caller, Settings(t) \/ ApplySettings(t) \/ Return(t) PROVE Typed'
  <2>1. job' \in [Caller -> Job] /\ mine' \in [Caller -> Conn \cup {NoConn}]
    BY <1>0, <1>1, <1>2, <1>7 DEF Typed, Settings, ApplySettings, Return, Job
  <2> QED BY <1>0, <1>7, <2>1 DEF Typed, Settings, ApplySettings, Return, Config, Process
<1>8. ASSUME NEW t \in Caller, BeginStop(t) \/ StopConn(t) \/ Stopped(t) PROVE Typed'
  <2>1. job' \in [Caller -> Job] /\ mine' \in [Caller -> Conn \cup {NoConn}]
    BY <1>0, <1>1, <1>2, <1>8 DEF Typed, BeginStop, StopConn, Stopped, Job
  <2> QED BY <1>0, <1>8, <2>1 DEF Typed, BeginStop, StopConn, Stopped, Config, Process
<1>9. ASSUME UserSaves \/ Start PROVE Typed'
  <2>1. writes' \in 0 .. MaxWrites /\ starts' \in 0 .. MaxStarts
    BY <1>0, <1>9, DaemonAssumption DEF Typed, UserSaves, Start, Config, Process
  <2> QED BY <1>0, <1>9, <2>1 DEF Typed, UserSaves, Start, Config, Process
<1>10. ASSUME NEW h, Vanish(h) PROVE Typed'
  BY <1>0, <1>10 DEF Typed, Vanish, Config, Job
<1>11. ASSUME UNCHANGED dvars PROVE Typed'
  BY <1>0, <1>11 DEF Typed, dvars
<1>12. Typed'
  <2>1. CASE UNCHANGED allvars
    BY <1>11, <2>1 DEF allvars
  <2>2. CASE \E t \in Thread : Within(t)
    BY <1>11, <2>2 DEF Within
  <2>3. CASE \E t \in Caller : Goroutine(t)
    BY <1>3, <1>4, <1>5, <1>6, <1>7, <1>8, <2>3 DEF Goroutine, DoConnect
  <2>4. CASE \E t \in Caller : Command(t)
    BY <1>3, <1>6, <1>7, <1>8, <2>4 DEF Command
  <2>5. CASE DEnvironment
    <3>1. CASE Exit \/ Reboot
      BY <1>10, <3>1 DEF Exit, Reboot
    <3> QED BY <1>9, <1>11, <2>5, <3>1 DEF DEnvironment
  <2> QED BY <2>1, <2>2, <2>3, <2>4, <2>5 DEF DNext
<1>13. overlap' \in BOOLEAN
  BY <1>0 DEF DNext, Watch, allvars
<1> QED BY <1>12, <1>13 DEF DTypes

LEMMA NextExcluded ==
  ASSUME Staffed, [DNext]_allvars
  PROVE  Excluded'
<1> USE DEF To, Done
<1>0. job \in [Caller -> Job]
  BY DEF Staffed, DTypes, Typed
<1>1. ASSUME NEW t \in Caller, BeginConnect(t) \/ Replace(t) \/ Replaced(t) \/ LockConnect(t) \/ ReloadConfig(t)
      PROVE  Excluded'
  <2>1. CASE BeginConnect(t)
    BY <1>0, <2>1, Excludes DEF BeginConnect, LockedJob, ConnectJob
  <2>2. CASE Replace(t)
    BY <1>0, <2>2, Excludes DEF Replace, LockedJob, ConnectJob
  <2>3. CASE Replaced(t) \/ LockConnect(t) \/ ReloadConfig(t)
    BY <1>0, <2>3, Excludes DEF Replaced, LockConnect, ReloadConfig, LockedJob, ConnectJob
  <2> QED BY <1>1, <2>1, <2>2, <2>3
<1>2. ASSUME NEW t \in Caller, DialServer(t) \/ Dialed(t) \/ Publish(t) \/ SaveConfig(t)
      PROVE  Excluded'
  BY <1>0, <1>2, Excludes DEF DialServer, Dialed, Publish, SaveConfig, LockedJob, ConnectJob
<1>3. ASSUME NEW t \in Caller,
             TakeConn(t) \/ DropConn(t) \/ Logout(t) \/ LoggedOut(t) \/ Login(t) \/ Settings(t)
      PROVE  Excluded'
  <2>1. CASE Logout(t) \/ Login(t)
    BY <1>0, <2>1, Excludes DEF Logout, Login, ConnectJob
  <2> QED BY <1>0, <1>3, <2>1, Excludes
          DEF TakeConn, DropConn, LoggedOut, Settings, LockedJob, ConnectJob
<1>4. ASSUME NEW t \in Caller,
             ApplySettings(t) \/ Return(t) \/ BeginStop(t) \/ StopConn(t) \/ Stopped(t)
      PROVE  Excluded'
  BY <1>0, <1>4, Excludes
  DEF ApplySettings, Return, BeginStop, StopConn, Stopped, LockedJob, ConnectJob
<1>5. ASSUME UNCHANGED job PROVE Excluded'
  BY <1>5 DEF Staffed, Excluded
<1>6. ASSUME NEW h, Vanish(h) PROVE Excluded'
  BY <1>6 DEF Vanish, Excluded, LockedJob, ConnectJob
<1>7. CASE (\E t \in Thread : Within(t)) \/ UNCHANGED allvars
  BY <1>5, <1>7 DEF Within, dvars, allvars
<1>8. CASE \E t \in Caller : Goroutine(t) \/ Command(t)
  BY <1>1, <1>2, <1>3, <1>4, <1>8 DEF Goroutine, DoConnect, Command
<1>9. CASE DEnvironment
  <2>1. CASE Exit \/ Reboot
    BY <1>6, <2>1 DEF Exit, Reboot
  <2> QED BY <1>5, <1>9, <2>1 DEF DEnvironment, UserSaves, Start, dvars
<1> QED BY <1>7, <1>8, <1>9 DEF DNext

-----------------------------------------------------------------------------
(* The seats. *)

\* Steps inside a Connection method.
LEMMA WithinSeats ==
  ASSUME Below, Staffed, NEW t \in Thread, Within(t)
  PROVE  Seats'
<1>0. Onward /\ UNCHANGED <<held, job, mine>>
  BY RunOnward DEF Within, Below, dvars
<1>1. /\ NoConn \notin Conn /\ held \in Conn \cup {NoConn} /\ FieldsOK /\ FieldsOK'
      /\ \A u \in Caller : job[u] \in Holding => mine[u] \in Conn
  <2>1. TInv'
    BY NextType DEF Within, Next, Below
  <2> QED BY <2>1, ConnectionAssumption DEF Staffed, DTypes, Typed, Seats, Below, TInv, TypeOK
<1>2. \A u \in Caller :
         /\ Dials(u)' => job'[u] = "dialing" /\ mine'[u] = arg'[u].conn
         /\ job'[u] = "publish" => ref'[mine'[u]] \in {"live", "closed"}
         /\ job'[u] \in LockedJob => held' # NoConn /\ ref'[held'] = "closed"
  BY <1>0, <1>1 DEF Onward, Staffed, Seats, Holding
<1>3. held' # NoConn => ref'[held'] \in {"live", "closed"}
  BY <1>0, <1>1 DEF Onward, Staffed, Seats
<1>4. ASSUME NEW d \in Conn, ref'[d] = "live"
      PROVE  held' = d \/ \E u \in Caller : job'[u] \in Holding /\ mine'[u] = d
  <2>1. CASE ref[d] = "live"
    BY <1>0, <2>1 DEF Staffed, Seats
  <2>2. CASE \E u \in Caller : Dials(u) /\ arg[u].conn = d
    BY <1>0, <2>2 DEF Staffed, Seats, Holding
  <2> QED BY <1>0, <1>4, <2>1, <2>2 DEF Onward
<1> QED BY <1>0, <1>1, <1>2, <1>3, <1>4 DEF Staffed, Seats

\* Steps that neither touch d.conn nor begin or end a holder's work.
LEMMA SeatedSteps ==
  ASSUME Below, Staffed, NEW t \in Caller,
         \/ BeginConnect(t) \/ Replace(t) \/ LockConnect(t) \/ ReloadConfig(t) \/ SaveConfig(t)
         \/ DropConn(t) \/ Logout(t) \/ Login(t) \/ Settings(t) \/ ApplySettings(t) \/ Return(t)
         \/ BeginStop(t) \/ StopConn(t) \/ Stopped(t)
  PROVE  Seats'
<1> USE DEF To, Done, Holding, Vacant, LockedJob
<1>0. /\ job \in [Caller -> Job] /\ mine \in [Caller -> Conn \cup {NoConn}]
      /\ held \in Conn \cup {NoConn} /\ NoConn \notin Conn /\ TInv
  BY ConnectionAssumption DEF Staffed, DTypes, Typed, Below
<1>1. CASE BeginConnect(t) \/ LockConnect(t) \/ ReloadConfig(t) \/ SaveConfig(t) \/ Return(t)
  BY <1>0, <1>1, StillSettles, Seated DEF BeginConnect, LockConnect, ReloadConfig, SaveConfig, Return, Free
<1>2. CASE Login(t) \/ Settings(t) \/ BeginStop(t)
  BY <1>0, <1>2, StillSettles, Seated DEF Login, Settings, BeginStop, Free
<1>3. CASE Stopped(t)
  <2>1. Settles(NoConn)
    BY <1>3 DEF Stopped, Settles, Dials
  <2> QED BY <1>0, <1>3, <2>1, Seated DEF Stopped
<1>4. CASE Replace(t)
  <2>1. CASE held = NoConn
    BY <1>0, <1>4, <2>1, StillSettles, Seated DEF Replace
  <2>2. CASE held # NoConn /\ Disconnect(t, held)
    BY <1>0, <1>4, <2>2, CallSettles, Seated DEF Replace
  <2>3. CASE held # NoConn /\ ref[held] = "closed" /\ UNCHANGED vars
    BY <1>0, <1>4, <2>3, StillSettles, Seated DEF Replace, vars, control
  <2> QED BY <1>4, <2>1, <2>2, <2>3 DEF Replace
<1>5. CASE Logout(t)
  <2>1. CASE held = NoConn
    BY <1>0, <1>5, <2>1, StillSettles, Seated DEF Logout
  <2>2. CASE held # NoConn
    BY <1>0, <1>5, <2>2, CallSettles, Seated DEF Logout, Free
  <2> QED BY <2>1, <2>2
<1>6. CASE StopConn(t)
  <2>1. CASE held = NoConn
    BY <1>0, <1>6, <2>1, StillSettles, Seated DEF StopConn
  <2>2. CASE held # NoConn
    BY <1>0, <1>6, <2>2, CallSettles, Seated DEF StopConn
  <2> QED BY <2>1, <2>2
<1>7. CASE ApplySettings(t)
  <2>1. CASE held # NoConn /\ CheckConnected(t, held)
    BY <1>0, <1>7, <2>1, CallSettles, Seated DEF ApplySettings
  <2>2. CASE UNCHANGED vars
    BY <1>0, <1>7, <2>2, StillSettles, Seated DEF ApplySettings
  <2> QED BY <1>7, <2>1, <2>2 DEF ApplySettings
<1>8. CASE DropConn(t)
  <2>1. mine[t] \in Conn
    BY <1>8 DEF DropConn, Staffed, Seats
  <2> QED BY <1>0, <1>8, <2>1, CallSettles, Seated DEF DropConn
<1> QED BY <1>1, <1>2, <1>3, <1>4, <1>5, <1>6, <1>7, <1>8

\* d.conn changes hands.
LEMMA HandedOver ==
  ASSUME Below, Staffed, NEW t \in Caller,
         Replaced(t) \/ LoggedOut(t) \/ Publish(t) \/ TakeConn(t)
  PROVE  Seats'
<1> USE DEF To, Done, Holding, Vacant, LockedJob
<1>0. /\ job \in [Caller -> Job] /\ mine \in [Caller -> Conn \cup {NoConn}]
      /\ held \in Conn \cup {NoConn} /\ NoConn \notin Conn
      /\ UNCHANGED <<pc, ret, arg, ref>>
  BY ConnectionAssumption DEF Staffed, DTypes, Typed, Replaced, LoggedOut, Publish, TakeConn, vars
<1>1. /\ \A u \in Caller : Dials(u)' <=> Dials(u)
      /\ \A u \in Caller \ {t} : job'[u] = job[u] /\ mine'[u] = mine[u]
  BY <1>0 DEF Dials, Replaced, LoggedOut, Publish, TakeConn
<1>2. CASE Replaced(t) \/ LoggedOut(t)
  <2>1. /\ held' = NoConn /\ ref[held] = "closed"
        /\ job[t] \in LockedJob /\ job'[t] \in {"reload", "none"}
    BY <1>0, <1>2 DEF Replaced, LoggedOut, Staffed, Seats
  <2>2. \A u \in Caller \ {t} : job[u] \notin LockedJob
    BY <2>1 DEF Staffed, Excluded
  <2> QED BY <1>0, <1>1, <2>1, <2>2 DEF Staffed, Seats
<1>3. CASE Publish(t)
  <2>1. /\ held' = mine[t] /\ held = NoConn /\ job[t] = "publish" /\ job'[t] = "reread"
        /\ mine[t] \in Conn /\ ref[mine[t]] \in {"live", "closed"}
        /\ \A u \in Caller : job[u] \notin LockedJob
    BY <1>0, <1>3 DEF Publish, DMuFree, Staffed, Seats
  <2>2. \A u \in Caller \ {t} : job[u] \notin Vacant
    BY <2>1 DEF Staffed, Excluded, ConnectJob
  <2>3. \A d \in Conn : ref'[d] = "live" =>
           held' = d \/ \E u \in Caller : job'[u] \in Holding /\ mine'[u] = d
    <3> SUFFICES ASSUME NEW d \in Conn, ref'[d] = "live", held' # d
                 PROVE  \E u \in Caller : job'[u] \in Holding /\ mine'[u] = d
      OBVIOUS
    <3>1. PICK u \in Caller : job[u] \in Holding /\ mine[u] = d
      BY <1>0, <2>1 DEF Staffed, Seats
    <3> QED BY <1>1, <2>1, <3>1
  <2> QED BY <1>0, <1>1, <2>1, <2>2, <2>3 DEF Staffed, Seats
<1>4. CASE TakeConn(t)
  <2>1. /\ held' = NoConn /\ held \in Conn /\ mine'[t] = held /\ job[t] = "none" /\ job'[t] = "drop"
        /\ \A u \in Caller : job[u] \notin LockedJob
    BY <1>0, <1>4 DEF TakeConn, Free, DMuFree
  <2>2. \A d \in Conn : ref'[d] = "live" => \E u \in Caller : job'[u] \in Holding /\ mine'[u] = d
    <3> SUFFICES ASSUME NEW d \in Conn, ref'[d] = "live"
                 PROVE  \E u \in Caller : job'[u] \in Holding /\ mine'[u] = d
      OBVIOUS
    <3>1. CASE held = d
      BY <2>1, <3>1
    <3>2. CASE held # d
      <4>1. PICK u \in Caller : job[u] \in Holding /\ mine[u] = d
        BY <1>0, <3>2 DEF Staffed, Seats
      <4> QED BY <1>1, <2>1, <4>1
    <3> QED BY <3>1, <3>2
  <2> QED BY <1>0, <1>1, <2>1, <2>2 DEF Staffed, Seats
<1> QED BY <1>2, <1>3, <1>4

\* A dial begins, or does not.
LEMMA DialServerSeats ==
  ASSUME Below, Staffed, NEW t \in Caller, DialServer(t)
  PROVE  Seats'
<1> USE DEF To, Done, Holding, Vacant, LockedJob
<1>0. /\ job \in [Caller -> Job] /\ mine \in [Caller -> Conn \cup {NoConn}]
      /\ held \in Conn \cup {NoConn} /\ NoConn \notin Conn /\ UNCHANGED held
      /\ job[t] = "dial" /\ TInv /\ LocalsOK /\ FieldsOK /\ Caller \subseteq Thread
      /\ \A u \in Caller \ {t} : job'[u] = job[u] /\ mine'[u] = mine[u]
  BY ConnectionAssumption DEF Staffed, DTypes, Typed, Below, TInv, TypeOK, Thread, DialServer
<1>1. CASE \E c \in Conn :
              /\ Connect(t, c) /\ lastKS'[c] = cfg /\ lastProto'[c] \in Requested
              /\ mine' = [mine EXCEPT ![t] = c] /\ To(t, "dialing")
  <2>1. PICK c \in Conn : Connect(t, c) /\ mine' = [mine EXCEPT ![t] = c] /\ To(t, "dialing")
    BY <1>1
  <2>2. /\ \A u \in Caller \ {t} : pc'[u] = pc[u] /\ ret'[u] = ret[u] /\ arg'[u] = arg[u]
        /\ arg'[t].conn = c /\ ref[c] = "new" /\ ref'[c] = "dialing"
        /\ \A d \in Conn \ {c} : ref'[d] = ref[d]
    BY <1>0, <2>1 DEF Connect, Goto, NoArg, LocalsOK, FieldsOK
  <2>3. \A u \in Caller \ {t} : Dials(u)' <=> Dials(u)
    BY <2>2 DEF Dials
  <2>4. job'[t] = "dialing" /\ mine'[t] = c
    BY <1>0, <2>1
  <2>5. held' # NoConn => ref'[held'] \in {"live", "closed"}
    BY <1>0, <2>2 DEF Staffed, Seats
  <2>6. \A u \in Caller :
           /\ Dials(u)' => job'[u] = "dialing" /\ mine'[u] = arg'[u].conn
           /\ job'[u] \in Holding => mine'[u] \in Conn
           /\ job'[u] = "publish" => ref'[mine'[u]] \in {"live", "closed"}
    BY <1>0, <2>2, <2>3, <2>4 DEF Staffed, Seats
  <2>7. \A u \in Caller :
           /\ job'[u] \in Vacant => held' = NoConn
           /\ job'[u] \in LockedJob => held' # NoConn /\ ref'[held'] = "closed"
    BY <1>0, <2>2, <2>4 DEF Staffed, Seats
  <2>8. \A d \in Conn : ref'[d] = "live" =>
           held' = d \/ \E u \in Caller : job'[u] \in Holding /\ mine'[u] = d
    <3> SUFFICES ASSUME NEW d \in Conn, ref'[d] = "live", held # d
                 PROVE  \E u \in Caller : job'[u] \in Holding /\ mine'[u] = d
      BY <1>0
    <3>1. PICK u \in Caller : job[u] \in Holding /\ mine[u] = d
      BY <1>0, <2>2 DEF Staffed, Seats
    <3> QED BY <1>0, <3>1
  <2> QED BY <2>5, <2>6, <2>7, <2>8 DEF Seats
<1>2. CASE /\ Done(t)
           /\ UNCHANGED <<host, state, slots, memory, control, pc, ret, arg, snap,
                          ref, net, history, shielded>>
  <2>1. Settles(NoConn)
    BY <1>2 DEF Settles, Dials
  <2> QED BY <1>0, <1>2, <2>1, Seated
<1> QED BY <1>1, <1>2 DEF DialServer

LEMMA DialedSeats ==
  ASSUME Below, Staffed, NEW t \in Caller, Dialed(t)
  PROVE  Seats'
<1> USE DEF To, Done, Holding, Vacant, LockedJob
<1>0. /\ job \in [Caller -> Job] /\ mine \in [Caller -> Conn \cup {NoConn}]
      /\ held \in Conn \cup {NoConn} /\ NoConn \notin Conn /\ UNCHANGED held
      /\ job[t] = "dialing" /\ mine[t] \in Conn /\ held = NoConn /\ TInv /\ ~Dials(t)
  BY ConnectionAssumption
  DEF Staffed, DTypes, Typed, Below, Seats, Dialed, Here, Dials, Dialing, TearingDown
<1>1. CASE ref[mine[t]] # "live" /\ Done(t) /\ UNCHANGED vars
  <2>1. Settles(NoConn) /\ ~Dials(t)' /\ ref' = ref
    BY <1>0, <1>1, StillSettles DEF vars, Dials
  <2> QED BY <1>0, <1>1, <2>1, Seated
<1>2. CASE ref[mine[t]] = "live" /\ To(t, "publish") /\ UNCHANGED <<vars, mine>>
  <2>1. UNCHANGED <<pc, ret, arg, ref>> /\ \A u \in Caller : Dials(u)' <=> Dials(u)
    BY <1>2 DEF vars, Dials
  <2>2. \A u \in Caller \ {t} : job'[u] = job[u]
    BY <1>0, <1>2
  <2>3. job'[t] = "publish"
    BY <1>0, <1>2
  <2>4. \A d \in Conn : ref'[d] = "live" =>
           held' = d \/ \E u \in Caller : job'[u] \in Holding /\ mine'[u] = d
    <3> SUFFICES ASSUME NEW d \in Conn, ref'[d] = "live"
                 PROVE  \E u \in Caller : job'[u] \in Holding /\ mine'[u] = d
      OBVIOUS
    <3>1. PICK u \in Caller : job[u] \in Holding /\ mine[u] = d
      BY <1>0, <2>1 DEF Staffed, Seats
    <3> QED BY <1>2, <2>2, <2>3, <3>1
  <2> QED BY <1>0, <1>2, <2>1, <2>2, <2>3, <2>4 DEF Staffed, Seats
<1>3. CASE Disconnect(t, mine[t]) /\ To(t, "refused") /\ UNCHANGED mine
  BY <1>0, <1>3, CallSettles, Seated
<1> QED BY <1>1, <1>2, <1>3 DEF Dialed

LEMMA ProcessSeats ==
  ASSUME Below, Staffed, DEnvironment
  PROVE  Seats'
<1>1. ASSUME UNCHANGED <<pc, ret, arg, ref, held, job, mine>> PROVE Seats'
  BY <1>1 DEF Staffed, Seats, Dials
<1>2. CASE Exit \/ Reboot
  <2>1. Dies
    BY <1>2, DeathDies DEF Below
  <2>2. \A t \in Caller : job'[t] = "none" /\ ~Dials(t)'
    BY <1>2, <2>1 DEF Exit, Reboot, Vanish, Dies, Forget, Dials, Dialing, TearingDown, Thread
  <2>3. held' = NoConn /\ \A c \in Conn : ref'[c] = "new"
    BY <1>2, <2>1 DEF Exit, Reboot, Vanish, Dies, Forget
  <2> QED BY <2>2, <2>3 DEF Seats, Holding, Vacant, LockedJob
<1>3. CASE ~(Exit \/ Reboot)
  BY <1>1, <1>3 DEF DEnvironment, NetworkLost, NetworkBack, TriggerReconnect, CertificateRejected,
     CertificateExpires, UserSaves, Start, dvars, vars
<1> QED BY <1>2, <1>3

LEMMA NextStaffed ==
  ASSUME Below, Staffed, [DNext]_allvars
  PROVE  Staffed'
<1>1. Seats'
  <2>1. CASE \E t \in Thread : Within(t)
    BY <2>1, WithinSeats
  <2>2. CASE \E t \in Caller : Goroutine(t) \/ Command(t)
    BY <2>2, SeatedSteps, HandedOver, DialServerSeats, DialedSeats DEF Goroutine, DoConnect, Command
  <2>3. CASE DEnvironment
    BY <2>3, ProcessSeats
  <2>4. CASE UNCHANGED allvars
    BY <2>4 DEF allvars, vars, dvars, Staffed, Seats, Dials
  <2> QED BY <2>1, <2>2, <2>3, <2>4 DEF DNext
<1> QED BY <1>1, NextDTypes, NextExcluded DEF Staffed

LEMMA InitStaffed == DInit => Below /\ Staffed
<1> SUFFICES ASSUME DInit PROVE Below /\ Staffed
  OBVIOUS
<1>1. Below
  BY InitType, InitRoles, InitKept, InitFields DEF DInit, Below
<1>2. Typed /\ overlap \in BOOLEAN
  <2>1. {cfg, disk, session, shielded} \subseteq BOOLEAN /\ overlap \in BOOLEAN
    BY DEF DInit
  <2>2. writes \in 0 .. MaxWrites /\ starts \in 0 .. MaxStarts
    BY DaemonAssumption DEF DInit
  <2> QED BY <2>1, <2>2 DEF DInit, Typed, Job
<1>3. Excluded
  BY DEF DInit, Excluded, ConnectJob, LockedJob
<1>4. Seats
  <2>1. \A t \in Caller : ~Dials(t)
    BY DEF DInit, Init, Dials, Dialing, TearingDown, Thread
  <2>2. \A c \in Conn : ref[c] = "new"
    BY DEF DInit, Init
  <2> QED BY <2>1, <2>2 DEF DInit, Seats, Holding, Vacant, LockedJob
<1> QED BY <1>1, <1>2, <1>3, <1>4 DEF Staffed, DTypes

LEMMA StaffedInvariant == DSpec => [](Below /\ Staffed)
<1>1. Below /\ Staffed /\ [DNext]_allvars => Below' /\ Staffed'
  BY NextBelow, NextStaffed
<1> QED BY <1>1, InitStaffed, PTL DEF DSpec

\* Every reachable state of the daemon is well typed, and its two mutexes
\* exclude: at most one doConnect at a time, at most one Disconnect under
\* d.mu, and d.conn only ever a connection that was up (doConnect, daemon.go).
THEOREM DaemonTyped == DSpec => []DTypeOK
<1>1. Below /\ Staffed => DTypeOK
  BY DEF Below, TInv, Staffed, DTypes, Typed, Excluded, Seats, DTypeOK
<1> QED BY <1>1, StaffedInvariant, PTL

\* No path through connect, refusal, replacement, disconnect, logout, crash
\* and restart forgets a session: a connection that nobody in the daemon
\* refers to is closed and has given back its kill switch, routes, tunnel and
\* hardener, unless its disconnect raced a reconnect attempt.
THEOREM SessionsAnsweredFor == DSpec => []NoSessionWithoutHolder
<1>1. Below /\ Staffed => NoSessionWithoutHolder
  <2> SUFFICES ASSUME Below, Staffed, NEW c \in Conn,
                      ref[c] # "new", ~Owned(c), pc[c] \in {"idle", "watch"}, ~raced[c]
               PROVE  /\ ref[c] = "closed"
                      /\ state[c] \in {"Disconnected", "Error"}
                      /\ Clear(c)
    BY DEF NoSessionWithoutHolder, Clear
  <2>1. ~Leaving(c)
    BY DEF Leaving, Owned
  <2>2. ref[c] # "dialing"
    BY DEF Below, Fields, DialerThere, Owned
  <2>3. ref[c] # "live"
    BY DEF Staffed, Seats, Owned
  <2>4. ref[c] = "closed"
    BY <2>2, <2>3 DEF Below, TInv, TypeOK, FieldsOK
  <2> QED BY <2>1, <2>4 DEF Below, Fields, ClosedClears
<1> QED BY <1>1, StaffedInvariant, PTL

-----------------------------------------------------------------------------
(* Several connections on one host, the network side.                      *)
(*                                                                         *)
(* Whoever else is at work, what is on the host is some connection's, as   *)
(* long as no call raced with a reconnect (Calm); the resolver file, which *)
(* is one for all, needs the daemon to keep the sessions apart as well     *)
(* (Overlap).                                                              *)

Calm == \A c \in Conn : ~raced[c]

\* What a goroutine's place says of its connection's device.
DeviceAt(t) ==
    LET c == arg[t].conn
    IN  /\ pc[t] \in Down => tun[c] = NoLink
        /\ pc[t] \in DialMid => tun[c] # NoLink
        /\ pc[t] \in Undoing => tun[c] \in {NoLink, snap[t].tun}

Devices == \A t \in Thread : pc[t] # "idle" => DeviceAt(t)

\* The device that is up, the rules and the route are some connection's.
Linked == host.link # NoLink => \E c \in Conn : tun[c] = host.link
Routed ==
    /\ host.rules => \E c \in Conn : routes[c]
    /\ host.route # NoLink => host.rules

\* The backup is the host's own resolver file while there is one ...
Saves ==
    \/ host.resolv = "host" /\ host.backup = "none"
    \/ host.resolv = "vpn" /\ host.backup = "host"

\* ... and some connection is still to put it back.
Takes(c) == tun[c] # NoLink /\ \A t \in Thread : arg[t].conn = c => pc[t] \notin Bare
Taken == Saves /\ (host.resolv = "vpn" => \E c \in Conn : Takes(c))

\* What a step owes to them.
Network ==
    /\ Devices'
    /\ Linked => Linked'
    /\ Routed => Routed'
    /\ ~Overlap /\ Taken => Taken'

\* Beside a dial there is at most a toggle on the same connection.
LEMMA BesideDial ==
  ASSUME TInv, Roles, Fields, Calm, NEW t \in Thread, pc[t] \in Dialing,
         NEW u \in Thread \ {t}, pc[u] # "idle", arg[u].conn = arg[t].conn
  PROVE  pc[u] = "toggle" /\ u \in Caller
<1>1. /\ arg[t].conn \in Conn
      /\ t \in Caller => ref[arg[t].conn] = "dialing"
      /\ t \in Conn => arg[t].conn = t
      /\ \A v \in Caller \ {t} : arg[v].conn = arg[t].conn => ~Dials(v) /\ ~Disconnects(v)
  BY DialAlone DEF Calm
<1>2. u \notin Conn
  <2>1. u \in Conn => arg[u].conn = u
    BY DEF TInv, TargetOK
  <2> QED BY <1>1, <2>1 DEF Roles, OneDialer, Thread
<1>3. u \in Caller
  BY <1>2 DEF Thread
<1> QED BY <1>1, <1>3 DEF Roles, CallerRole, Dials, Disconnects

\* The network side of the host and of the connections' fields.
NetStill ==
    /\ UNCHANGED <<tun, routes>>
    /\ host'.link = host.link /\ host'.rules = host.rules /\ host'.route = host.route
    /\ host'.resolv = host.resolv /\ host'.backup = host.backup

\* A goroutine that goes where the device allows.
Follows(u) ==
    LET c    == arg'[u].conn
        same == arg'[u].conn = arg[u].conn
    IN  /\ pc'[u] \in Down => tun[c] = NoLink \/ (pc[u] \in Down /\ same)
        /\ pc'[u] \in DialMid => pc[u] \in DialMid /\ same
        /\ pc'[u] \in Undoing =>
              \/ tun[c] \in {NoLink, snap'[u].tun}
              \/ pc[u] \in Undoing /\ same /\ snap'[u].tun = snap[u].tun
        /\ pc'[u] \in Bare => tun[c] = NoLink \/ (pc[u] \in Bare /\ same)

LEMMA PlacesBusy ==
  /\ DialMid \subseteq Dialing /\ DialMid \cap (Down \cup Undoing) = {}
  /\ {"idle", "toggle", "watch", "wake", "reconnect", "teardown", "disconnect", "fallback"}
        \cap (Undoing \cup Bare \cup DialMid \cup Dialing) = {}
  /\ {"idle", "toggle", "watch", "wake", "reconnect", "teardown", "disconnect"} \cap Down = {}
  /\ "idle" \notin Down \cup DialMid \cup Undoing \cup Bare
  BY DEF DialMid, Dialing, Down, Undoing, Bare, TearingDown, Waiting

LEMMA StillNetwork ==
  ASSUME Devices, NetStill, \A u \in Thread : Follows(u)
  PROVE  Network
<1>1. ASSUME NEW u \in Thread, pc'[u] # "idle" PROVE DeviceAt(u)'
  BY <1>1, PlacesBusy DEF Devices, DeviceAt, NetStill, Follows
<1>2. ASSUME NEW c \in Conn, Takes(c) PROVE Takes(c)'
  BY <1>2 DEF Takes, NetStill, Follows
<1>3. (Linked => Linked') /\ (Routed => Routed')
  BY DEF Linked, Routed, NetStill
<1>4. Taken => Taken'
  BY <1>2 DEF Taken, Saves, NetStill
<1> QED BY <1>1, <1>3, <1>4 DEF Devices, Network

\* A goroutine that stays where it was.
LEMMA StaysFollows ==
  ASSUME NEW u \in Thread, pc'[u] = pc[u], arg'[u].conn = arg[u].conn, snap'[u] = snap[u]
  PROVE  Follows(u)
  BY DEF Follows

\* The steps of a dial that concern neither device, routes nor resolver.
LEMMA QuietDialNetwork ==
  ASSUME TInv, Roles, Devices, NEW t \in Thread,
         \/ ShieldDown(t) \/ ApplyRules(t) \/ SeedAPIs(t) \/ HardenHost(t) \/ WaitLocalAgent(t)
         \/ PersistBootState(t) \/ Connected(t)
  PROVE  Network
<1>0. DialMove(t) /\ host \in HostState
  BY DialMoves DEF TInv, TypeOK
<1>1. NetStill
  <2>1. CASE ShieldDown(t) \/ ApplyRules(t)
    BY <1>0, <2>1 DEF ShieldDown, ApplyRules, StepFails, ShieldOff, ShieldOn, HostState, NetStill, slots
  <2>2. CASE SeedAPIs(t) \/ PersistBootState(t)
    BY <1>0, <2>2 DEF SeedAPIs, PersistBootState, StepFails, WriteFlag, HostState, NetStill, slots
  <2>3. CASE HardenHost(t) \/ WaitLocalAgent(t) \/ Connected(t)
    BY <1>0, <2>3 DEF HardenHost, WaitLocalAgent, Connected, Harden, HostState, NetStill, slots
  <2> QED BY <2>1, <2>2, <2>3
<1>2. \/ pc[t] \in {"shield", "apply", "seed", "harden"} /\ pc'[t] \in {"apply", "seed", "harden", "tunnel", "teardown"}
      \/ pc[t] = "agent" /\ pc'[t] \in {"dns", "teardown"}
      \/ pc[t] \in {"persist", "connected"} /\ pc'[t] \in {"connected", "remonitor", "teardown"}
  BY DialLabels DEF Goes
<1>3. Follows(t)
  BY <1>0, <1>2 DEF DialMove, Follows, Down, DialMid, Undoing, Bare, TearingDown, Waiting
<1>4. \A u \in Thread : Follows(u)
  BY <1>0, <1>3, StaysFollows DEF DialMove, Alone
<1> QED BY <1>1, <1>4, StillNetwork

\* Devices of the others, when only t's connection changes.
LEMMA DialDevices ==
  ASSUME TInv, Roles, Fields, Calm, Devices, NEW t \in Thread, DialMove(t), DeviceAt(t)'
  PROVE  Devices'
<1> SUFFICES ASSUME NEW u \in Thread \ {t}, pc'[u] # "idle" PROVE DeviceAt(u)'
  BY DEF Devices
<1>1. /\ pc'[u] = pc[u] /\ arg'[u] = arg[u] /\ snap'[u] = snap[u] /\ pc[u] # "idle"
      /\ pc[t] \in Dialing /\ Apart(arg[t].conn) /\ arg[u].conn \in Conn
  BY DEF DialMove, Alone, TInv, TargetOK
<1>2. CASE arg[u].conn = arg[t].conn
  BY <1>1, <1>2, BesideDial, PlacesBusy DEF DeviceAt
<1>3. CASE arg[u].conn # arg[t].conn
  BY <1>1, <1>3 DEF Apart, Devices, DeviceAt
<1> QED BY <1>2, <1>3

LEMMA TunnelNetwork ==
  ASSUME TInv, Roles, Fields, Calm, Devices, NEW t \in Thread, BringUpTunnel(t)
  PROVE  Network
<1> DEFINE c == arg[t].conn
           base == IF arg[t].proto = "wireguard" THEN LinkDel(host) ELSE host
<1>0. /\ DialMove(t) /\ host \in HostState /\ LocalsOK /\ FieldsOK /\ Target(t) = c /\ c \in Conn
      /\ NoLink \notin IfIndex /\ pc[t] = "tunnel" /\ routes' = routes /\ tun[c] = NoLink
  BY DialMoves, HostNetAssumption
  DEF TInv, TypeOK, TargetOK, Target, BringUpTunnel, Devices, DeviceAt, Down, NoLink
<1>1. /\ base \in HostState /\ base.link \in {host.link, NoLink} /\ base.rules = host.rules
      /\ base.route \in {host.route, NoLink}
      /\ base.resolv = host.resolv /\ base.backup = host.backup
  <2>1. LinkDel(host) \in HostState
    BY <1>0, HostOps
  <2>2. /\ LinkDel(host).link = NoLink /\ LinkDel(host).rules = host.rules
        /\ LinkDel(host).route \in {host.route, NoLink}
        /\ LinkDel(host).resolv = host.resolv /\ LinkDel(host).backup = host.backup
    BY <1>0 DEF LinkDel, HostState
  <2> QED BY <1>0, <2>1, <2>2
<1> HIDE DEF base
<1>2. CASE \E i \in IfIndex : /\ host' = LinkAdd(base, i) /\ tun' = [tun EXCEPT ![c] = i]
                              /\ Goto(t, "routes")
  <2>1. PICK i \in IfIndex : /\ host' = LinkAdd(base, i) /\ tun' = [tun EXCEPT ![c] = i]
                             /\ Goto(t, "routes")
    BY <1>2
  <2>2. /\ host'.link = i /\ host'.rules = base.rules /\ host'.route = base.route
        /\ host'.resolv = base.resolv /\ host'.backup = base.backup
    BY <1>1, <2>1 DEF LinkAdd, HostState
  <2>3. /\ tun'[c] = i /\ i # NoLink /\ \A d \in Conn \ {c} : tun'[d] = tun[d]
        /\ pc'[t] = "routes"
    BY <1>0, <2>1 DEF FieldsOK, LocalsOK, Goto
  <2>4. DeviceAt(t)' /\ arg'[t].conn = c
    BY <1>0, <2>3 DEF DeviceAt, DialMove, Down, DialMid, Undoing, TearingDown, Waiting
  <2>5. Linked' /\ (Routed => Routed')
    BY <1>0, <1>1, <2>2, <2>3 DEF Linked, Routed
  <2>6. ASSUME NEW d \in Conn, Takes(d) PROVE Takes(d)'
    <3>1. d # c
      BY <1>0, <2>6 DEF Takes
    <3> QED BY <1>0, <2>3, <2>4, <2>6, <3>1 DEF Takes, DialMove, Alone
  <2>7. Taken => Taken'
    BY <1>1, <2>2, <2>6 DEF Taken, Saves
  <2> QED BY <1>0, <2>4, <2>5, <2>7, DialDevices DEF Network
<1>3. CASE host' = base /\ ConnectError(t) /\ UNCHANGED tun
  <2>1. pc'[t] = "teardown" /\ arg'[t].conn = c
    BY <1>0, <1>3 DEF ConnectError, CallTeardown, Goto, LocalsOK, DialMove
  <2>2. DeviceAt(t)'
    BY <2>1, PlacesBusy DEF DeviceAt
  <2>3. (Linked => Linked') /\ (Routed => Routed')
    BY <1>0, <1>1, <1>3 DEF Linked, Routed
  <2>4. ASSUME NEW d \in Conn, Takes(d) PROVE Takes(d)'
    BY <1>0, <1>3, <2>1, <2>4, PlacesBusy DEF Takes, DialMove, Alone
  <2>5. Taken => Taken'
    BY <1>1, <1>3, <2>4 DEF Taken, Saves
  <2> QED BY <1>0, <2>2, <2>3, <2>5, DialDevices DEF Network
<1> QED
  <2>1. \/ \E i \in IfIndex : host' = LinkAdd(base, i) /\ tun' = [tun EXCEPT ![c] = i] /\ Goto(t, "routes")
        \/ host' = base /\ ConnectError(t) /\ UNCHANGED tun
    BY <1>0 DEF BringUpTunnel, base
  <2> QED BY <1>2, <1>3, <2>1

LEMMA RoutesNetwork ==
  ASSUME TInv, Roles, Fields, Calm, Devices, NEW t \in Thread, SetUpRoutes(t)
  PROVE  Network
<1> DEFINE c == arg[t].conn
<1>0. /\ DialMove(t) /\ host \in HostState /\ LocalsOK /\ FieldsOK /\ Target(t) = c /\ c \in Conn
      /\ pc[t] = "routes" /\ pc'[t] \in {"agent", "teardown"} /\ tun' = tun /\ tun[c] # NoLink
  BY DialMoves, DialLabels
  DEF TInv, TypeOK, TargetOK, Target, SetUpRoutes, Goes, Devices, DeviceAt, DialMid
<1>1. /\ host'.link = host.link /\ host'.resolv = host.resolv /\ host'.backup = host.backup
  BY <1>0 DEF SetUpRoutes, RoutesOn, RoutesOff, HostState
<1>2. \/ host'.rules /\ routes'[c]
      \/ ~host'.rules /\ host'.route = NoLink
  <2>1. CASE host' = RoutesOn(host, arg[t].link) /\ routes' = [routes EXCEPT ![c] = TRUE]
    BY <1>0, <2>1 DEF RoutesOn, HostState, FieldsOK
  <2>2. CASE host' = RoutesOff(host)
    BY <1>0, <2>2 DEF RoutesOff, HostState
  <2> QED BY <1>0, <2>1, <2>2 DEF SetUpRoutes
<1>3. DeviceAt(t)'
  BY <1>0 DEF DeviceAt, DialMove, Down, DialMid, Undoing, TearingDown, Waiting
<1>4. ASSUME NEW d \in Conn, Takes(d) PROVE Takes(d)'
  <2>1. d # c
    BY <1>0, <1>4 DEF Takes, Bare
  <2> QED BY <1>0, <1>4, <2>1 DEF Takes, DialMove, Alone
<1>5. (Linked => Linked') /\ (Routed => Routed') /\ (Taken => Taken')
  BY <1>0, <1>1, <1>2, <1>4 DEF Linked, Routed, Taken, Saves
<1> QED BY <1>0, <1>3, <1>5, DialDevices DEF Network

\* While a dial is at work no other connection has a session to put the
\* resolver back for: the daemon keeps them apart.
LEMMA DialHasResolver ==
  ASSUME TInv, Roles, Fields, Calm, ~Overlap, NEW t \in Thread, pc[t] \in Dialing,
         NEW d \in Conn, tun[d] # NoLink
  PROVE  d = arg[t].conn
<1> DEFINE c == arg[t].conn
<1>1. c \in Conn /\ ref[c] \in {"dialing", "live"}
  BY DialAlone DEF Calm, TInv, TypeOK, FieldsOK
<1>2. SUFFICES ASSUME d # c PROVE FALSE
  OBVIOUS
<1>3. ref[d] \notin {"dialing", "live"}
  BY <1>2 DEF Overlap, AtWork
<1>4. ref[d] = "closed"
  BY <1>3 DEF Fields, Fresh, Clear, TInv, TypeOK, FieldsOK
<1>5. PICK u \in Caller : Disconnects(u) /\ arg[u].conn = d
  BY <1>4 DEF Fields, ClosedClears, Leaving, Clear, Calm
<1>6. AtWork(u)
  BY <1>5 DEF Disconnects, AtWork
<1> QED BY <1>1, <1>2, <1>5, <1>6 DEF Overlap, Thread

LEMMA ResolverNetwork ==
  ASSUME TInv, Roles, Fields, Calm, Devices, NEW t \in Thread, TakeOverDNS(t)
  PROVE  Network
<1> PICK c \in Conn : arg[t].conn = c
  BY DEF TakeOverDNS, TInv, TargetOK
<1>0. /\ DialMove(t) /\ host \in HostState /\ LocalsOK /\ UNCHANGED <<tun, routes>>
      /\ pc[t] = "dns" /\ pc'[t] \in {"persist", "teardown"} /\ tun[c] # NoLink
  BY DialMoves, DialLabels
  DEF TInv, TypeOK, TargetOK, TakeOverDNS, slots, Goes, Devices, DeviceAt, DialMid
<1>1. /\ host'.link = host.link /\ host'.rules = host.rules /\ host'.route = host.route
      /\ \/ host'.resolv = "vpn" /\ host'.backup = host.resolv /\ pc'[t] = "persist"
         \/ host' = host /\ pc'[t] = "teardown"
  BY <1>0 DEF TakeOverDNS, DNSOn, StepFails, ConnectError, CallTeardown, Advance, Goto, HostState, LocalsOK
<1>2. DeviceAt(t)'
  BY <1>0 DEF DeviceAt, DialMove, Down, DialMid, Undoing, TearingDown, Waiting
<1>3. (Linked => Linked') /\ (Routed => Routed')
  BY <1>0, <1>1 DEF Linked, Routed
<1>4. \A d \in Conn : Takes(d) => d # c
  BY <1>0 DEF Takes, Bare
<1>5. ~Overlap /\ Taken => host.resolv = "host" /\ host.backup = "none"
  <2>1. pc[t] \in Dialing
    BY <1>0 DEF DialMove
  <2> QED BY <1>4, <2>1, DialHasResolver DEF Taken, Takes, Saves
<1>6. Takes(c)'
  <2>1. pc'[t] \notin Bare
    BY <1>0 DEF Bare
  <2>2. ASSUME NEW u \in Thread \ {t}, arg'[u].conn = c, pc'[u] \in Bare PROVE FALSE
    <3>1. pc[u] = pc'[u] /\ arg[u].conn = c /\ pc[u] # "idle" /\ pc[t] \in Dialing
      BY <1>0, <2>2, PlacesBusy DEF DialMove, Alone
    <3> QED BY <2>2, <3>1, BesideDial, PlacesBusy
  <2> QED BY <1>0, <2>1, <2>2 DEF Takes
<1>7. ~Overlap /\ Taken => Taken'
  BY <1>0, <1>1, <1>5, <1>6 DEF Taken, Saves
<1> QED BY <1>0, <1>2, <1>3, <1>7, DialDevices DEF Network

\* Devices of the others, when t undoes part of its connection.
LEMMA UndoDevices ==
  ASSUME TInv, Roles, Fields, Calm, Devices, NEW t \in Thread, UndoMove(t), DeviceAt(t)'
  PROVE  Devices'
<1> SUFFICES ASSUME NEW u \in Thread \ {t}, pc'[u] # "idle" PROVE DeviceAt(u)'
  BY DEF Devices
<1>1. /\ pc'[u] = pc[u] /\ arg'[u] = arg[u] /\ snap'[u] = snap[u] /\ pc[u] # "idle"
      /\ pc[t] \in TearingDown /\ Apart(arg[t].conn) /\ Shrinks(arg[t].conn) /\ arg[u].conn \in Conn
  BY DEF UndoMove, Alone, TInv, TargetOK
<1>2. CASE arg[u].conn = arg[t].conn
  <2>1. pc[u] \notin Dialing
    BY <1>1, <1>2, BesideDial DEF TearingDown
  <2> QED BY <1>1, <1>2, <2>1, PlacesBusy DEF Devices, DeviceAt, Shrinks
<1>3. CASE arg[u].conn # arg[t].conn
  BY <1>1, <1>3 DEF Apart, Devices, DeviceAt
<1> QED BY <1>2, <1>3

LEMMA UndoNetwork ==
  ASSUME TInv, Roles, Fields, Calm, Devices, NEW t \in Thread,
         TearDown(t) \/ DropShield(t) \/ GiveBackDNS(t) \/ DropRoutes(t) \/ DropTunnel(t)
  PROVE  Network
<1> DEFINE c == arg[t].conn
<1>0. /\ UndoMove(t) /\ host \in HostState /\ LocalsOK /\ FieldsOK /\ Target(t) = c /\ c \in Conn
      /\ DeviceAt(t) /\ Alone(t) /\ arg'[t] = arg[t]
  BY UndoMoves
  DEF TInv, TypeOK, TargetOK, Target, UndoMove, Devices, TearingDown
<1>1. CASE TearDown(t)
  <2>1. /\ host' = host /\ tun' = tun /\ routes' = routes /\ pc'[t] = "tdShield"
        /\ snap'[t].tun = tun[c]
    BY <1>0, <1>1 DEF TearDown, Goto, LocalsOK
  <2>2. DeviceAt(t)'
    BY <1>0, <2>1 DEF DeviceAt, Down, DialMid, Waiting
  <2>3. \A d \in Conn : Takes(d) => Takes(d)'
    BY <1>0, <2>1 DEF Takes, Alone, Bare
  <2> QED BY <1>0, <2>1, <2>2, <2>3, UndoDevices DEF Network, Linked, Routed, Taken, Saves
<1>2. CASE DropShield(t)
  <2>1. /\ NetStill /\ pc[t] = "tdShield" /\ pc'[t] = "tdDNS" /\ snap' = snap
    BY <1>0, <1>2 DEF DropShield, ShieldOff, Advance, Goto, HostState, LocalsOK, NetStill
  <2>2. DeviceAt(t)'
    BY <1>0, <2>1 DEF DeviceAt, Down, DialMid, Waiting, NetStill, Undoing, TearingDown
  <2>3. \A d \in Conn : Takes(d) => Takes(d)'
    BY <1>0, <2>1 DEF Takes, Alone, Bare, NetStill
  <2> QED BY <1>0, <2>1, <2>2, <2>3, UndoDevices DEF Network, Linked, Routed, Taken, Saves, NetStill
<1>3. CASE GiveBackDNS(t)
  <2>1. /\ host'.link = host.link /\ host'.rules = host.rules /\ host'.route = host.route
        /\ tun' = tun /\ routes' = routes /\ pc[t] = "tdDNS" /\ pc'[t] = "tdRoutes" /\ snap' = snap
    BY <1>0, <1>3 DEF GiveBackDNS, DNSOff, Advance, Goto, slots, HostState, LocalsOK
  <2>2. DeviceAt(t)'
    BY <1>0, <2>1 DEF DeviceAt, Down, DialMid, Waiting, Undoing, TearingDown
  <2>3. (Linked => Linked') /\ (Routed => Routed')
    BY <2>1 DEF Linked, Routed
  <2>4. Taken => Taken'
    <3>1. CASE RevertsDNS(t)
      <4>1. Saves => host'.resolv = "host" /\ host'.backup = "none"
        BY <1>0, <1>3, <3>1 DEF GiveBackDNS, DNSOff, HostState, Saves
      <4> QED BY <4>1 DEF Taken, Saves
    <3>2. CASE ~RevertsDNS(t)
      <4>1. tun[c] = NoLink /\ host' = host
        BY <1>0, <1>3, <2>1, <3>2 DEF RevertsDNS, GiveBackDNS, DeviceAt, Undoing, TearingDown
      <4>2. ASSUME NEW d \in Conn, Takes(d) PROVE Takes(d)'
        <5>1. d # c
          BY <4>1, <4>2 DEF Takes
        <5> QED BY <1>0, <2>1, <4>2, <5>1 DEF Takes, Alone
      <4> QED BY <4>1, <4>2 DEF Taken, Saves
    <3> QED BY <3>1, <3>2
  <2> QED BY <1>0, <2>2, <2>3, <2>4, UndoDevices DEF Network
<1>4. CASE DropRoutes(t)
  <2>1. /\ host'.link = host.link /\ host'.resolv = host.resolv /\ host'.backup = host.backup
        /\ tun' = tun /\ pc[t] = "tdRoutes" /\ pc'[t] = "tdTunnel" /\ snap'[t].tun = snap[t].tun
    BY <1>0, <1>4 DEF DropRoutes, RoutesOff, Undone, Goto, HostState, LocalsOK, Snap
  <2>2. \/ ~host'.rules /\ host'.route = NoLink
        \/ host' = host /\ routes' = routes
    BY <1>0, <1>4 DEF DropRoutes, RoutesOff, HostState
  <2>3. DeviceAt(t)'
    BY <1>0, <2>1 DEF DeviceAt, Down, DialMid, Waiting, Undoing, TearingDown
  <2>4. (Linked => Linked') /\ (Routed => Routed')
    BY <2>1, <2>2 DEF Linked, Routed
  <2>5. ASSUME NEW d \in Conn, Takes(d) PROVE Takes(d)'
    <3>1. d # c
      BY <1>0, <2>1, <2>5 DEF Takes, Bare
    <3> QED BY <1>0, <2>1, <2>5, <3>1 DEF Takes, Alone
  <2>6. Taken => Taken'
    BY <2>1, <2>5 DEF Taken, Saves
  <2> QED BY <1>0, <2>3, <2>4, <2>6, UndoDevices DEF Network
<1>5. CASE DropTunnel(t)
  <2>1. /\ host'.resolv = host.resolv /\ host'.backup = host.backup
        /\ host'.rules = host.rules /\ host'.route \in {host.route, NoLink}
        /\ routes' = routes /\ pc[t] = "tdTunnel" /\ pc'[t] = "tdSysctl"
    BY <1>0, <1>5 DEF DropTunnel, LinkDrop, LinkDel, Undone, Goto, HostState, LocalsOK
  <2>2. tun[c] \in {NoLink, snap[t].tun}
    BY <1>0, <2>1 DEF DeviceAt, Undoing, TearingDown
  <2>3. /\ tun'[c] = NoLink /\ \A d \in Conn \ {c} : tun'[d] = tun[d]
        /\ host'.link \in {host.link, NoLink}
        /\ host'.link = NoLink \/ tun[c] # host.link
    <3>1. CASE snap[t].tun = NoLink
      BY <1>0, <1>5, <2>2, <3>1 DEF DropTunnel
    <3>2. CASE snap[t].tun # NoLink
      <4>1. host' = LinkDrop(host, snap[t].tun) /\ tun' = [tun EXCEPT ![c] = NoLink]
        BY <1>0, <1>5, <3>2 DEF DropTunnel
      <4>2. tun'[c] = NoLink /\ \A d \in Conn \ {c} : tun'[d] = tun[d]
        BY <1>0, <4>1 DEF FieldsOK
      <4>3. /\ host'.link \in {host.link, NoLink}
            /\ host'.link = NoLink \/ snap[t].tun # host.link
        BY <1>0, <4>1 DEF LinkDrop, LinkDel, HostState
      <4> QED BY <2>2, <4>2, <4>3
    <3> QED BY <3>1, <3>2
  <2>4. DeviceAt(t)'
    BY <1>0, <2>1, <2>3, PlacesBusy DEF DeviceAt, Down, DialMid
  <2>5. (Linked => Linked') /\ (Routed => Routed')
    BY <2>1, <2>3 DEF Linked, Routed
  <2>6. ASSUME NEW d \in Conn, Takes(d) PROVE Takes(d)'
    <3>1. d # c
      BY <1>0, <2>1, <2>6 DEF Takes, Bare
    <3> QED BY <1>0, <2>1, <2>3, <2>6, <3>1 DEF Takes, Alone
  <2>7. Taken => Taken'
    BY <2>1, <2>6 DEF Taken, Saves
  <2> QED BY <1>0, <2>4, <2>5, <2>7, UndoDevices DEF Network
<1> QED BY <1>1, <1>2, <1>3, <1>4, <1>5

-----------------------------------------------------------------------------
(* The steps that work neither on the network nor on the table. *)

\* Places of a goroutine that is not at work on the host, and those a monitor
\* or a smart connect takes when its teardown is over.
Resting == {"idle", "toggle", "watch", "wake", "reconnect", "teardown", "disconnect"}
Back    == {"shield", "loop", "waitnet", "attempt", "fallback"} \cup Waiting

\* How a goroutine moves when nobody touches network or table.
Strolls(u) ==
    \/ pc'[u] = pc[u] /\ arg'[u] = arg[u] /\ snap'[u] = snap[u]
    \/ pc[u] \notin Dialing \ {"remonitor"} /\ pc'[u] \in Resting
    \/ /\ pc[u] \notin Dialing /\ pc'[u] \in Back
       /\ arg'[u].conn \in Conn /\ tun[arg'[u].conn] = NoLink

Steady ==
    /\ NetStill
    /\ host'.table = host.table /\ host'.flag = host.flag
    /\ UNCHANGED <<ks, enabled>>
    /\ \A c \in Conn : ref'[c] = "live" => ref[c] = "live" \/ \E t \in Thread : pc[t] = "remonitor"
    /\ \A u \in Thread : Strolls(u)

LEMMA HostSteady ==
  ASSUME UNCHANGED <<host, tun, routes, ks, enabled>>
  PROVE  /\ NetStill
         /\ host'.table = host.table /\ host'.flag = host.flag
         /\ UNCHANGED <<ks, enabled>>
  BY DEF NetStill

\* Which steps are such.
LEMMA CallsSteady ==
  ASSUME TInv, Roles, Fields, NEW t \in Caller, NEW c \in Conn, Call(t, c)
  PROVE  Steady
<1>0. LocalsOK /\ FieldsOK /\ t \in Thread /\ NoArg.conn = NoConn
  BY DEF TInv, TypeOK, Thread, NoArg
<1>1. UNCHANGED <<host, tun, routes, ks, enabled>>
  BY DEF Call, Connect, Disconnect, CheckConnected, slots, history
<1>2. \A d \in Conn : ref'[d] = "live" => ref[d] = "live"
  <2>1. Connect(t, c) => ref' = [ref EXCEPT ![c] = "dialing"]
    BY DEF Connect
  <2>2. Disconnect(t, c) => ref' = [ref EXCEPT ![c] = "closed"]
    BY DEF Disconnect
  <2>3. CheckConnected(t, c) => ref' = ref
    BY DEF CheckConnected
  <2> QED BY <1>0, <2>1, <2>2, <2>3 DEF Call, FieldsOK
<1>3. /\ \A u \in Thread \ {t} : pc'[u] = pc[u] /\ arg'[u] = arg[u] /\ snap'[u] = snap[u]
      /\ pc[t] = "idle"
  BY <1>0 DEF Call, Connect, Disconnect, CheckConnected, Goto, LocalsOK
<1>4. Strolls(t)
  <2>1. CASE Connect(t, c)
    <3>1. pc'[t] = "shield" /\ arg'[t].conn = c
      BY <1>0, <2>1 DEF Connect, Goto, LocalsOK, NoArg
    <3>2. tun[c] = NoLink
      BY <2>1 DEF Connect, Fields, Fresh, Clear
    <3> QED BY <1>3, <3>1, <3>2 DEF Strolls, Back, Dialing
  <2>2. CASE Disconnect(t, c) \/ CheckConnected(t, c)
    <3>1. pc'[t] \in {"disconnect", "toggle"}
      BY <1>0, <2>2 DEF Disconnect, CheckConnected, Goto, LocalsOK
    <3> QED BY <1>3, <3>1 DEF Strolls, Resting, Dialing
  <2> QED BY <2>1, <2>2 DEF Call
<1> QED BY <1>1, <1>2, <1>3, <1>4, HostSteady DEF Steady, Strolls

LEMMA StartMonitorSteady ==
  ASSUME TInv, Roles, NEW t \in Thread, StartMonitor(t)
  PROVE  Steady
<1> PICK c \in Conn : arg[t].conn = c
  BY DEF StartMonitor, TInv, TargetOK
<1>0. LocalsOK /\ FieldsOK /\ c \in Thread /\ pc[t] = "remonitor" /\ Target(t) = c
  BY DEF TInv, TypeOK, Thread, StartMonitor, Target
<1>1. UNCHANGED <<host, tun, routes, ks, enabled>>
  BY DEF StartMonitor, slots, history
<1>2. \A d \in Conn : ref'[d] = "live" => ref[d] = "live" \/ \E u \in Thread : pc[u] = "remonitor"
  BY <1>0
<1>3. pc[c] \in {"idle", "remonitor"}
  <2>1. CASE t \in Conn
    BY <1>0, <2>1 DEF TInv, TargetOK
  <2>2. CASE t \in Caller
    BY <1>0, <2>2 DEF Roles, OneDialer, Dials, Dialing
  <2> QED BY <2>1, <2>2 DEF Thread
<1>4. /\ \A u \in Thread \ {t, c} : pc'[u] = pc[u] /\ arg'[u] = arg[u] /\ snap'[u] = snap[u]
      /\ pc'[c] \in {"idle", "watch"} /\ pc'[t] \in {"idle", "watch"}
  BY <1>0 DEF StartMonitor, LocalsOK
<1>5. \A u \in {t, c} : Strolls(u)
  BY <1>0, <1>3, <1>4 DEF Strolls, Resting, Dialing
<1> QED BY <1>0, <1>1, <1>2, <1>4, <1>5, HostSteady DEF Steady, Strolls

LEMMA ReturnsSteady ==
  ASSUME TInv, Roles, Devices, NEW t \in Thread, RelaxHost(t)
  PROVE  Steady
<1> PICK c \in Conn : arg[t].conn = c
  BY DEF RelaxHost, TInv, TargetOK
<1>0. /\ LocalsOK /\ FieldsOK /\ host \in HostState /\ pc[t] = "tdSysctl" /\ Target(t) = c
      /\ tun[c] = NoLink
  BY DEF TInv, TypeOK, RelaxHost, Target, Devices, DeviceAt, Down
<1>1. /\ NetStill /\ host'.table = host.table /\ host'.flag = host.flag
      /\ UNCHANGED <<ks, enabled>>
  BY <1>0 DEF RelaxHost, Relax, slots, history, HostState, NetStill
<1>2. ReturnToConnect(t) \/ ReturnToReconnect(t) \/ ReturnToEnd(t)
  BY DEF RelaxHost
<1>3. \A d \in Conn : ref'[d] = "live" => ref[d] = "live"
  BY <1>0, <1>2 DEF ReturnToConnect, ReturnToReconnect, ReturnToEnd, FieldsOK
<1>4. /\ \A u \in Thread \ {t} : pc'[u] = pc[u] /\ arg'[u] = arg[u] /\ snap'[u] = snap[u]
      /\ \/ pc'[t] = "idle"
         \/ pc'[t] \in {"fallback", "loop", "backoff"} /\ arg'[t] = arg[t]
  BY <1>0, <1>2 DEF ReturnToConnect, ReturnToReconnect, ReturnToEnd, Finish, Goto, LocalsOK
<1>5. Strolls(t)
  BY <1>0, <1>4 DEF Strolls, Resting, Back, Dialing, Waiting
<1> QED BY <1>1, <1>3, <1>4, <1>5 DEF Steady, Strolls

LEMMA MonitorSteady ==
  ASSUME TInv, Roles, Devices, NEW c \in Conn, Monitor(c)
  PROVE  Steady
<1>0. LocalsOK /\ c \in Thread /\ MonitorMove(c) /\ NoArg.conn = NoConn
  BY MonitorMoves DEF TInv, TypeOK, Thread, NoArg
<1>1. UNCHANGED <<host, tun, routes, ks, enabled>>
  <2>1. UNCHANGED <<host, enabled>>
    BY DEF Monitor, MonitorStops, MonitorWakes, TunnelStale, CheckAfterWake, BeginReconnect,
       ReconnectCancelled, LoopHead, WaitNetwork, Attempt, WakeFromBackoff, WaitExpires, history
  <2> QED BY <1>0, <2>1 DEF MonitorMove
<1>2. /\ \A u \in Thread \ {c} : pc'[u] = pc[u] /\ arg'[u] = arg[u] /\ snap'[u] = snap[u]
      /\ ref' = ref
  BY <1>0 DEF MonitorMove, Alone
<1>3. Strolls(c)
  <2>1. CASE MonitorStops(c) \/ MonitorWakes(c) \/ TunnelStale(c) \/ CheckAfterWake(c)
    <3>1. pc[c] \in {"watch", "wake"} /\ pc'[c] \in {"idle", "watch", "wake", "reconnect"}
      BY <1>0, <2>1 DEF MonitorStops, MonitorWakes, TunnelStale, CheckAfterWake, GoesStale,
         Finish, Goto, LocalsOK
    <3> QED BY <3>1 DEF Strolls, Resting, Dialing
  <2>2. CASE BeginReconnect(c) \/ ReconnectCancelled(c)
    <3>1. pc[c] \in {"reconnect", "loop"} \cup Waiting /\ pc'[c] \in {"idle", "teardown"}
      BY <1>0, <2>2 DEF BeginReconnect, ReconnectCancelled, CallTeardown, Finish, Goto, LocalsOK
    <3> QED BY <3>1 DEF Strolls, Resting, Dialing, Waiting
  <2>3. CASE LoopHead(c) \/ WaitNetwork(c) \/ Attempt(c) \/ WakeFromBackoff(c) \/ WaitExpires(c)
    <3>1. /\ pc[c] \in {"loop", "waitnet", "attempt"} \cup Waiting /\ pc'[c] \in Back
          /\ arg'[c].conn = arg[c].conn
      BY <1>0, <2>3 DEF LoopHead, WaitNetwork, Attempt, WakeFromBackoff, WaitExpires, Goto, LocalsOK,
         Back, Waiting, Arg
    <3>2. arg[c].conn = c /\ tun[c] = NoLink /\ pc[c] \notin Dialing
      BY <1>0, <3>1 DEF TInv, TargetOK, Devices, DeviceAt, Down, Waiting, Dialing
    <3> QED BY <3>1, <3>2 DEF Strolls
  <2> QED BY <2>1, <2>2, <2>3 DEF Monitor
<1> QED BY <1>1, <1>2, <1>3, HostSteady DEF Steady, Strolls

LEMMA SteadyCases ==
  ASSUME TInv, Roles, Fields, Devices,
         \/ \E t \in Thread : SmartFallback(t) \/ StartMonitor(t) \/ RelaxHost(t) \/ Disconnecting(t)
         \/ \E c \in Conn : Monitor(c)
         \/ \E t \in Caller, c \in Conn : Call(t, c)
         \/ Environment \/ UNCHANGED vars
  PROVE  Steady
<1>0. LocalsOK /\ FieldsOK
  BY DEF TInv, TypeOK
<1>1. ASSUME NEW t \in Thread, SmartFallback(t) PROVE Steady
  <2> PICK c \in Conn : arg[t].conn = c
    BY <1>1 DEF SmartFallback, TInv, TargetOK
  <2>1. UNCHANGED <<host, tun, routes, ks, enabled>>
    BY <1>1 DEF SmartFallback, slots, history
  <2>2. \A d \in Conn : ref'[d] = "live" => ref[d] = "live"
    BY <1>0, <1>1 DEF SmartFallback, FieldsOK
  <2>3. /\ \A u \in Thread \ {t} : pc'[u] = pc[u] /\ arg'[u] = arg[u] /\ snap'[u] = snap[u]
        /\ pc[t] = "fallback"
        /\ pc'[t] = "idle" \/ (pc'[t] = "shield" /\ arg'[t].conn = c)
    <3>1. Finish(t) => pc'[t] = "idle" /\ \A u \in Thread \ {t} :
             pc'[u] = pc[u] /\ arg'[u] = arg[u] /\ snap'[u] = snap[u]
      BY <1>0 DEF Finish, Goto, LocalsOK
    <3>2. ASSUME NEW k, Goto(t, "shield"), UNCHANGED snap,
                 arg' = [arg EXCEPT ![t].proto = "stealth", ![t].has = k, ![t].cred = "good"]
          PROVE  /\ pc'[t] = "shield" /\ arg'[t].conn = c
                 /\ \A u \in Thread \ {t} : pc'[u] = pc[u] /\ arg'[u] = arg[u] /\ snap'[u] = snap[u]
      BY <1>0, <3>2 DEF Goto, LocalsOK, Arg
    <3> QED BY <1>1, <3>1, <3>2 DEF SmartFallback
  <2>4. tun[c] = NoLink
    BY <2>3 DEF Devices, DeviceAt, Down
  <2>5. Strolls(t)
    BY <2>3, <2>4 DEF Strolls, Resting, Back, Dialing
  <2> QED BY <2>1, <2>2, <2>3, <2>5, HostSteady DEF Steady, Strolls
<1>2. ASSUME NEW t \in Thread, Disconnecting(t) PROVE Steady
  <2>1. UNCHANGED <<host, tun, routes, ks, enabled, ref>>
    BY <1>2 DEF Disconnecting, slots, history
  <2>2. /\ \A u \in Thread \ {t} : pc'[u] = pc[u] /\ arg'[u] = arg[u] /\ snap'[u] = snap[u]
        /\ pc[t] = "disconnect" /\ pc'[t] = "teardown"
    BY <1>0, <1>2 DEF Disconnecting, CallTeardown, Goto, LocalsOK
  <2>3. Strolls(t)
    BY <2>2 DEF Strolls, Resting, Dialing
  <2> QED BY <2>1, <2>2, <2>3, HostSteady DEF Steady, Strolls
<1>3. CASE Environment \/ UNCHANGED vars
  <2>1. UNCHANGED <<host, tun, routes, ks, enabled, ref, pc, arg, snap>>
    BY <1>3 DEF Environment, NetworkLost, NetworkBack, TriggerReconnect, CertificateRejected,
       CertificateExpires, vars, slots, history
  <2> QED BY <2>1, HostSteady DEF Steady, Strolls
<1> QED BY <1>1, <1>2, <1>3, CallsSteady, StartMonitorSteady, ReturnsSteady, MonitorSteady

LEMMA SteadyNetwork ==
  ASSUME Devices, Steady
  PROVE  Network
<1>1. ASSUME NEW u \in Thread PROVE Follows(u)
  <2>1. CASE pc'[u] = pc[u] /\ arg'[u] = arg[u] /\ snap'[u] = snap[u]
    BY <2>1, StaysFollows
  <2>2. CASE pc'[u] \in Resting
    BY <2>2, PlacesBusy DEF Follows, Resting
  <2>3. CASE pc'[u] \in Back /\ tun[arg'[u].conn] = NoLink
    <3>1. Back \cap DialMid = {}
      BY DEF Back, DialMid, Waiting
    <3> QED BY <2>3, <3>1 DEF Follows
  <2> QED BY <2>1, <2>2, <2>3 DEF Steady, Strolls
<1> QED BY <1>1, StillNetwork DEF Steady

\* A toggle changes the table only.
LEMMA SwitchNetwork ==
  ASSUME TInv, Devices, NEW t \in Thread, SetKillSwitch(t)
  PROVE  Network
<1>0. LocalsOK /\ host \in HostState
  BY DEF TInv, TypeOK
<1>1. NetStill
  BY <1>0 DEF SetKillSwitch, SwitchOn, SwitchOff, WriteFlag, ShieldOn, ShieldOff, HostState, NetStill
<1>2. /\ \A u \in Thread \ {t} : pc'[u] = pc[u] /\ arg'[u] = arg[u] /\ snap'[u] = snap[u]
      /\ pc'[t] = "idle"
  BY <1>0 DEF SetKillSwitch, Finish, Goto, LocalsOK
<1>3. Follows(t)
  BY <1>2, PlacesBusy DEF Follows
<1> QED BY <1>1, <1>2, <1>3, StaysFollows, StillNetwork

LEMMA NextNetwork ==
  ASSUME TInv, Roles, Fields, Calm, Devices, [Next]_vars
  PROVE  Network
<1>1. ASSUME NEW t \in Thread, Dial(t) \/ Undo(t) \/ Disconnecting(t) \/ SetKillSwitch(t)
      PROVE  Network
  BY <1>1, QuietDialNetwork, TunnelNetwork, RoutesNetwork, ResolverNetwork, UndoNetwork, SwitchNetwork,
     SteadyCases, SteadyNetwork DEF Dial, Undo
<1>2. CASE \/ \E c \in Conn : Monitor(c)
           \/ \E t \in Caller, c \in Conn : Call(t, c)
           \/ Environment \/ UNCHANGED vars
  BY <1>2, SteadyCases, SteadyNetwork
<1> QED BY <1>1, <1>2 DEF Next, Run

-----------------------------------------------------------------------------
(* The kill switch table. *)

\* A table is its connection's, which will drop it, unless Enable failed
\* after loading it; while rules are being applied no earlier one is there.
Tables ==
    \A c \in Conn : host.table = c =>
        /\ \/ ks[c] \/ enabled[c] = "seedFailed"
           \/ \E t \in Thread : pc[t] = "seed" /\ arg[t].conn = c
        /\ \A t \in Thread : pc[t] = "apply" => arg[t].conn # c

\* The table of the last boot is there with its flag only.
Vouched == host.table = BootTable => host.flag

\* Somebody has looked at the table since the last process.
Shown == (\E c \in Conn : ref[c] = "live") \/ \E t \in Thread : pc[t] \in Dialing \ {"shield"}

\* From then on the flag is never without a table, nor is a dial with a kill
\* switch once it has loaded it.
Standing ==
    /\ Shown /\ host.flag => host.table # NoTable
    /\ \A t \in Thread : pc[t] \in Raised /\ arg[t].ks => host.table # NoTable

\* What a step owes to them.
Table ==
    /\ Tables'
    /\ Vouched => Vouched'
    /\ ~Overlap /\ Standing => Standing'

TableStill ==
    /\ host'.table = host.table /\ host'.flag = host.flag
    /\ UNCHANGED <<ks, enabled>>
    /\ Shown' => Shown
    /\ \A u \in Thread :
          /\ pc[u] = "seed" => pc'[u] = "seed" /\ arg'[u].conn = arg[u].conn
          /\ pc'[u] = "apply" => pc[u] = "apply" /\ arg'[u].conn = arg[u].conn
          /\ pc'[u] \in Raised => pc[u] \in Raised /\ arg'[u].ks = arg[u].ks

LEMMA StillTable == ASSUME Tables, TableStill PROVE Table
<1>1. ASSUME NEW c \in Conn, host'.table = c
      PROVE  /\ \/ ks'[c] \/ enabled'[c] = "seedFailed"
                \/ \E t \in Thread : pc'[t] = "seed" /\ arg'[t].conn = c
             /\ \A t \in Thread : pc'[t] = "apply" => arg'[t].conn # c
  BY <1>1 DEF Tables, TableStill
<1>2. (Vouched => Vouched') /\ (Standing => Standing')
  BY DEF Vouched, Standing, TableStill
<1> QED BY <1>1, <1>2 DEF Table, Tables

LEMMA SteadyTable == ASSUME Tables, Steady PROVE Table
<1>0. /\ {"seed", "apply"} \cup Raised \subseteq Dialing \ {"shield"}
      /\ (Resting \cup Back) \cap (Dialing \ {"shield"}) = {}
      /\ "seed" # "remonitor" /\ "remonitor" \in Dialing \ {"shield"} /\ "seed" \notin Resting
  BY DEF Raised, DialMid, Dialing, Resting, Back, Waiting
<1>1. \A u \in Thread : /\ pc'[u] \in Dialing \ {"shield"} => pc'[u] = pc[u] /\ arg'[u] = arg[u]
                        /\ pc[u] = "seed" => pc'[u] = "seed" /\ arg'[u] = arg[u]
  BY <1>0 DEF Steady, Strolls
<1>2. Shown' => Shown
  BY <1>0, <1>1 DEF Steady, Shown
<1>3. TableStill
  BY <1>0, <1>1, <1>2 DEF Steady, TableStill
<1> QED BY <1>3, StillTable

\* Where a goroutine other than t is while t works on the host for c.
LEMMA RaisedAlone ==
  ASSUME TInv, Roles, Fields, Calm, ~Overlap, NEW t \in Thread, NEW c \in Conn, arg[t].conn = c, AtWork(t),
         NEW u \in Thread \ {t}
  PROVE  pc[u] \notin Dialing
<1> SUFFICES ASSUME pc[u] \in Dialing PROVE FALSE
  OBVIOUS
<1>1. arg[u].conn \in Conn /\ ref[arg[u].conn] \in {"dialing", "live"}
  BY DialAlone DEF Calm, TInv, TypeOK, FieldsOK
<1>2. arg[u].conn = c
  BY <1>1 DEF Overlap
<1>3. pc[t] = "toggle"
  BY <1>2, BesideDial DEF AtWork, Dialing, TearingDown
<1> QED BY <1>3 DEF AtWork, Dialing, TearingDown

LEMMA RaisedTable ==
  ASSUME TInv, Roles, Tables, NEW t \in Thread,
         \/ HardenHost(t) \/ BringUpTunnel(t) \/ SetUpRoutes(t) \/ WaitLocalAgent(t)
         \/ TakeOverDNS(t) \/ Connected(t)
  PROVE  Table
<1>0. DialMove(t) /\ host \in HostState
  BY DialMoves DEF TInv, TypeOK
<1>1. host'.table = host.table /\ host'.flag = host.flag
  <2>1. HardenHost(t) => host'.table = host.table /\ host'.flag = host.flag
    BY <1>0 DEF HardenHost, Harden, HostState
  <2>2. BringUpTunnel(t) => host'.table = host.table /\ host'.flag = host.flag
    <3>1. LinkDel(host).table = host.table /\ LinkDel(host).flag = host.flag /\ LinkDel(host) \in HostState
      BY <1>0, HostOps DEF LinkDel, HostState
    <3>2. \A h \in HostState, i \in Link : LinkAdd(h, i).table = h.table /\ LinkAdd(h, i).flag = h.flag
      BY DEF LinkAdd, HostState
    <3> QED BY <1>0, <3>1, <3>2 DEF BringUpTunnel, Link
  <2>3. SetUpRoutes(t) => host'.table = host.table /\ host'.flag = host.flag
    BY <1>0 DEF SetUpRoutes, RoutesOn, RoutesOff, HostState
  <2>4. WaitLocalAgent(t) \/ Connected(t) => host'.table = host.table /\ host'.flag = host.flag
    BY DEF WaitLocalAgent, Connected
  <2>5. TakeOverDNS(t) => host'.table = host.table /\ host'.flag = host.flag
    BY <1>0 DEF TakeOverDNS, StepFails, DNSOn, HostState
  <2> QED BY <2>1, <2>2, <2>3, <2>4, <2>5
<1>2. UNCHANGED <<ks, enabled>>
  BY DEF HardenHost, BringUpTunnel, SetUpRoutes, WaitLocalAgent, TakeOverDNS, Connected, slots, history
<1>3. /\ arg'[t].ks = arg[t].ks /\ arg'[t].conn = arg[t].conn
      /\ pc[t] \in Raised /\ pc'[t] \in Raised \cup {"teardown"}
  BY <1>0, KeepsParameters, DialLabels DEF DialMove, Goes, Raised, DialMid
<1>4. /\ {"teardown", "seed", "apply"} \cap Raised = {} /\ Raised \subseteq Dialing \ {"shield"}
      /\ "teardown" \notin Dialing \cup {"seed", "apply"}
  BY DEF Raised, DialMid, Dialing
<1>5. \A u \in Thread \ {t} : pc'[u] = pc[u] /\ arg'[u] = arg[u]
  BY <1>0 DEF DialMove, Alone
<1>6. Shown' => Shown
  BY <1>0, <1>3, <1>4, <1>5 DEF Shown, DialMove
<1>7. TableStill
  BY <1>1, <1>2, <1>3, <1>4, <1>5, <1>6 DEF TableStill
<1> QED BY <1>7, StillTable

\* The table is dropped, loaded and completed.
LEMMA RaisingTable ==
  ASSUME TInv, Roles, Fields, Calm, Tables, NEW t \in Thread,
         ShieldDown(t) \/ ApplyRules(t) \/ SeedAPIs(t) \/ PersistBootState(t)
  PROVE  Table
<1> PICK c \in Conn : arg[t].conn = c
  BY DEF ShieldDown, ApplyRules, SeedAPIs, PersistBootState, TInv, TargetOK
<1>0. /\ DialMove(t) /\ host \in HostState /\ FieldsOK /\ LocalsOK /\ Target(t) = c
      /\ host.table \in Conn \cup {NoTable, BootTable}
  BY DialMoves DEF TInv, TypeOK, Target, HostState
<1>1. /\ \A u \in Thread \ {t} : pc'[u] = pc[u] /\ arg'[u] = arg[u]
      /\ arg'[t].ks = arg[t].ks /\ arg'[t].conn = c /\ ref' = ref
  BY <1>0, KeepsParameters DEF DialMove, Alone
<1>2. AtWork(t) /\ \A d \in Conn \ {c} : ks'[d] = ks[d]
  BY <1>0 DEF DialMove, AtWork, Apart
<1>3. \A u \in Thread \ {t} : pc[u] = "apply" \/ pc[u] = "seed" => arg[u].conn # c
  BY <1>0, BesideDial DEF DialMove, Dialing
<1>4. /\ {"teardown", "seed", "apply", "shield"} \cap Raised = {} /\ Raised \subseteq Dialing \ {"shield"}
      /\ {"persist", "connected", "harden"} \subseteq Raised /\ "teardown" \notin Dialing
      /\ {"apply", "seed"} \subseteq Dialing \ {"shield"}
      /\ {"teardown", "harden", "connected", "persist"} \cap {"seed", "apply"} = {}
  BY DEF Raised, DialMid, Dialing
<1>5. CASE ShieldDown(t)
  <2>0. pc[t] = "shield" /\ UNCHANGED <<ks, enabled>>
    BY <1>5 DEF ShieldDown, slots, history
  <2>1. CASE host' = host /\ pc'[t] = "teardown"
    <3>1. Shown' => Shown
      BY <1>1, <1>4, <2>1 DEF Shown
    <3> QED BY <1>1, <1>4, <2>0, <2>1, <3>1, StillTable DEF TableStill
  <2>2. CASE host' = ShieldOff(host) /\ pc'[t] = (IF arg[t].ks THEN "apply" ELSE "harden")
    <3>1. host'.table = NoTable /\ ~host'.flag
      BY <1>0, <2>2 DEF ShieldOff, HostState
    <3>2. Tables' /\ Vouched'
      BY <3>1, HostNetAssumption DEF Tables, Vouched
    <3>3. ~Overlap => Standing'
      <4> SUFFICES ASSUME ~Overlap, NEW u \in Thread, pc'[u] \in Raised, arg'[u].ks PROVE FALSE
        BY <3>1 DEF Standing
      <4>1. u # t
        BY <1>1, <1>4, <2>2
      <4> QED BY <1>1, <1>2, <1>4, <4>1, RaisedAlone
    <3> QED BY <3>2, <3>3 DEF Table
  <2>3. \/ host' = host /\ pc'[t] = "teardown"
        \/ host' = ShieldOff(host) /\ pc'[t] = (IF arg[t].ks THEN "apply" ELSE "harden")
    BY <1>0, <1>5 DEF ShieldDown, StepFails, ConnectError, CallTeardown, Advance, Goto, LocalsOK
  <2> QED BY <2>1, <2>2, <2>3
<1>6. CASE ApplyRules(t)
  <2>0. /\ pc[t] = "apply" /\ UNCHANGED ks /\ host'.flag = host.flag
        /\ \A d \in Conn \ {c} : enabled'[d] = enabled[d]
        /\ \/ host'.table = c /\ pc'[t] = "seed"
           \/ host' = host /\ pc'[t] = "teardown"
    <3>1. \A d \in Conn \ {c} : enabled'[d] = enabled[d]
      BY <1>0, <1>6 DEF ApplyRules, FieldsOK
    <3>2. \/ host' = ShieldOn(host, c) /\ pc'[t] = "seed"
          \/ host' = host /\ pc'[t] = "teardown"
      BY <1>0, <1>6 DEF ApplyRules, StepFails, ConnectError, CallTeardown, Advance, Goto, LocalsOK
    <3>3. ShieldOn(host, c).table = c /\ ShieldOn(host, c).flag = host.flag
      BY <1>0 DEF ShieldOn, HostState
    <3> QED BY <1>6, <3>1, <3>2, <3>3 DEF ApplyRules, slots
  <2>1. host.table # c
    BY <2>0 DEF Tables
  <2>2. Tables'
    <3> SUFFICES ASSUME NEW d \in Conn, host'.table = d
                 PROVE  /\ \/ ks'[d] \/ enabled'[d] = "seedFailed"
                           \/ \E u \in Thread : pc'[u] = "seed" /\ arg'[u].conn = d
                        /\ \A u \in Thread : pc'[u] = "apply" => arg'[u].conn # d
      BY DEF Tables
    <3>1. CASE d = c
      BY <1>1, <1>3, <2>0, <2>1, <3>1
    <3>2. CASE d # c
      <4>1. host' = host /\ pc'[t] = "teardown"
        BY <2>0, <3>2
      <4> QED BY <1>1, <2>0, <3>2, <4>1 DEF Tables
    <3> QED BY <3>1, <3>2
  <2>3. Vouched => Vouched'
    BY <2>0, HostNetAssumption DEF Vouched
  <2>4. Standing => Standing'
    BY <1>1, <1>4, <2>0, HostNetAssumption DEF Standing, Shown
  <2> QED BY <2>2, <2>3, <2>4 DEF Table
<1>7. CASE SeedAPIs(t)
  <2>0. /\ pc[t] = "seed" /\ host'.table = host.table
        /\ \A d \in Conn \ {c} : enabled'[d] = enabled[d]
        /\ \/ ks'[c] /\ pc'[t] = "harden" /\ host.table # NoTable /\ (host.flag => host'.flag)
           \/ enabled'[c] = "seedFailed" /\ host'.flag = host.flag /\ pc'[t] = "teardown"
           \/ host.table = NoTable /\ host'.flag = host.flag /\ pc'[t] = "teardown"
    <3>1. \A d \in Conn \ {c} : enabled'[d] = enabled[d]
      BY <1>0, <1>7 DEF SeedAPIs, FieldsOK
    <3>2. \/ /\ ks' = [ks EXCEPT ![c] = TRUE] /\ pc'[t] = "harden" /\ host.table # NoTable
             /\ host' = WriteFlag(host) \/ host' = host
          \/ enabled' = [enabled EXCEPT ![c] = "seedFailed"] /\ host' = host /\ pc'[t] = "teardown"
          \/ host.table = NoTable /\ host' = host /\ pc'[t] = "teardown"
      BY <1>0, <1>7 DEF SeedAPIs, StepFails, ConnectError, CallTeardown, Advance, Goto, LocalsOK
    <3>3. WriteFlag(host).table = host.table /\ WriteFlag(host).flag
      BY <1>0 DEF WriteFlag, HostState
    <3> QED BY <1>0, <1>7, <3>1, <3>2, <3>3 DEF SeedAPIs, FieldsOK
  <2>1. Tables'
    <3> SUFFICES ASSUME NEW d \in Conn, host'.table = d
                 PROVE  /\ \/ ks'[d] \/ enabled'[d] = "seedFailed"
                           \/ \E u \in Thread : pc'[u] = "seed" /\ arg'[u].conn = d
                        /\ \A u \in Thread : pc'[u] = "apply" => arg'[u].conn # d
      BY DEF Tables
    <3>1. CASE d = c
      BY <1>1, <1>3, <1>4, <2>0, <3>1, HostNetAssumption
    <3>2. CASE d # c
      BY <1>1, <1>2, <1>4, <2>0, <3>2 DEF Tables
    <3> QED BY <3>1, <3>2
  <2>2. Vouched => Vouched'
    BY <2>0, HostNetAssumption DEF Vouched
  <2>3. Standing => Standing'
    BY <1>1, <1>4, <2>0 DEF Standing, Shown
  <2> QED BY <2>1, <2>2, <2>3 DEF Table
<1>8. CASE PersistBootState(t)
  <2>0. /\ pc[t] = "persist" /\ pc'[t] = "connected" /\ host'.table = host.table
        /\ UNCHANGED <<ks, enabled>> /\ (host.flag => host'.flag)
        /\ host'.flag => host.flag \/ arg[t].ks
    BY <1>0, <1>8 DEF PersistBootState, Advance, Goto, WriteFlag, HostState, LocalsOK, slots, history
  <2>1. Tables'
    BY <1>1, <1>4, <2>0 DEF Tables
  <2>2. Vouched => Vouched'
    BY <2>0 DEF Vouched
  <2>3. Standing => Standing'
    BY <1>1, <1>4, <2>0 DEF Standing, Shown
  <2> QED BY <2>1, <2>2, <2>3 DEF Table
<1> QED BY <1>5, <1>6, <1>7, <1>8

LEMMA UndoTable ==
  ASSUME TInv, Roles, Fields, Calm, Tables, NEW t \in Thread,
         TearDown(t) \/ DropShield(t) \/ GiveBackDNS(t) \/ DropRoutes(t) \/ DropTunnel(t)
  PROVE  Table
<1> PICK c \in Conn : arg[t].conn = c
  BY DEF TearDown, DropShield, GiveBackDNS, DropRoutes, DropTunnel, TInv, TargetOK
<1>0. /\ UndoMove(t) /\ host \in HostState /\ FieldsOK /\ LocalsOK /\ Target(t) = c
      /\ ref' = ref /\ enabled' = enabled
      /\ \A u \in Thread \ {t} : pc'[u] = pc[u] /\ arg'[u] = arg[u]
      /\ pc[t] \in TearingDown /\ pc'[t] \in TearingDown /\ AtWork(t)
  BY UndoMoves
  DEF TInv, TypeOK, Target, UndoMove, Alone, Undoing, AtWork, TearDown, DropShield, GiveBackDNS,
      DropRoutes, DropTunnel, history
<1>1. TearingDown \cap ({"seed", "apply"} \cup Raised \cup Dialing) = {} /\ Raised \subseteq Dialing
  BY DEF TearingDown, Raised, DialMid, Dialing
<1>2. Shown' => Shown
  BY <1>0, <1>1 DEF Shown
<1>3. CASE host'.table = host.table /\ host'.flag = host.flag /\ ks' = ks
  BY <1>0, <1>1, <1>2, <1>3, StillTable DEF TableStill
<1>4. CASE DropShield(t) /\ DisablesShield(t)
  <2>1. host'.table = NoTable /\ ~host'.flag
    BY <1>0, <1>4 DEF DropShield, ShieldOff, HostState
  <2>2. Tables' /\ Vouched'
    BY <2>1, HostNetAssumption DEF Tables, Vouched
  <2>3. ~Overlap => Standing'
    <3> SUFFICES ASSUME ~Overlap, NEW u \in Thread, pc'[u] \in Raised PROVE FALSE
      BY <2>1 DEF Standing
    <3>1. u # t
      BY <1>0, <1>1
    <3> QED BY <1>0, <1>1, <3>1, RaisedAlone
  <2> QED BY <2>2, <2>3 DEF Table
<1>5. CASE DropShield(t) /\ ~DisablesShield(t)
  BY <1>3, <1>5 DEF DropShield
<1>6. CASE TearDown(t)
  BY <1>3, <1>6 DEF TearDown
<1>7. CASE GiveBackDNS(t)
  <2>1. host'.table = host.table /\ host'.flag = host.flag
    BY <1>0, <1>7 DEF GiveBackDNS, DNSOff, HostState
  <2> QED BY <1>3, <1>7, <2>1 DEF GiveBackDNS, slots
<1>8. CASE DropRoutes(t)
  <2>1. host'.table = host.table /\ host'.flag = host.flag
    BY <1>0, <1>8 DEF DropRoutes, RoutesOff, HostState
  <2> QED BY <1>3, <1>8, <2>1 DEF DropRoutes
<1>9. CASE DropTunnel(t)
  <2>1. host'.table = host.table /\ host'.flag = host.flag
    BY <1>0, <1>9 DEF DropTunnel, LinkDrop, LinkDel, HostState
  <2> QED BY <1>3, <1>9, <2>1 DEF DropTunnel
<1> QED BY <1>4, <1>5, <1>6, <1>7, <1>8, <1>9

\* A toggle drops the table or puts its own there: under a dial it would have
\* raced, on a host at work for another connection it overlaps or has raced.
LEMMA SwitchTable ==
  ASSUME TInv, Roles, Fields, Calm, Calm', Tables, NEW t \in Thread, SetKillSwitch(t)
  PROVE  Table
<1> PICK c \in Conn : arg[t].conn = c
  BY DEF SetKillSwitch, TInv, TargetOK
<1>0. /\ host \in HostState /\ FieldsOK /\ LocalsOK /\ Target(t) = c /\ pc[t] = "toggle" /\ ref' = ref
      /\ \A u \in Thread \ {t} : pc'[u] = pc[u] /\ arg'[u] = arg[u]
      /\ pc'[t] = "idle"
  BY DEF TInv, TypeOK, Target, SetKillSwitch, Finish, Goto, LocalsOK
<1>1. /\ {"idle", "toggle"} \cap ({"seed", "apply"} \cup Raised \cup Dialing) = {}
      /\ Raised \cup {"seed", "apply"} \subseteq Dialing
      /\ {"idle", "watch", "wake"} \cap Dialing = {}
  BY DEF Raised, DialMid, Dialing
<1>2. Shown' => Shown
  BY <1>0, <1>1 DEF Shown
<1>3. ASSUME UNCHANGED <<host, ks, enabled>> PROVE Table
  BY <1>0, <1>1, <1>2, <1>3, StillTable DEF TableStill
<1>4. CASE arg[t].ks = ks[c]
  BY <1>0, <1>3, <1>4 DEF SetKillSwitch
<1> SUFFICES ASSUME arg[t].ks # ks[c] PROVE Table
  BY <1>4
<1>5. ref[c] = "live" /\ ~MidReconnect(c)
  <2>1. t \in Caller
    BY <1>0 DEF Thread, Roles, MonitorRole
  <2>2. ref[c] \in {"live", "closed"}
    BY <1>0, <2>1 DEF Fields, DisconnectUndone
  <2>3. raced'[c] = (raced[c] \/ MidReconnect(c) \/ ref[c] = "closed")
    BY <1>0 DEF SetKillSwitch, Overtakes, FieldsOK
  <2> QED BY <2>2, <2>3 DEF Calm
<1>6. ASSUME NEW u \in Thread, pc[u] \in Dialing PROVE arg[u].conn # c
  <2>1. u \in Caller => ref[arg[u].conn] = "dialing"
    BY <1>6, DialAlone
  <2>2. u \in Conn => arg[u].conn = u /\ MidReconnect(u)
    BY <1>1, <1>6 DEF MidReconnect, TInv, TargetOK
  <2> QED BY <1>5, <2>1, <2>2 DEF Thread
<1>7. ~Overlap => \A u \in Thread : pc[u] \notin Dialing
  BY <1>5, <1>6 DEF Overlap, AtWork
<1>8. CASE host'.table = NoTable /\ ~host'.flag
  <2>1. Tables' /\ Vouched'
    BY <1>8, HostNetAssumption DEF Tables, Vouched
  <2>2. ~Overlap => Standing'
    BY <1>0, <1>1, <1>7, <1>8 DEF Standing
  <2> QED BY <2>1, <2>2 DEF Table
<1>9. CASE host'.table = c /\ (ks'[c] \/ enabled'[c] = "seedFailed")
  <2>1. Tables'
    BY <1>0, <1>1, <1>6, <1>9, HostNetAssumption DEF Tables
  <2>2. Vouched' /\ Standing'
    BY <1>9, HostNetAssumption DEF Vouched, Standing
  <2> QED BY <2>1, <2>2 DEF Table
<1>10. \/ host'.table = NoTable /\ ~host'.flag
       \/ host'.table = c /\ (ks'[c] \/ enabled'[c] = "seedFailed")
  <2>1. ShieldOff(host) \in HostState /\ ShieldOff(host).table = NoTable /\ ~ShieldOff(host).flag
    <3>1. ShieldOff(host) \in HostState
      BY <1>0, HostOps
    <3> QED BY <1>0, <3>1 DEF ShieldOff, HostState
  <2>2. \A h \in HostState : ShieldOn(h, c).table = c /\ ShieldOn(h, c) \in HostState
    <3>1. \A h \in HostState : ShieldOn(h, c) \in HostState
      BY HostOps
    <3> QED BY <3>1 DEF ShieldOn, HostState
  <2>3. \A h \in HostState : WriteFlag(h).table = h.table
    BY DEF WriteFlag, HostState
  <2>4. SwitchOn(c) => \/ host'.table = NoTable /\ ~host'.flag
                       \/ host'.table = c /\ (ks'[c] \/ enabled'[c] = "seedFailed")
    BY <1>0, <2>1, <2>2, <2>3 DEF SwitchOn, FieldsOK
  <2>5. SwitchOff(c) => host'.table = NoTable /\ ~host'.flag
    BY <2>1 DEF SwitchOff
  <2> QED BY <1>0, <2>4, <2>5 DEF SetKillSwitch
<1> QED BY <1>8, <1>9, <1>10

LEMMA NextTable ==
  ASSUME TInv, Roles, Fields, Calm, Calm', Devices, Tables, [Next]_vars
  PROVE  Table
<1>1. ASSUME NEW t \in Thread, Dial(t) \/ Undo(t) \/ Disconnecting(t) \/ SetKillSwitch(t)
      PROVE  Table
  BY <1>1, RaisedTable, RaisingTable, UndoTable, SwitchTable, SteadyCases, SteadyTable DEF Dial, Undo
<1>2. CASE \/ \E c \in Conn : Monitor(c)
           \/ \E t \in Caller, c \in Conn : Call(t, c)
           \/ Environment \/ UNCHANGED vars
  BY <1>2, SteadyCases, SteadyTable
<1> QED BY <1>1, <1>2 DEF Next, Run

-----------------------------------------------------------------------------
(* The daemon's steps on the host. *)

\* A process that is gone has no connection, and one that stops says so.
Ends ==
    /\ up = "down" => (\A c \in Conn : ref[c] = "new") /\ \A t \in Caller : job[t] = "none"
    /\ \A t \in Caller : job[t] \in {"stop", "stopping"} => up = "stopping"

\* What holds of the host in every state of the daemon; a process that is gone
\* leaves it to the next one's cleanup.
Hosts ==
    /\ Calm => Devices /\ Tables
    /\ Calm /\ up # "down" => Linked /\ Routed /\ Vouched
    /\ ~overlap => Calm /\ ~Overlap /\ Saves
    /\ ~overlap /\ up # "down" => Taken
    /\ ~overlap /\ up = "up" => Standing
    /\ starts = 0 /\ up # "down" => SysctlRecoverable

\* The table that outlives the process, until a connection is dialled.
Outlives == shielded => host.flag /\ host.table # NoTable /\ \A c \in Conn : ref[c] = "new"

LEMMA Cleaned ==
  ASSUME NEW h \in HostState
  PROVE  LET g == ForceCleanup(h)
         IN  /\ g.link = NoLink /\ ~g.rules /\ g.route = NoLink
             /\ g.flag = h.flag /\ g.arp = h.arp
             /\ g.table = IF h.flag THEN h.table ELSE NoTable
             /\ (h.resolv = "host" /\ h.backup = "none") \/ (h.resolv = "vpn" /\ h.backup = "host")
                => g.resolv = "host" /\ g.backup = "none"
<1> DEFINE d == DNSOff(h)
           l == LinkDel(d)
           r == RoutesOff(l)
<1>1. d \in HostState /\ l \in HostState /\ r \in HostState
  BY HostOps
<1>2. /\ d.flag = h.flag /\ d.arp = h.arp /\ d.table = h.table
      /\ (h.resolv = "host" /\ h.backup = "none") \/ (h.resolv = "vpn" /\ h.backup = "host")
         => d.resolv = "host" /\ d.backup = "none"
  BY DEF DNSOff, HostState
<1>3. /\ l.link = NoLink /\ l.flag = d.flag /\ l.arp = d.arp /\ l.table = d.table
      /\ l.resolv = d.resolv /\ l.backup = d.backup
  BY <1>1 DEF LinkDel, HostState
<1>4. /\ r.link = l.link /\ ~r.rules /\ r.route = NoLink /\ r.flag = l.flag /\ r.arp = l.arp
      /\ r.table = l.table /\ r.resolv = l.resolv /\ r.backup = l.backup
  BY <1>1 DEF RoutesOff, HostState
<1>5. ForceCleanup(h) = IF r.flag THEN r ELSE [r EXCEPT !.table = NoTable]
  BY DEF ForceCleanup
<1> HIDE DEF r, l, d
<1>6. CASE r.flag
  BY <1>2, <1>3, <1>4, <1>5, <1>6
<1>7. CASE ~r.flag
  <2> DEFINE g == [r EXCEPT !.table = NoTable]
  <2>1. /\ g.link = r.link /\ g.rules = r.rules /\ g.route = r.route /\ g.flag = r.flag
        /\ g.arp = r.arp /\ g.table = NoTable /\ g.resolv = r.resolv /\ g.backup = r.backup
    BY <1>1 DEF HostState
  <2> QED BY <1>2, <1>3, <1>4, <1>5, <1>7, <2>1
<1> QED BY <1>6, <1>7

\* A goroutine inside a Connection method is at work.
LEMMA RunsBusy ==
  ASSUME NEW t \in Thread, Run(t)
  PROVE  pc[t] # "idle"
<1>1. Dial(t) => pc[t] # "idle"
  BY DEF Dial, SmartFallback, ShieldDown, ApplyRules, SeedAPIs, HardenHost, BringUpTunnel, SetUpRoutes,
     WaitLocalAgent, TakeOverDNS, PersistBootState, Connected, StartMonitor
<1>2. Undo(t) \/ Disconnecting(t) \/ SetKillSwitch(t) => pc[t] # "idle"
  BY DEF Undo, TearDown, DropShield, GiveBackDNS, DropRoutes, DropTunnel, RelaxHost, Disconnecting,
     SetKillSwitch
<1>3. t \in Conn /\ Monitor(t) => pc[t] # "idle"
  BY DEF Monitor, MonitorStops, MonitorWakes, TunnelStale, CheckAfterWake, BeginReconnect,
     ReconnectCancelled, LoopHead, WaitNetwork, Attempt, WakeFromBackoff, WaitExpires, Waiting
<1> QED BY <1>1, <1>2, <1>3 DEF Run

\* Before a connection is dialled everybody is idle ...
LEMMA NewIdle ==
  ASSUME Below, \A c \in Conn : ref[c] = "new"
  PROVE  \A t \in Thread : pc[t] = "idle"
<1> SUFFICES ASSUME NEW t \in Thread, pc[t] # "idle" PROVE FALSE
  OBVIOUS
<1>1. arg[t].conn \in Conn
  BY DEF Below, TInv, TargetOK
<1>2. arg[t].conn # NoConn
  BY <1>1, ConnectionAssumption
<1> QED BY <1>1, <1>2 DEF Below, Roles, OneDialer, Fields, Fresh, Thread

\* ... and the host is left alone.
LEMMA NewSteps ==
  ASSUME Below, \A c \in Conn : ref[c] = "new", [Next]_vars
  PROVE  /\ host' = host
         /\ ref' = ref \/ \E t \in Caller, c \in Conn : Connect(t, c)
<1>1. \A t \in Thread : ~Run(t)
  BY NewIdle, RunsBusy
<1>2. CASE Environment \/ UNCHANGED vars
  BY <1>2 DEF Environment, NetworkLost, NetworkBack, TriggerReconnect, CertificateRejected,
     CertificateExpires, vars
<1>3. CASE \E t \in Caller, c \in Conn : Call(t, c)
  BY <1>3 DEF Call, Connect, Disconnect, CheckConnected
<1> QED BY <1>1, <1>2, <1>3 DEF Next

LEMMA InitHosts == DInit => Ends /\ Hosts /\ Outlives
<1> SUFFICES ASSUME DInit PROVE Ends /\ Hosts /\ Outlives
  OBVIOUS
<1>0. /\ \A t \in Thread : pc[t] = "idle"
      /\ \A c \in Conn : ref[c] = "new" /\ ~raced[c]
      /\ \A t \in Caller : job[t] = "none"
      /\ up = "up" /\ ~shielded
  BY DEF DInit, Init
<1>1. Ends /\ Outlives
  BY <1>0 DEF Ends, Outlives
<1>2. Calm /\ ~Overlap /\ Devices
  BY <1>0 DEF Calm, Overlap, Devices
<1>3. /\ host.link = NoLink /\ ~host.rules /\ host.route = NoLink
      /\ host.resolv = "host" /\ host.backup = "none"
      /\ host.table \in {NoTable, BootTable} /\ (host.table = BootTable => host.flag)
  <2> DEFINE boot == [CleanHost EXCEPT !.table = BootTable, !.flag = TRUE]
  <2>1. /\ CleanHost.link = NoLink /\ ~CleanHost.rules /\ CleanHost.route = NoLink
        /\ CleanHost.resolv = "host" /\ CleanHost.backup = "none" /\ CleanHost.table = NoTable
        /\ boot.link = NoLink /\ ~boot.rules /\ boot.route = NoLink
        /\ boot.resolv = "host" /\ boot.backup = "none" /\ boot.table = BootTable /\ boot.flag
    BY DEF CleanHost
  <2> QED BY <2>1, HostNetAssumption DEF DInit, Init
<1>4. Tables /\ Linked /\ Routed /\ Vouched /\ Saves /\ Taken
  BY <1>3, HostNetAssumption DEF Tables, Linked, Routed, Vouched, Saves, Taken
<1>5. Standing
  BY <1>0 DEF Standing, Shown, Raised, DialMid, Dialing
<1>6. SysctlRecoverable
  BY InitKept DEF DInit
<1> QED BY <1>1, <1>2, <1>4, <1>5, <1>6 DEF Hosts

LEMMA NextEnds ==
  ASSUME Below, Staffed, Ends, [DNext]_allvars
  PROVE  Ends'
<1> USE DEF To, Done
<1>0. job \in [Caller -> Job]
  BY DEF Staffed, DTypes, Typed
<1>1. CASE Exit \/ Reboot
  BY <1>1 DEF Exit, Reboot, Vanish, Forget, Ends
<1>2. CASE Start
  BY <1>2 DEF Start, Ends
<1>3. CASE (\E t \in Thread : Within(t)) \/ UNCHANGED allvars
  <2>1. UNCHANGED <<job, up>>
    BY <1>3 DEF Within, dvars, allvars
  <2>2. up = "down" => ref' = ref
    BY <1>3, NewIdle, RunsBusy DEF Within, Ends, allvars, vars
  <2> QED BY <2>1, <2>2 DEF Ends
<1>4. CASE \E t \in Caller : Goroutine(t) \/ Command(t)
  <2> PICK t \in Caller : Goroutine(t) \/ Command(t)
    BY <1>4
  <2>1. up # "down" /\ up' # "down"
    <3>1. Goroutine(t) => job[t] # "none" /\ up' = up
      BY DEF Goroutine, DoConnect, Replace, Replaced, LockConnect, ReloadConfig, DialServer, Dialed, Publish,
         SaveConfig, DropConn, LoggedOut, ApplySettings, Return, StopConn, Stopped, Process
    <3>2. Command(t) => up = "up" /\ up' \in {"up", "stopping"}
      BY DEF Command, BeginConnect, TakeConn, Logout, Login, Settings, BeginStop, Free, Process
    <3> QED BY <3>1, <3>2 DEF Ends
  <2>2. \A u \in Caller \ {t} : job'[u] = job[u]
    BY <1>0 DEF Goroutine, DoConnect, Replace, Replaced, LockConnect, ReloadConfig, DialServer, Dialed, Publish,
       SaveConfig, DropConn, LoggedOut, ApplySettings, Return, StopConn, Stopped,
       Command, BeginConnect, TakeConn, Logout, Login, Settings, BeginStop
  <2>3. up' = up \/ up' = "stopping"
    BY DEF Goroutine, DoConnect, Replace, Replaced, LockConnect, ReloadConfig, DialServer, Dialed, Publish,
       SaveConfig, DropConn, LoggedOut, ApplySettings, Return, StopConn, Stopped, Process,
       Command, BeginConnect, TakeConn, Logout, Login, Settings, BeginStop
  <2>4. job'[t] \in {"stop", "stopping"} => up' = "stopping"
    <3>1. CASE BeginStop(t) \/ StopConn(t)
      BY <1>0, <3>1 DEF BeginStop, StopConn, Process, Ends
    <3>2. CASE ~(BeginStop(t) \/ StopConn(t))
      <4>1. CASE Goroutine(t)
        BY <1>0, <3>2, <4>1 DEF Goroutine, DoConnect, Replace, Replaced, LockConnect, ReloadConfig, DialServer, Dialed,
           Publish, SaveConfig, DropConn, LoggedOut, ApplySettings, Return, Stopped
      <4>2. CASE Command(t)
        BY <1>0, <3>2, <4>2 DEF Command, BeginConnect, TakeConn, Logout, Login, Settings, Free
      <4> QED BY <4>1, <4>2
    <3> QED BY <3>1, <3>2
  <2> QED BY <2>1, <2>2, <2>3, <2>4 DEF Ends
<1>5. CASE DEnvironment /\ ~(Exit \/ Reboot \/ Start)
  BY <1>5 DEF DEnvironment, NetworkLost, NetworkBack, TriggerReconnect, CertificateRejected,
     CertificateExpires, UserSaves, dvars, vars, Process, Ends
<1> QED BY <1>1, <1>2, <1>3, <1>4, <1>5 DEF DNext

\* overlap remembers.
LEMMA Apartness ==
  ASSUME Staffed, Hosts, [DNext]_allvars, ~overlap'
  PROVE  ~overlap /\ Calm /\ ~Overlap /\ Saves /\ Calm' /\ ~Overlap'
<1>1. overlap \in BOOLEAN /\ overlap' \in BOOLEAN
  BY NextDTypes DEF Staffed, DTypes
<1>2. CASE Watch
  BY <1>1, <1>2 DEF Watch, Hosts, Calm
<1>3. CASE UNCHANGED allvars
  <2>1. UNCHANGED <<pc, arg, ref, raced, overlap>>
    BY <1>3 DEF allvars, vars, history
  <2> QED BY <2>1 DEF Hosts, Calm, Overlap, AtWork
<1> QED BY <1>2, <1>3 DEF DNext

LEMMA RunHosts ==
  ASSUME Below, Staffed, Ends, Hosts, [DNext]_allvars, [Next]_vars, Runs
  PROVE  Hosts'
<1>1. ASSUME Calm' PROVE Calm /\ Network /\ Table
  <2>1. Calm
    BY <1>1, RacedStays DEF Calm, Below
  <2>2. Devices /\ Tables
    BY <2>1 DEF Hosts
  <2> QED BY <1>1, <2>1, <2>2, NextNetwork, NextTable DEF Below
<1>2. (Calm' => Devices' /\ Tables') /\ (Calm' /\ up' # "down" => Linked' /\ Routed' /\ Vouched')
  BY <1>1 DEF Network, Table, Hosts, Runs
<1>3. ASSUME ~overlap' PROVE Calm' /\ ~Overlap' /\ Saves' /\ (up' # "down" => Taken')
  <2>1. ~overlap /\ Calm' /\ ~Overlap' /\ ~Overlap /\ Saves
    BY <1>3, Apartness
  <2>2. CASE up = "down"
    <3>1. host' = host
      BY <2>2, NewSteps DEF Ends
    <3> QED BY <2>1, <2>2, <3>1 DEF Saves, Runs
  <2>3. CASE up # "down"
    <3>1. Taken'
      BY <1>1, <2>1, <2>3 DEF Network, Hosts
    <3> QED BY <2>1, <3>1 DEF Taken
  <2> QED BY <2>2, <2>3
<1>4. ~overlap' /\ up' = "up" => Standing'
  BY <1>1, Apartness DEF Table, Hosts, Runs
<1>5. starts' = 0 /\ up' # "down" => SysctlRecoverable'
  BY NextKept DEF Below, Hosts, Runs, StillRecoverable
<1> QED BY <1>2, <1>3, <1>4, <1>5 DEF Hosts

LEMMA CleanHosts ==
  ASSUME Below, Staffed, Ends, Hosts, [DNext]_allvars, Cleans
  PROVE  Hosts'
<1>0. /\ host \in HostState /\ UNCHANGED <<state, slots, memory, control, pc, ret, arg, snap, ref, history>>
      /\ UNCHANGED <<ks, routes, tun, hard, enabled, raced>>
  BY DEF Cleans, slots, history, Below, TInv, TypeOK
<1>1. /\ Calm' <=> Calm
      /\ Devices' <=> Devices
      /\ Shown' <=> Shown
  BY <1>0 DEF Calm, Devices, DeviceAt, Shown
<1>2. CASE host' = host /\ Runs
  <2>1. /\ Tables' <=> Tables
        /\ Linked' <=> Linked
        /\ Routed' <=> Routed
        /\ Vouched' <=> Vouched
        /\ Saves' <=> Saves
    BY <1>0, <1>2 DEF Tables, Linked, Routed, Vouched, Saves
  <2>2. /\ Taken' <=> Taken
        /\ Standing' <=> Standing
        /\ SysctlRecoverable' <=> SysctlRecoverable
    BY <1>0, <1>1, <1>2, <2>1 DEF Taken, Takes, Standing, SysctlRecoverable
  <2> QED BY <1>1, <1>2, <2>1, <2>2, Apartness DEF Hosts, Runs
<1>3. CASE host' = ForceCleanup(host)
  <2>1. /\ host'.link = NoLink /\ ~host'.rules /\ host'.route = NoLink
        /\ host'.flag = host.flag /\ host'.arp = host.arp
        /\ host'.table = IF host.flag THEN host.table ELSE NoTable
        /\ Saves => host'.resolv = "host" /\ host'.backup = "none"
    BY <1>0, <1>3, Cleaned DEF Saves
  <2>2. Linked' /\ Routed' /\ Vouched' /\ (Tables => Tables') /\ (Saves => Saves' /\ Taken')
    BY <1>0, <2>1, HostNetAssumption DEF Linked, Routed, Vouched, Tables, Saves, Taken
  <2>3. CASE Runs /\ \E t \in Caller : job[t] = "stopping"
    <3>1. up = "stopping"
      BY <2>3 DEF Ends
    <3>2. SysctlRecoverable => SysctlRecoverable'
      BY <1>0, <2>1 DEF SysctlRecoverable
    <3> QED BY <1>1, <2>2, <2>3, <3>1, <3>2, Apartness DEF Hosts, Runs
  <2>4. CASE up = "down" /\ starts' > 0
    <3>1. \A t \in Thread : pc'[t] = "idle"
      BY <1>0, <2>4, NewIdle DEF Ends
    <3>2. \A c \in Conn : ref'[c] = "new"
      BY <1>0, <2>4 DEF Ends
    <3>3. Standing'
      BY <3>1, <3>2 DEF Standing, Shown, Raised, DialMid, Dialing
    <3>4. starts' # 0
      BY <2>4
    <3> QED BY <1>1, <2>2, <3>3, <3>4, Apartness DEF Hosts
  <2> QED BY <1>2, <1>3, <2>3, <2>4 DEF Cleans
<1> QED BY <1>2, <1>3 DEF Cleans

LEMMA DeathHosts ==
  ASSUME Below, Staffed, Ends, Hosts, [DNext]_allvars, Dies
  PROVE  Hosts'
<1>1. \A t \in Thread : pc'[t] = "idle"
  BY DEF Dies, Forget
<1>2. Devices'
  BY <1>1 DEF Devices
<1>3. Tables'
  BY DEF Dies, Tables
<1>4. ~overlap' => Saves'
  BY Apartness DEF Dies, Saves
<1> QED BY <1>2, <1>3, <1>4, Apartness DEF Dies, Hosts

LEMMA NextHosts ==
  ASSUME Below, Staffed, Ends, Hosts, [DNext]_allvars
  PROVE  Hosts'
BY Steps, RunHosts, CleanHosts, DeathHosts DEF Below

\* The table at the death of the process ...
LEMMA DeathOutlives ==
  ASSUME Below, Hosts, Outlives, Exit \/ Reboot
  PROVE  Outlives'
<1>0. host \in HostState
  BY DEF Below, TInv, TypeOK
<1>1. ASSUME NEW c \in Conn, Settled(c), host.flag PROVE host.table # NoTable
  BY <1>1 DEF Settled, Hosts, Standing, Shown
<1>2. shielded' => host.flag /\ host.table # NoTable
  BY <1>1 DEF Exit, Reboot, Vanish, Outlives
<1>3. \A c \in Conn : ref'[c] = "new"
  BY DEF Exit, Reboot, Vanish, Forget
<1>4. ASSUME NEW h \in HostState, h.flag = host.flag, h.flag => h.table # NoTable, Vanish(h)
      PROVE  Outlives'
  <2>1. host'.flag = h.flag /\ (h.table # NoTable => host'.table # NoTable)
    BY <1>4, HostNetAssumption DEF Vanish, HostState
  <2> QED BY <1>2, <1>3, <1>4, <2>1 DEF Outlives
<1>5. CASE Exit
  <2>1. /\ LinkDel(host) \in HostState
        /\ LinkDel(host).flag = host.flag /\ LinkDel(host).table = host.table
    <3>1. LinkDel(host) \in HostState
      BY <1>0, HostOps
    <3> QED BY <1>0, <3>1 DEF LinkDel, HostState
  <2>2. PICK h \in {host, LinkDel(host)} : Vanish(h)
    BY <1>5 DEF Exit
  <2>3. h \in HostState /\ h.flag = host.flag /\ h.table = host.table
    BY <1>0, <2>1, <2>2
  <2>4. host'.flag = h.flag /\ (h.table # NoTable => host'.table # NoTable)
    BY <2>2, <2>3, HostNetAssumption DEF Vanish, HostState
  <2> QED BY <1>2, <1>3, <2>3, <2>4 DEF Outlives
<1>6. CASE Reboot
  <2> DEFINE boot == [host EXCEPT !.table = IF host.flag THEN BootTable ELSE NoTable,
                                  !.link = NoLink, !.rules = FALSE, !.route = NoLink,
                                  !.arp = "own"]
  <2>1. /\ boot \in HostState /\ boot.flag = host.flag
        /\ boot.table = IF host.flag THEN BootTable ELSE NoTable
    BY <1>0 DEF HostState, Link
  <2>2. boot.flag => boot.table # NoTable
    BY <2>1, HostNetAssumption
  <2>3. Vanish(boot)
    BY <1>6 DEF Reboot
  <2> HIDE DEF boot
  <2> QED BY <1>4, <2>1, <2>2, <2>3
<1> QED BY <1>5, <1>6

\* ... stays, for nobody is there to drop it, and a cleanup spares it.
LEMMA NextOutlives ==
  ASSUME Below, Staffed, Ends, Hosts, Outlives, [DNext]_allvars
  PROVE  Outlives'
<1>1. CASE Exit \/ Reboot
  BY <1>1, DeathOutlives
<1>2. CASE ~(Exit \/ Reboot)
  <2> SUFFICES ASSUME shielded' PROVE host'.flag /\ host'.table # NoTable /\ \A c \in Conn : ref'[c] = "new"
    BY DEF Outlives
  <2> DEFINE Spared == shielded /\ ref' = ref /\ host' \in {host, ForceCleanup(host)}
  <2>1. ASSUME shielded, NEW t \in Caller, NEW c \in Conn, Disconnect(t, c) \/ CheckConnected(t, c)
        PROVE  FALSE
    BY <2>1 DEF Outlives, Disconnect, CheckConnected
  <2>2. ASSUME NEW t \in Thread, Within(t) PROVE FALSE
    <3>1. shielded /\ Run(t)
      BY <2>2 DEF Within, dvars
    <3> QED BY <3>1, NewIdle, RunsBusy DEF Outlives
  <2>3. ASSUME NEW t \in Caller, Goroutine(t) PROVE Spared
    <3>1. CASE DialServer(t)
      BY <3>1 DEF DialServer
    <3>2. CASE Stopped(t)
      BY <3>2 DEF Stopped, Process
    <3>3. CASE Replaced(t) \/ LockConnect(t) \/ ReloadConfig(t) \/ Publish(t) \/ SaveConfig(t) \/ LoggedOut(t) \/ Return(t)
      BY <3>3 DEF Replaced, LockConnect, ReloadConfig, Publish, SaveConfig, LoggedOut, Return, Process, vars
    <3>4. CASE Replace(t) \/ Dialed(t) \/ DropConn(t) \/ ApplySettings(t) \/ StopConn(t)
      <4>1. shielded
        BY <3>4 DEF Replace, Dialed, DropConn, ApplySettings, StopConn, Process
      <4>2. UNCHANGED vars
        BY <2>1, <3>4, <4>1, ConnectionSteps
      <4> QED BY <4>1, <4>2 DEF vars
    <3> QED BY <2>3, <3>1, <3>2, <3>3, <3>4 DEF Goroutine, DoConnect
  <2>4. ASSUME NEW t \in Caller, Command(t) PROVE Spared
    <3>1. CASE Logout(t)
      <4>1. shielded
        BY <3>1 DEF Logout, Process
      <4>2. UNCHANGED vars
        BY <2>1, <3>1, <4>1, ConnectionSteps
      <4> QED BY <4>1, <4>2 DEF vars
    <3>2. CASE ~Logout(t)
      BY <2>4, <3>2 DEF Command, BeginConnect, TakeConn, Login, Settings, BeginStop, Process, vars
    <3> QED BY <3>1, <3>2
  <2>5. ASSUME DEnvironment PROVE Spared
    BY <1>2, <2>5 DEF DEnvironment, NetworkLost, NetworkBack, TriggerReconnect, CertificateRejected,
       CertificateExpires, UserSaves, Start, dvars, vars, Process
  <2>6. ASSUME UNCHANGED allvars PROVE Spared
    BY <2>6 DEF allvars, vars, dvars
  <2>7. Spared
    BY <2>2, <2>3, <2>4, <2>5, <2>6 DEF DNext
  <2>8. host \in HostState
    BY DEF Below, TInv, TypeOK
  <2> QED BY <2>7, <2>8, Cleaned DEF Outlives
<1> QED BY <1>1, <1>2

LEMMA HostsInvariant == DSpec => [](Below /\ Staffed /\ Ends /\ Hosts /\ Outlives)
<1>1. Below /\ Staffed /\ Ends /\ Hosts /\ Outlives /\ [DNext]_allvars
      => (Below /\ Staffed /\ Ends /\ Hosts /\ Outlives)'
  BY NextBelow, NextStaffed, NextEnds, NextHosts, NextOutlives
<1>2. DInit => Below /\ Staffed /\ Ends /\ Hosts /\ Outlives
  BY InitStaffed, InitHosts
<1> QED BY <1>1, <1>2, PTL DEF DSpec

\* With no session and nobody at work nothing of one is left on the host: no
\* device, rule or route, the host's own resolver file and, in a first process,
\* its own sysctls, and no table but one the boot flag vouches for - through
\* any number of sessions, failed steps, overlapping reconnects, deaths and
\* restarts, as long as the daemon kept the sessions apart and no Enable
\* failed after loading its table (teardown, connection.go; ForceCleanup).
THEOREM IdleHostGivenBack == DSpec => []IdleHostRestored
<1>1. Below /\ Staffed /\ Ends /\ Hosts /\ Outlives => IdleHostRestored
  <2> SUFFICES ASSUME Below, Staffed, Hosts,
                      up = "up", held = NoConn, ~overlap,
                      \A t \in Thread : pc[t] = "idle",
                      \A t \in Caller : job[t] = "none",
                      \A c \in Conn : ~raced[c] /\ enabled[c] # "seedFailed"
               PROVE  /\ host.link = NoLink /\ ~host.rules /\ host.route = NoLink
                      /\ host.resolv = "host"
                      /\ host.arp = "own" \/ starts > 0
                      /\ host.table = NoTable \/ (host.table = BootTable /\ host.flag)
    BY DEF IdleHostRestored
  <2>0. host \in HostState
    BY DEF Below, TInv, TypeOK
  <2>1. \A c \in Conn : Clear(c)
    <3> SUFFICES ASSUME NEW c \in Conn PROVE Clear(c)
      OBVIOUS
    <3>1. \A t \in Caller : ~Dials(t) /\ ~Disconnects(t)
      BY DEF Dials, Disconnects, Dialing, TearingDown, Thread
    <3>2. ref[c] # "dialing"
      BY <3>1 DEF Below, Fields, DialerThere
    <3>3. ref[c] # "live"
      BY ConnectionAssumption DEF Staffed, Seats, Holding
    <3>4. ref[c] \in {"new", "closed"}
      BY <3>2, <3>3 DEF Below, TInv, TypeOK, FieldsOK
    <3> QED BY <3>1, <3>4 DEF Below, Fields, Fresh, ClosedClears, Leaving
  <2>2. Calm /\ Tables /\ Linked /\ Routed /\ Vouched /\ Taken
    BY DEF Hosts
  <2>3. /\ host.link = NoLink /\ ~host.rules /\ host.route = NoLink
        /\ host.resolv = "host"
    BY <2>0, <2>1, <2>2 DEF Linked, Routed, Taken, Takes, Clear, HostState
  <2>4. host.arp = "own" \/ starts > 0
    <3>1. ASSUME starts = 0 PROVE host.arp = "own"
      <4>1. \A t \in Thread : snap[t].saved # "own"
        BY DEF Below, Kept, SavedInTeardown, TearingDown
      <4> QED BY <2>0, <2>1, <3>1, <4>1 DEF Hosts, SysctlRecoverable, Clear, HostState
    <3> QED BY <3>1 DEF Staffed, DTypes, Typed
  <2>5. host.table = NoTable \/ (host.table = BootTable /\ host.flag)
    BY <2>0, <2>1, <2>2 DEF Tables, Vouched, Clear, HostState
  <2> QED BY <2>3, <2>4, <2>5
<1> QED BY <1>1, HostsInvariant, PTL

\* Fail closed: if the process or the host dies while a session with a kill
\* switch is settled and its boot flag written, a table stays loaded through
\* every further death, reboot, restart and cleanup until the next connect
\* (preboot.go, ForceCleanup).
THEOREM ShieldOutlives == DSpec => []ShieldOutlivesProcess
<1>1. Below /\ Staffed /\ Ends /\ Hosts /\ Outlives => ShieldOutlivesProcess
  BY DEF Outlives, ShieldOutlivesProcess
<1> QED BY <1>1, HostsInvariant, PTL
=============================================================================
