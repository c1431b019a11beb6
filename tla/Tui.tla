-------------------------------- MODULE Tui --------------------------------
(***************************************************************************)
(* tui.App (internal/tui/app.go, status.go, login.go, settings.go) over    *)
(* ipc.Client, and the daemon as far as a client can tell.                 *)
(*                                                                         *)
(* Update runs one message at a time.  Everything slow is a tea.Cmd, a     *)
(* goroutine that runs one IPC command and sends its result back as a      *)
(* message: msgs is what such goroutines are about to send, in no order.   *)
(* Events are sent by readLoop itself and keep their order.                *)
(*                                                                         *)
(* The daemon (internal/daemon/daemon.go) is phase, jobs and signedIn, and *)
(* saving and late for what goes on after d.conn has changed; it changes   *)
(* for this TUI's commands, for another client's, and by itself when a     *)
(* tunnel fails.  The second Connecting of a connect, which repeats the    *)
(* first, and Disconnecting, which Update ignores, are left out.  tick is  *)
(* whether a timer of TickCmd or SpinnerTickCmd runs: more than one may,   *)
(* so a firing may leave one.                                              *)
(* Layout, key bindings and the standalone mode without a daemon are not   *)
(* modelled; the server browser is module ServersView.                     *)
(***************************************************************************)
EXTENDS Ipc, Naturals

CONSTANTS SignedInAtStart,  \* what the daemon may know when the TUI starts
          MaxKeys,          \* bound on the keys pressed
          MaxMoves,         \* bound on what other clients and the network do
          MaxLosses         \* bound on deaths of the daemon

ASSUME TuiAssumption ==
    /\ SignedInAtStart \subseteq BOOLEAN
    /\ MaxKeys \in Nat /\ MaxMoves \in Nat /\ MaxLosses \in Nat

VARIABLES
    view,       \* App.view; "standalone" is the login view with no daemon
    authed,     \* App.authenticated
    shown,      \* StatusModel.state
    step,       \* LoginModel.step
    listed,     \* the server view has servers to choose from
    handler,    \* Client.EventHandler is set
    boot,       \* what tryConnect read with its first command
    msgs, tick,
    mem,        \* kill switch in the TUI's config, in the file, in d.cfg
    file, dcfg,
    phase, jobs, signedIn,
    saving,     \* doConnect has read the config again and is about to save it
    late,       \* reconnect loops that are cancelled and not yet through
    keys, moves,
    saved, overlapped,  \* history: what "s" last saved, and whether it did so
                        \* while the daemon was saving
    misled      \* history: an event found no handler, a status no case in
                \* SetFromDaemonStatus, an event overtook a status, or a
                \* cancelled reconnect came through

appVars    == <<view, authed, shown, step, listed, handler>>
daemonVars == <<phase, jobs, signedIn, dcfg, saving, late>>
saves      == <<saved, overlapped>>
settings   == <<mem, file, saves>>
bounds     == <<keys, moves>>
tvars == <<ipcVars, appVars, boot, msgs, tick, settings, daemonVars, bounds, misled>>

View   == {"loading", "login", "servers", "status", "settings", "standalone"}
Shown  == {"disconnected", "connecting", "connected", "reconnecting",
           "disconnecting", "error"}
Polls  == {"bootStatus", "status", "stats", "account"}
Kind   == Polls \cup {"bootServers", "servers", "connect", "disconnect",
                      "login", "settings", "logout"}

\* d.conn is set once doConnect is through.  A reconnect loop never gives up:
\* it ends with a tunnel or with the connection.
Phase   == {"idle", "starting", "dialing", "fallback", "stealth", "verifying",
            "up", "reconnecting"}
Holding == {"up", "reconnecting"}

Status  == {"disconnected", "Connecting", "Connected", "Reconnecting", "Disconnected"}

Msg(name, v) == [name |-> name, value |-> v]

TInit ==
    /\ InitIpc
    /\ view = "loading" /\ authed = FALSE /\ shown = "disconnected"
    /\ step = "username" /\ listed = FALSE /\ handler = FALSE
    /\ boot = "none" /\ msgs = {} /\ tick = FALSE
    /\ mem = TRUE /\ file = TRUE /\ dcfg = TRUE /\ saved = TRUE /\ overlapped = FALSE
    /\ signedIn \in SignedInAtStart
    /\ phase \in IF signedIn THEN {"idle", "up"} ELSE {"idle"}
    /\ jobs = 0 /\ saving = FALSE /\ late = 0
    /\ keys = 0 /\ moves = 0 /\ misled = FALSE

-----------------------------------------------------------------------------
(* IPC commands and the message each goroutine ends with *)

Submit(kinds) == waiting' = waiting \cup kinds

\* The message a command's goroutine sends for an answer, {} for none.
Result(k, v) ==
    CASE k = "bootStatus" -> IF v = "failed" THEN {Msg("sessionExpired", v)}
                             ELSE IF v = "not_authenticated"
                             THEN {Msg("daemonConnected", v)} ELSE {}
      [] k = "bootServers" -> {Msg("daemonConnected", boot)}
      [] k = "servers"     -> {Msg("serversLoaded", v)}
      [] k = "connect"     -> IF v = "ok" THEN {} ELSE {Msg("connectError", v)}
      [] k = "disconnect"  -> {Msg("disconnected", v)}
      [] k = "login"       -> {Msg("loginResult", v)}
      [] k = "logout"      -> {Msg("logout", v)}
      [] k = "status"      -> IF v = "failed" THEN {} ELSE {Msg("status", v)}
      [] k = "stats"       -> {Msg("stats", v)}
      [] OTHER             -> {}

\* tryConnect dials and asks for the status.
Boot ==
    /\ view = "loading" /\ boot = "none" /\ waiting = {} /\ doing = "none" /\ msgs = {}
    /\ boot' = "asked"
    /\ Submit({"bootStatus"})
    /\ UNCHANGED <<doing, req, sock, link, appVars, msgs, tick, settings,
                   daemonVars, bounds, misled>>

SendCommand ==
    /\ \E k \in waiting : Send(k)
    /\ UNCHANGED <<appVars, boot, msgs, tick, settings, daemonVars, bounds, misled>>

\* The goroutine of command k returns; tryConnect goes on with the servers.
Finish(k, v) ==
    /\ msgs' = msgs \cup Result(k, v)
    /\ boot' = IF k = "bootStatus" THEN v ELSE boot
    /\ UNCHANGED <<appVars, tick, settings, daemonVars, bounds, misled>>

ReceiveReply ==
    /\ Receive
    /\ LET f == Head(sock) IN Finish(f.kind, f.value)

CommandFails ==
    \/ \E k \in waiting : SendFails(k) /\ Finish(k, "failed")
    \/ Eof /\ Finish(doing, "failed")

BootServers ==
    /\ view = "loading" /\ boot \in Status
    /\ doing = "none" /\ waiting = {} /\ msgs = {}
    /\ Submit({"bootServers"})
    /\ UNCHANGED <<doing, req, sock, link, appVars, boot, msgs, tick, settings,
                   daemonVars, bounds, misled>>

-----------------------------------------------------------------------------
(* Update: messages *)

idleIpc == <<doing, req, sock, link>>
Config  == <<boot, settings, daemonVars, bounds>>
Settled == <<Config, misled>>

TakeMsg(m) == m \in msgs /\ msgs' = msgs \ {m}

\* daemonConnectedMsg: with a login to do, Update returns before it installs
\* the event handler.
OnDaemonConnected(m) ==
    /\ TakeMsg(m) /\ m.name = "daemonConnected"
    /\ IF m.value = "not_authenticated"
       THEN /\ view' = "login" /\ step' = "username"
            /\ UNCHANGED <<authed, shown, listed, handler, waiting, tick>>
       ELSE /\ authed' = TRUE /\ handler' = TRUE
            /\ listed' \in BOOLEAN
            /\ IF m.value = "Connected"
               THEN /\ view' = "status" /\ shown' = "connected" /\ tick' = TRUE
                    /\ UNCHANGED waiting
               ELSE /\ view' = "servers"
                    /\ Submit(IF listed' THEN {} ELSE {"servers"})
                    /\ UNCHANGED <<shown, tick>>
            /\ UNCHANGED step
    /\ boot' = "done"
    /\ UNCHANGED <<idleIpc, settings, daemonVars, bounds, misled>>

\* sessionExpiredMsg: the login view, without a daemon client.
OnSessionExpired(m) ==
    /\ TakeMsg(m) /\ m.name = "sessionExpired"
    /\ view' = "standalone" /\ step' = "username"
    /\ UNCHANGED <<ipcVars, authed, shown, listed, handler, tick, Settled>>

\* loginDoneMsg, login2FAMsg and loginErrMsg go to the view that shows when
\* they arrive: any other than the login view drops them.
OnLoginResult(m) ==
    /\ TakeMsg(m) /\ m.name = "loginResult"
    /\ IF view # "login" THEN UNCHANGED <<appVars, waiting>>
       ELSE CASE m.value = "ok" ->
                   /\ authed' = TRUE /\ view' = "servers" /\ listed' = FALSE
                   /\ Submit({"servers"})
                   /\ UNCHANGED <<shown, step, handler>>
              [] m.value = "2fa_required" ->
                   /\ step' = "2fa"
                   /\ UNCHANGED <<view, authed, shown, listed, handler, waiting>>
              [] OTHER ->
                   /\ step' = IF step = "logging" THEN "username" ELSE step
                   /\ UNCHANGED <<view, authed, shown, listed, handler, waiting>>
    /\ UNCHANGED <<idleIpc, tick, Settled>>

OnServersLoaded(m) ==
    /\ TakeMsg(m) /\ m.name = "serversLoaded"
    /\ listed' = IF m.value = "failed" THEN listed ELSE m.value = "some"
    /\ UNCHANGED <<ipcVars, view, authed, shown, step, handler, tick, Settled>>

OnConnectError(m) ==
    /\ TakeMsg(m) /\ m.name = "connectError"
    /\ shown' = "error"
    /\ UNCHANGED <<ipcVars, view, authed, step, listed, handler, tick, Settled>>

OnDisconnected(m) ==
    /\ TakeMsg(m) /\ m.name = "disconnected"
    /\ shown' = "disconnected" /\ view' = "servers"
    /\ UNCHANGED <<ipcVars, authed, step, listed, handler, tick, Settled>>

\* daemonStatusMsg: SetFromDaemonStatus knows the states of a Connection;
\* cmdStatus calls a daemon without one "disconnected" in lower case.
ShownOf(v) ==
    CASE v = "Connected"    -> "connected"
      [] v = "Connecting"   -> "connecting"
      [] v = "Reconnecting" -> "reconnecting"
      [] v = "Disconnected" -> "disconnected"
      [] OTHER              -> shown

Known(v) == v \in {"Connected", "Connecting", "Reconnecting", "Disconnected"}

OnStatus_Mutant(m) ==
    /\ TakeMsg(m) /\ m.name = "status"
    /\ shown' = ShownOf(m.value)
    /\ misled' = (misled \/ ~Known(m.value))
    /\ UNCHANGED <<ipcVars, view, authed, step, listed, handler, tick, Config>>
OnStatus(m) ==
    /\ TakeMsg(m) /\ m.name = "status"
    /\ shown' = ShownOf(m.value)
    /\ tick' = (tick \/ m.value = "Connected")
    /\ misled' = (misled \/ ~Known(m.value))
    /\ UNCHANGED <<ipcVars, view, authed, step, listed, handler, Config>>

\* daemonStatsMsg counts only in the status view, and starts the next timer.
OnStats(m) ==
    /\ TakeMsg(m) /\ m.name = "stats"
    /\ tick' = (tick \/ view = "status")
    /\ UNCHANGED <<ipcVars, appVars, Settled>>

OnLogout(m) ==
    /\ TakeMsg(m) /\ m.name = "logout"
    /\ authed' = FALSE /\ view' = "login" /\ step' = "username"
    /\ UNCHANGED <<ipcVars, shown, listed, handler, tick, Settled>>

Message == \E m \in msgs :
    \/ OnDaemonConnected(m) \/ OnSessionExpired(m) \/ OnLoginResult(m)
    \/ OnServersLoaded(m) \/ OnConnectError(m) \/ OnDisconnected(m)
    \/ OnStatus(m) \/ OnStats(m) \/ OnLogout(m)

\* A timer fires.  In the status view it polls or turns the spinner; any
\* other view lets the chain of timers end.
Tick_ ==
    /\ tick
    /\ \E left \in BOOLEAN :
          IF view = "status" /\ shown = "connected"
          THEN tick' = left /\ Submit({"stats"})
          ELSE /\ tick' = (left \/ (view = "status" /\ shown \in {"connecting", "reconnecting"}))
               /\ UNCHANGED waiting
    /\ UNCHANGED <<idleIpc, appVars, msgs, Settled>>

\* readLoop calls the handler, which hands the event to Update; with no
\* handler the event is lost.
DaemonEvent ==
    /\ Pop
    /\ LET v == Head(sock).value IN
       IF ~handler
       THEN misled' = TRUE /\ UNCHANGED <<appVars, waiting, tick>>
       ELSE /\ CASE v = "Connecting" ->
                     /\ shown' = "connecting" /\ view' = "status" /\ tick' = TRUE
                     /\ UNCHANGED waiting
                [] v = "Connected" ->
                     /\ shown' = "connected" /\ tick' = TRUE
                     /\ Submit({"status"}) /\ UNCHANGED view
                [] v = "Reconnecting" ->
                     /\ shown' = "reconnecting" /\ view' = "status" /\ tick' = TRUE
                     /\ UNCHANGED waiting
                [] v = "Disconnected" ->
                     /\ shown' = "disconnected" /\ view' = "servers"
                     /\ UNCHANGED <<tick, waiting>>
                [] v = "error" ->
                     /\ shown' = "error" /\ UNCHANGED <<view, tick, waiting>>
            /\ misled' = (misled \/ \E m \in msgs : m.name = "status")
            /\ UNCHANGED <<authed, step, listed, handler>>
    /\ UNCHANGED <<boot, msgs, settings, daemonVars, bounds>>

-----------------------------------------------------------------------------
(* Update: keys *)

Press == keys < MaxKeys /\ keys' = keys + 1
Quiescent == <<boot, daemonVars, moves, misled>>

\* The tabs: "1" polls unless a spinner is on, "3" asks for the account.
StatusTab ==
    /\ Press /\ authed
    /\ view' = "status"
    /\ IF shown \in {"connecting", "reconnecting"}
       THEN tick' = TRUE /\ UNCHANGED waiting
       ELSE Submit({"status"}) /\ UNCHANGED tick
    /\ UNCHANGED <<idleIpc, authed, shown, step, listed, handler, msgs, settings, Quiescent>>

ServersTab ==
    /\ Press /\ authed
    /\ view' = "servers"
    /\ UNCHANGED <<ipcVars, authed, shown, step, listed, handler, msgs, tick, settings, Quiescent>>

SettingsTab ==
    /\ Press /\ authed
    /\ view' = "settings"
    /\ Submit({"account"})
    /\ UNCHANGED <<idleIpc, authed, shown, step, listed, handler, msgs, tick, settings, Quiescent>>

\* Choosing a server: ConnectRequestMsg, which starts the command.
ConnectKey ==
    /\ Press /\ view = "servers" /\ listed
    /\ view' = "status" /\ shown' = "connecting" /\ tick' = TRUE
    /\ Submit({"connect"})
    /\ UNCHANGED <<idleIpc, authed, step, listed, handler, msgs, settings, Quiescent>>

\* A filter key in the servers view: the config is read from the file and
\* written back, unsaved settings are lost.
FilterKey ==
    /\ Press /\ view = "servers" /\ mem # file
    /\ mem' = file
    /\ UNCHANGED <<ipcVars, appVars, msgs, tick, file, saves, Quiescent>>

\* "d" in the status view, or esc.
DisconnectKey ==
    /\ Press /\ view = "status"
    /\ \/ /\ shown \in {"connected", "reconnecting"}
          /\ shown' = "disconnecting"
          /\ Submit({"disconnect"}) /\ UNCHANGED msgs
       \/ /\ shown \in {"error", "disconnected"}
          /\ msgs' = msgs \cup {Msg("disconnected", "ok")}
          /\ UNCHANGED <<waiting, shown>>
    /\ UNCHANGED <<idleIpc, view, authed, step, listed, handler, tick, settings, Quiescent>>

\* The kill switch setting (two values: its key needs no bound), and "s",
\* which writes the whole config of this process and then tells the daemon.
ToggleKey ==
    /\ view = "settings"
    /\ mem' = ~mem
    /\ UNCHANGED <<ipcVars, appVars, msgs, tick, file, saves, keys, Quiescent>>

SaveKey ==
    /\ Press /\ view = "settings"
    /\ file' = mem /\ saved' = mem /\ overlapped' = saving
    /\ Submit({"settings"})
    /\ UNCHANGED <<idleIpc, appVars, msgs, tick, mem, Quiescent>>

LogoutKey ==
    /\ Press /\ view = "settings"
    /\ Submit({"logout"})
    /\ UNCHANGED <<idleIpc, appVars, msgs, tick, settings, Quiescent>>

\* Enter in the login view: the fields one after the other, then the command.
LoginKey ==
    /\ Press /\ view = "login"
    /\ \/ /\ step = "username" /\ step' = "password" /\ UNCHANGED waiting
       \/ /\ step \in {"password", "2fa"} /\ step' = "logging"
          /\ Submit({"login"})
    /\ UNCHANGED <<idleIpc, view, authed, shown, listed, handler, msgs, tick, settings, Quiescent>>

Key == \/ StatusTab \/ ServersTab \/ SettingsTab \/ ConnectKey \/ FilterKey
       \/ DisconnectKey \/ ToggleKey \/ SaveKey \/ LogoutKey \/ LoginKey

-----------------------------------------------------------------------------
(* The daemon's side of the socket *)

ui == <<appVars, boot, msgs, tick, settings, keys, misled>>

StatusOf ==
    IF ~signedIn THEN "not_authenticated"
    ELSE CASE phase = "up"           -> "Connected"
           [] phase = "reconnecting" -> "Reconnecting"
           [] OTHER                  -> "disconnected"

ReplyStatus ==
    /\ req \in Polls
    /\ Answer(<<Response(req, StatusOf)>>)
    /\ UNCHANGED <<ui, daemonVars, moves>>

ReplyServers ==
    /\ req \in {"servers", "bootServers"}
    /\ \E v \in IF signedIn THEN {"some", "none"} ELSE {"none"} :
          Answer(<<Response(req, v)>>)
    /\ UNCHANGED <<ui, daemonVars, moves>>

\* cmdConnect answers at once; doConnect runs on in a goroutine.
ReplyConnect ==
    /\ req = "connect"
    /\ IF signedIn
       THEN jobs' = jobs + 1 /\ Answer(<<Response(req, "ok")>>)
       ELSE UNCHANGED jobs /\ Answer(<<Response(req, "error")>>)
    /\ UNCHANGED <<ui, phase, signedIn, dcfg, saving, late, moves>>

\* What Disconnect of the connection the daemon holds pushes.
Farewell_Mutant == <<>>
Farewell == IF phase \in Holding THEN <<Event("Disconnected")>> ELSE <<>>
Dropped  == IF phase \in Holding THEN "idle" ELSE phase

\* Disconnect only cancels a reconnect loop, and does not wait for it.
CancelLoop == late' = IF phase = "reconnecting" THEN late + 1 ELSE late

ReplyDisconnect ==
    /\ req = "disconnect"
    /\ Answer(Farewell \o <<Response(req, "ok")>>)
    /\ phase' = Dropped /\ CancelLoop
    /\ UNCHANGED <<ui, jobs, signedIn, dcfg, saving, moves>>

ReplyLogin ==
    /\ req = "login"
    /\ \E v \in {"ok", "2fa_required", "error"} :
          /\ Answer(<<Response(req, v)>>)
          /\ signedIn' = (signedIn \/ v = "ok")
    /\ UNCHANGED <<ui, phase, jobs, dcfg, saving, late, moves>>

ReplyLogout ==
    /\ req = "logout"
    /\ Answer(Farewell \o <<Event("Disconnected"), Response(req, "ok")>>)
    /\ phase' = Dropped /\ signedIn' = FALSE /\ CancelLoop
    /\ UNCHANGED <<ui, jobs, dcfg, saving, moves>>

ReplySettings ==
    /\ req = "settings"
    /\ dcfg' = file
    /\ Answer(<<Response(req, "ok")>>)
    /\ UNCHANGED <<ui, phase, jobs, signedIn, saving, late, moves>>

Reply == \/ ReplyStatus \/ ReplyServers \/ ReplyConnect \/ ReplyDisconnect
         \/ ReplyLogin \/ ReplyLogout \/ ReplySettings

\* doConnect, one at a time: disconnect what there is, read the config, get a
\* certificate, announce, dial (WireGuard, then perhaps Stealth), verify the
\* kill switch, and only then publish the connection and save the config.
Dial(from, to, frames) ==
    /\ link = "up" /\ phase \in from /\ phase' = to
    /\ Push(frames)

ConnectStart_Mutant ==
    /\ jobs' = jobs - 1 /\ ~saving
    /\ Dial({"idle"} \cup Holding, "starting", Farewell) /\ CancelLoop
    /\ dcfg' = file
    /\ UNCHANGED <<ui, signedIn, saving, moves>>
ConnectStart ==
    /\ jobs > 0 /\ jobs' = jobs - 1 /\ ~saving
    /\ Dial({"idle"} \cup Holding, "starting", Farewell) /\ CancelLoop
    /\ dcfg' = file
    /\ UNCHANGED <<ui, signedIn, saving, moves>>

\* A failed first try of the smart protocol says Disconnected, and after a new
\* certificate Connecting again.
ConnectSteps_Mutant ==
    /\ \/ Dial({"starting", "fallback"}, "idle", <<>>)
       \/ Dial({"starting"}, "dialing", <<Event("Connecting")>>)
       \/ Dial({"dialing"}, "fallback", <<Event("Disconnected")>>)
       \/ Dial({"fallback"}, "stealth", <<Event("Connecting")>>)
       \/ Dial({"dialing", "stealth", "verifying"}, "idle",
               <<Event("Disconnected"), Event("error")>>)
       \/ Dial({"dialing", "stealth"}, "verifying", <<Event("Connected")>>)
    /\ UNCHANGED <<ui, jobs, signedIn, dcfg, saving, late, moves>>
ConnectSteps ==
    /\ \/ Dial({"starting", "fallback"}, "idle", <<Event("error")>>)
       \/ Dial({"starting"}, "dialing", <<Event("Connecting")>>)
       \/ Dial({"dialing"}, "fallback", <<Event("Disconnected")>>)
       \/ Dial({"fallback"}, "stealth", <<Event("Connecting")>>)
       \/ Dial({"dialing", "stealth", "verifying"}, "idle",
               <<Event("Disconnected"), Event("error")>>)
       \/ Dial({"dialing", "stealth"}, "verifying", <<Event("Connected")>>)
    /\ UNCHANGED <<ui, jobs, signedIn, dcfg, saving, late, moves>>

\* The connection is there for commands, and the config is read once more ...
ConnectPublished_Mutant ==
    /\ Dial({"verifying"}, "up", <<>>)
    /\ saving' = TRUE
    /\ UNCHANGED <<ui, jobs, signedIn, dcfg, late, moves>>
ConnectPublished ==
    /\ Dial({"verifying"}, "up", <<>>)
    /\ dcfg' = file /\ saving' = TRUE
    /\ UNCHANGED <<ui, jobs, signedIn, late, moves>>

\* ... and with the server just used in it written back as a whole.
ConnectSaved ==
    /\ saving /\ saving' = FALSE
    /\ file' = dcfg
    /\ UNCHANGED <<ipcVars, appVars, boot, msgs, tick, mem, saves, phase, jobs, signedIn,
                   dcfg, late, bounds, misled>>

Move == moves < MaxMoves /\ moves' = moves + 1

\* The tunnel fails and the monitor starts the reconnect loop.  An attempt
\* that fails changes nothing a client can see; one that succeeds says so.
TunnelFails ==
    /\ Move
    /\ Dial({"up"}, "reconnecting", <<Event("Reconnecting")>>)
    /\ UNCHANGED <<ui, jobs, signedIn, dcfg, saving, late>>

Reconnected ==
    /\ Dial({"reconnecting"}, "up", <<Event("Connected")>>)
    /\ UNCHANGED <<ui, jobs, signedIn, dcfg, saving, late, moves>>

\* A cancelled loop says Disconnected once more when it notices, unless the
\* attempt it was in came through all the same: nobody holds that connection.
LateLoop ==
    /\ late > 0 /\ late' = late - 1
    /\ \/ Push(<<Event("Disconnected")>>) /\ UNCHANGED misled
       \/ Push(<<Event("Connected")>>) /\ misled' = TRUE
    /\ UNCHANGED <<appVars, boot, msgs, tick, settings, phase, jobs, signedIn, dcfg,
                   saving, bounds>>

\* pvpnctl, or a second TUI.
OtherClient ==
    /\ Move /\ link = "up" /\ signedIn
    /\ \/ /\ jobs = 0 /\ jobs' = 1
          /\ UNCHANGED <<phase, late, ipcVars>>
       \/ /\ phase \in Holding
          /\ Push(Farewell) /\ phase' = "idle" /\ CancelLoop /\ UNCHANGED jobs
    /\ UNCHANGED <<ui, signedIn, dcfg, saving>>

DaemonDies ==
    /\ Move /\ MaxLosses > 0
    /\ Lose /\ phase' = "idle" /\ jobs' = 0 /\ saving' = FALSE /\ late' = 0
    /\ UNCHANGED <<ui, signedIn, dcfg>>

TNext ==
    \/ Boot \/ SendCommand \/ ReceiveReply \/ CommandFails \/ BootServers
    \/ Message \/ Tick_ \/ DaemonEvent \/ Key \/ Reply
    \/ ConnectStart \/ ConnectSteps \/ ConnectPublished \/ ConnectSaved
    \/ TunnelFails \/ Reconnected \/ LateLoop \/ OtherClient \/ DaemonDies

\* The goroutines of the TUI and of its socket run, the daemon answers, and
\* doConnect comes to an end (its context has a deadline).  Nobody has to
\* press a key, no timer or tunnel has to fire or fail, and no reconnect has
\* to succeed.
TFairness ==
    /\ WF_tvars(Boot \/ BootServers \/ SendCommand \/ Reply \/ ReceiveReply
                \/ CommandFails \/ DaemonEvent)
    /\ WF_tvars(Message)
    /\ WF_tvars(ConnectStart \/ ConnectSteps \/ ConnectPublished \/ ConnectSaved)

TSpec == TInit /\ [][TNext]_tvars /\ TFairness
-----------------------------------------------------------------------------
(* Properties *)

TTypeOK ==
    /\ waiting \subseteq Kind /\ doing \in Kind \cup {"none"}
    /\ req \in Kind \cup {"none"} /\ link \in {"up", "lost"}
    /\ view \in View /\ shown \in Shown
    /\ step \in {"username", "password", "2fa", "logging"}
    /\ {authed, listed, handler, tick, mem, file, dcfg, signedIn, saving,
        saved, overlapped, misled} \subseteq BOOLEAN
    /\ phase \in Phase /\ jobs \in Nat /\ late \in Nat

\* The answer that will reach the command holding c.mu is the answer to its
\* own request: at any time at most one request is on its way, and nothing
\* of an earlier command is left in the socket (Client.Do, readLoop).
RepliesMatch ==
    /\ req # "none" => req = doing /\ Responses = {}
    /\ \A i, j \in Responses : i = j
    /\ \A i \in Responses : sock[i].kind = doing

\* While the status view shows a connection, something keeps it fresh: a
\* timer, a poll on its way or its result (StatusModel.UpdateDaemon).
ConnectedViewPolls ==
    view = "status" /\ shown = "connected" /\ link = "up" /\ ~misled =>
        \/ tick
        \/ {"status", "stats"} \cap (waiting \cup {doing}) # {}
        \/ \E m \in msgs : m.name \in {"status", "stats"}

Quiet ==
    /\ waiting = {} /\ doing = "none" /\ sock = <<>> /\ msgs = {} /\ jobs = 0
    /\ link = "up" /\ boot # "none"

\* Once nothing is on its way, the daemon runs with the kill switch setting
\* that is in the file (SettingsModel "s", NotifySettingsChanged), and that is
\* the one last saved with "s": the daemon reads the file again before it
\* writes it (doConnect).  Excepted is a save that fell between this reading
\* and this writing, which the writing may undo.
SettingsReachDaemon == Quiet => dcfg = file /\ (overlapped \/ file = saved)

\* Without the exception it does not hold.
SettingsKept == Quiet => file = saved

\* No command hangs: whoever holds c.mu gets an answer or an error, also
\* when the daemon dies in between (readLoop's nil response).
CommandsReturn == doing # "none" ~> doing = "none"

\* Once nothing is on its way, a daemon without a working connection is not
\* shown as connected (App.handleDaemonEvent, StatusModel.SetFromDaemonStatus).
FalselyConnected ==
    Quiet /\ authed /\ view = "status" /\ shown = "connected" /\ phase \notin {"verifying", "up"}
NeverFalselyConnected == ~FalselyConnected
InformedNotFalse == ~misled => ~FalselyConnected

\* The opposite does not hold: a cancelled reconnect loop says Disconnected
\* after another connection has replaced its own, and the result of "d" may
\* be taken after the events of a later connect.
NotShownDown ==
    ~misled /\ Quiet /\ late = 0 /\ authed /\ phase = "up" => shown # "disconnected"

\* A connect is not shown as under way for ever: the state changes come via
\* events (App.connectDaemon), also to a TUI that had to log in first.
ConnectingShown == view = "status" /\ shown = "connecting"
ConnectingResolves == ConnectingShown ~> (~ConnectingShown \/ link = "lost")

\* The same of a TUI whose every event found the handler, and in order.
InformedConnectingResolves ==
    ConnectingShown ~> (~ConnectingShown \/ link = "lost" \/ misled)
=============================================================================
