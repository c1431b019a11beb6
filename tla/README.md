# Verification of pVPN

TLA+ specifications of pVPN, a ProtonVPN client for Linux (`pvpnd`, the
privileged daemon, with `pvpn` and `pvpnctl` as unprivileged front ends), with
TLC configurations that model-check them and TLAPS proofs about them. File
and line references are to the Go source under `src/`.

## 1. The system

`pvpnd` answers commands on a Unix socket and owns everything privileged: the
tunnel device `pvpn0`, the nftables kill switch, policy routes, the resolver
configuration, hardening sysctls. At most one `vpn.Connection` is held in
`d.conn`; each object is connected once, is watched by a monitor goroutine that
reconnects it, and is disconnected once by its holder. `pvpn` is a terminal UI:
one goroutine runs `Update`, every slow thing is a goroutine that sends a message
back, and events of the daemon come in through the socket's read loop.

### Inventory

| Component | State | Operations | What makes it correct |
|---|---|---|---|
| vpn connection (`vpn/connection.go`) | `info.State`, `ks`, `rm`, `wg`/`stealthMgr`, `sysctl`, `last*`, `reconnectCancel`, `wakeCh` | Connect, doConnect, teardown, monitorConnection, doReconnect, SetKillSwitch, Disconnect, TriggerReconnect | whatever fails and whatever overlaps, the host is given back; a kill switch lasts through a reconnect; a disconnect ends the monitor |
| kill switch (`killswitch.go`, `preboot.go`) | the table, `killswitch.state`, `preboot.nft`, `api-ips.txt` | Enable, Disable, Verify, boot state | the table is loaded when, and only when, it was asked for |
| routing (`routes.go`) | rules 9999/10000, VPN table, LAN snapshot | Up, Down, RefreshLANSnapshot | tunnel traffic and LAN traffic take their way, nothing else leaves |
| tunnel devices (`wireguard.go`, `stealth/stealth.go`) | `pvpn0` | Up/Down, Open/Close | the device goes with its session |
| sysctls (`sysctl.go`) | values changed by one hardener | Apply, Revert | the host's own values are never lost |
| DNS backends (`network/`) | `resolv.conf` and its backup, or another service | SetDNS, RevertDNS | the host's resolver comes back |
| stale state cleanup (`cleanup.go`) | none of its own | ForceCleanup | removes what a dead process left, keeps the boot kill switch |
| daemon (`daemon/daemon.go`, `pvpnd/main.go`) | `conn`, `connectMu`, `mu`, `cfg`, `serverList`, `clients`, init pacing | IPC commands, autoConnect, initSession, Run, Stop | one connect at a time, no session without a holder, shutdown restores the host |
| API client (`api/client.go`, `session.go`, `auth.go`) | uid, tokens, `refreshMu`, `rateLimitedUntil`, session file | doRequest, refreshTokens, Login, SetSession | single-use refresh tokens are used once; a rate limit is respected; the file has the client's tokens |
| server list (`api/servers.go`, `servercache.go`) | list, cache file | filter, sort, choose, load | the best admissible server is chosen |
| port forwarding (`portforward.go`) | port, bothTCP, everMapped, stopped | run loop, mapBoth, Stop | a port that is shown is mapped; Stop releases it |
| stealth transport (`stealth/framing.go`, `tlsbind.go`) | TLS connection, framing state of four ends | Open, Send, receive, Close | the receiver reads the packet that was sent; after Close nothing is dialed |
| IPC (`ipc/`) | pending command, event handler | Do, readLoop, broadcast | every command ends, with its own answer |
| terminal UI (`tui/`) | view, shown state, login step, server browser, its own config | Update on messages, keys, timers | the view follows the daemon; what is picked is what is asked for |
| configuration (`config/`) | one file, read and written by daemon and TUI | Load, Save, Reload | neither writer undoes the other |
| network monitor (`daemon/netmon.go`) | known links, timer | event filter, debouncer | (not modelled) |
| Local Agent, `pvpnctl`, tools, packaging | none of interest | one request, rendering | (not modelled) |

Interaction: an IPC handler runs in a goroutine of its client; `cmdConnect` and
`autoConnect` run `doConnect` in one of their own, serialised by `connectMu`;
`d.mu` guards `d.conn`. The monitor goroutine is started by `Connect` and, after
each successful reconnect, by `doReconnect`, which ends right after. Sleep and
network monitors call `TriggerReconnect` and `retryInitSessionIfStuck`. State
changes are broadcast to every client as events. `Connection.mu` is held around
single field accesses and in `SetKillSwitch` only. All Connection objects edit
one host: table, device, route table id and resolver file have fixed names. All
users of the API share one client.

What is hard here: concurrent teardowns and dials over the same host, values
read under a lock and used after it, partial failure of a dial, reconnect loops
that must end on a disconnect and succeed otherwise, a process or a host that
dies at any step, single-use tokens under concurrent requests, answers and
events that overtake each other, datagrams that are lost, and two ends that must
count alike. `PROJECT.json` lists the hazards line by line.

## 2. Modules and their relation to the code

| Module | Models | Composed with |
|---|---|---|
| `HostNet` | the host that all connections edit | extended by `Connection` |
| `Connection` | `connection.go` and the operations it calls | extended by `Daemon` |
| `Daemon` | the daemon around its connection; crash, reboot, start, stop | |
| `ApiClient` | `doRequest`, `refreshTokens`, cooldown, session file; the server is external | extended by `Account` |
| `Account` | `initSession`, its pacing, login, logout, cache, crash | |
| `Servers` | selection as operators, with every selecting function of the daemon | extended by `ServersView` |
| `ServersView` | the server browser of the TUI (`tui/servers.go`) | |
| `Ipc` | `ipc.Client` and the socket | extended by `Tui` |
| `Tui` | `App.Update` and its views, and the daemon as a client sees it | |
| `PortForward` | `portforward.go` against a NAT-PMP gateway | |
| `Framing` | TunSafe framing: the state of one end as operators | extended by `TlsBind` |
| `TlsBind` | `tlsbind.go`: connection, senders, receiver, server | implements `Datagrams` |
| `Datagrams` | abstract: what WireGuard needs of a bind | instantiated by `TlsBind` |
| `*_proof` | theorems about the module of that name (`ServersView_proof`: about `Servers` too) | |
| `MC*` | values of the constants for TLC | |

**HostNet** is one record: `table` (which connection's server the loaded
`pvpn_killswitch` table admits, the boot table, or none), `flag` (the boot
flag), `link` (ifindex of `pvpn0`), `rules` and `route` (policy rules and
default route of the VPN table), `resolv` and `backup` (`DirectBackend`), `arp`
(hardening sysctls). Operations are functions on this record. Deleting the
device purges the route through it, as the kernel does.

**Connection** models the goroutines that execute `connection.go`. A thread is a
caller or, named by the connection itself, its current monitor. `pc[t]` is the
next host operation of the thread, `ret[t]` the function that called teardown
or doConnect, `arg[t]` and `snap[t]` the locals: what doConnect was passed, and
what teardown read under `c.mu` before acting. One step is one host operation
with the field update that follows it; any thread may run between two steps.
doConnect is `ShieldDown, ApplyRules, SeedAPIs, HardenHost, BringUpTunnel,
SetUpRoutes, WaitLocalAgent, TakeOverDNS, PersistBootState, Connected`, each with
its failure; teardown is `TearDown, DropShield, GiveBackDNS, DropRoutes,
DropTunnel, RelaxHost`. The monitor's select, the wake check, the reconnect loop
and each wait that looks at the context have an action each.
`SetKillSwitch` is one step because it holds `c.mu` throughout.

`raced[c]` is a history variable: in the middle of a reconnect of c a Disconnect
took effect, or a toggle changed the kill switch setting (`Overtakes`). The
host-restoration and kill switch properties exclude it, because then the code
leaves things behind, or goes back to the old setting (section 6).

**Daemon** extends Connection with the code that calls it: `held` is `d.conn`,
`job[t]` the place of a caller in doConnect, cmdDisconnect, cmdLogout,
cmdSettings or Stop, `mine[t]` its local `conn`. Both mutexes follow from `job`: a
connect request is `queued` until `LockConnect` gives it `connectMu`, and one that
finds a connection in `d.conn` disconnects it under `d.mu` (`replacing`).
`cfg` and `disk` are the kill switch setting in `d.cfg` and in the file. `Exit`
is a crash, or the end of main; `Reboot` also loses everything but files and
loads the boot table if the flag exists; `Start` is `Run` up to its loops. A
process that ends forgets its objects, which may then be used again for new
ones. `overlap` is a history variable: a thread was at work on the host for one
connection while another had a session there, or a call raced a reconnect. It
limits IdleHostRestored and ShieldOutlivesProcess as `raced` limits the
properties of Connection.

**ApiClient**: `call[k]` is a goroutine in `doRequest`, stepping from the gate
(`doSingleRequest`'s cooldown check) to the request, its answer, and, after a
401, through `refreshMu` to a refresh and `OnTokenRefresh`. A token is a session
and a generation; the server keeps the latest generation, whether the access
token has expired and whether the session is dead, and may answer a limit, break
the connection or lose the answer to a refresh it has carried out. Time is a
countdown: `cooldown` is the time to `rateLimitedUntil`, `owed` the time the
server asked for. **Account** adds the two goroutines that can be inside
`initSession` (the one under `initSessionMu`, and a login's), `cmdLogin` and
`cmdLogout` split where a file is written, `noteInitResult`'s pacing, the server
cache and the death of the process. Its variables `crossed`, `blank` and `lost`
are history: the overlaps that its properties name as exceptions.

**Servers** has no variables: a server is a record of what selection looks at,
and the operators carry the names of the Go functions. **ServersView** has every
field of `ServersModel` that a key can change, with rows, columns and scroll
positions computed as the code does for two window sizes; the daemon it asks for
a server answers with the selection of Servers. The configuration it saves is the
one the daemon's automatic connect reads. (`doAutoConnect` looks at the copy in memory,
which is the file's as of the last reload.)

**Ipc** is the client's command lock, the request on its way, and the socket
from the daemon as one queue of answers and events. **Tui** keeps the messages
that command goroutines are about to send as a set (they have no order among
them or with events), the timer chains as `tick`, and App's state as `view`,
`shown`, `step`, `authed`, `handler`. The daemon side answers one request at a
time and pushes events as doConnect, the reconnect loop and Disconnect do.
A dial of the smart protocol that fails over to stealth says Disconnected and
Connecting once more. A reconnect loop sends nothing between its Reconnecting and
its Connected, however many attempts fail, and never gives up; when its connection
is disconnected it becomes one of the `late` loops, which say Disconnected once more,
or come through after all. The daemon's second Reload (`ConnectPublished`) and its
Save of the whole file (`ConnectSaved`) are steps of their own, with `saving`
between them. `saved` and `overlapped` are history: what the settings view last
wrote, and whether it did so while the daemon was `saving`. So is `misled`: an event
found no handler or overtook a status answer, a status had a name that the view
does not know, or a cancelled reconnect came through.

**PortForward** has the loop (`pc`, `timer`, `failures`, `backoff`), one exchange
at a time as a datagram that is out, back or lost, the gateway's two mappings
with their remaining lifetime, and Stop in its stages. One unit of time is
`natPMPTimeout`; Stop's grace is shorter and passes within a unit.

**Framing** gives the state of an end (`newTunSafeState`, `Sent`,
`onRecvPacket`) and the frame and packet it leads to; **TlsBind** puts two ends
on each direction of a TLS connection that fails, is closed and is made again.
Its goroutines take `cur` under `b.mu` and use the writer or reader later, as the
code does. `Datagrams` is what WireGuard expects: a channel that does not invent,
repeat or reorder, and that may misreport the counters of a run of data packets
that begins after one that is no data, until one is read right (`InStep`,
`DeliverSkewed`). TLC checks `TunnelIsDatagrams == Channel!DSpec` with the packets
inside the frames as the refinement mapping; a lost connection is its `Reset`.

`PROJECT.json`'s `map` gives the lines of every definition. Operators named
`..._Mutant` (and `ForceCleanup_Unguarded`) are faulty variants of the operator
that follows; no specification uses them. They are kept to show that each
property can be broken by a plausible mistake in the code.

## 3. Runs

| Run | Instance | What it shows |
|---|---|---|
| `connection` | 1 connection, 2 callers, 1 fault | every safety property of Connection, over all interleavings of connect, monitor, reconnects, toggle and disconnect |
| `connection_live` | 1 connection, 1 caller, 1 fault, fairness | a disconnect ends monitor and loop; a lost tunnel comes back |
| `daemon` | 2 connections, 2 callers, a shutdown, fairness | no live session is dropped by any hand-over; an idle host has nothing of a session left; both mutexes exclude, and every connect request gives `connectMu` back |
| `daemon_restart` | 1 connection, 2 callers, 1 fault, 1 restart, 1 saved setting | crash and reboot at any step: the next start cleans up, a settled kill switch outlives the process |
| `api_client` | 3 callers, 1 session, 4 troubles | one refresh for one expiry, no spent token, no request within a cooldown |
| `account` | 2 goroutines, 2 sessions, 1 trouble | initSession beside login, logout and a crash |
| `servers_view` | 7 servers, 1 filter, 2 sizes, 2 queries, 2 connects | the browser's screen and what is picked from it; automatic choices |
| `tui` | 3 keys, signed in or not at the start | a connection on the screen is kept fresh; saved settings reach the daemon and survive its own write of the file |
| `tui_live` | 1 key and 1 move from outside (another client, a failing tunnel or the daemon's death), fairness | answers match commands, commands return, the screen does not call a lost connection connected or hang in a connect |
| `port_forward` | the code's own proportions, 2 ports | what is shown is mapped; Stop releases |
| `stealth` | 4 packets, 2 connections | the framed stream refines the datagram channel |
| `reconnect_exposure` | as `connection_live` | violated: each reconnect deletes the table before it loads the new one, with the policy rules already gone |

### Properties

- *TeardownRestoresHost, TeardownDropsTable*: a failed or disconnected
  connection leaves no device, rule, route, resolver, sysctl or table.
- *ShieldHeldWhileRecovering, HardenedWhileRecovering*: kill switch and ARP
  hardening last through stale-session teardown, failed attempts and waits. The
  table does not last through an attempt that fails inside Enable, after it deleted
  the table and before it loaded the new one; then the host waits without one until
  an attempt gets further (section 6).
- *KillSwitchHonoured*: on a settled connection kernel and last acknowledged
  setting agree, unless the setting was changed in the middle of a reconnect, or an
  Enable failed after loading its table (section 6).
- *SysctlRecoverable*: while the host's sysctls are overwritten, some hardener
  that a teardown will reach remembers them.
- *MonitorStoppable*, *DisconnectEndsMonitor*: the cancel function reaches
  whatever monitor runs, and the monitor then ends.
- *ReconnectSucceeds*: the loop does not give up, nor replay a rejected
  certificate for ever.
- *NoSessionWithoutHolder*: a connection with no reference left is closed and
  its fields are empty.
- *IdleHostRestored*: no session and nobody at work means a clean host, also
  after crashes (except for sysctls, whose saved values die with the process).
- *ShieldOutlivesProcess*: a process or host that dies with a settled, flagged
  kill switch leaves traffic blocked until the next connect.
- *ConnectReturns*: every doConnect ends and releases `connectMu`, also where it
  had to wait for another connect, or for the `d.mu` under which the connection
  before it is being disconnected.
- *RefreshOncePerExpiry, SpentTokenNotReplayed*: however many requests meet a
  401 at once, one refreshes; the server sees a spent token only if the answer
  that replaced it was lost.
- *CooldownHonoured*: once any caller was told to stay away, no call sets out
  before that time, and a shorter demand does not cut a longer one.
- *SessionSurvivesTransients*: initSession drops a session only when its tokens
  are useless. *StoreFollowsClient*: when nothing is half done, the file has the
  client's tokens, and they are the latest but for an answer on its way or lost.
- *GridTells*: card by card, the country grid has the right count and the least
  loaded server under the filters now set. *PickedSuits*: what is picked is
  allowed and available. *MoveShowsCursor*: a cursor that was moved can be seen.
  *BestIsChosen*: automatic connects and "change server" take the best server of
  the right set, and fall back in the right order.
- *RepliesMatch*: the answer in the socket belongs to the command that waits.
  *CommandsReturn*: it gets one, or an error when the daemon dies.
- *ConnectedViewPolls*: the chain of timer, poll and result never breaks while a
  connection is shown. *SettingsReachDaemon*: when all is quiet the daemon runs
  with the kill switch setting in the file, and this is the last one that was saved,
  although every connect writes the whole file: the daemon reads it again first.
  Only a save between this reading and writing is excepted. *InformedNotFalse*,
  *InformedConnectingResolves*: a TUI that got its events in order shows neither
  a connection that is gone nor a connect that is over.
- *ShownPortIsMapped*: a port is taken back before the gateway can have forgotten
  it. *StopReleases, StoppedShowsNothing*: nothing survives Stop.
- *TunnelIsDatagrams, HealthyConnectionKept, NoConnectionAfterClose*: section 2.

### Bounds

- Each `Conn` is connected once per process, as in the code; one connection may
  reconnect without limit, so no bound limits the reconnect loop.
- `MaxFaults = 1`: one step fails, or the network is lost, or the certificate
  becomes useless. Retries that fail by themselves (`Passes` false) cost no
  fault, so one fault is enough to reach every failure path, the failed attempt
  inside a reconnect included.
- `IfIndex`: indexes may be used again once no goroutine holds them; a fresh
  index always exists for the numbers of connections and threads used.
- Two callers: one connecting and one that disconnects or toggles; any further
  caller repeats one of these roles. Callers are symmetric in safety runs.
- `daemon` has two connections, the least with an old one to replace and two
  requests for `connectMu`. It has no faults, saved settings or monitors
  (`AutoReconnect = FALSE`): faults, settings and deaths are in `daemon_restart`,
  monitors in `connection`. With all of them, two connections have more than
  several million states.
- `MaxWrites`, `MaxStarts`: 1 each, in `daemon_restart`.
- `api_client`: three callers are the least with one that refreshes, one that
  waits for the mutex and one whose request is still out. `MaxTroubles` bounds
  expiries, limits and broken connections together. `MaxRetries = 1` (the code:
  more) reaches the last attempt sooner. In `account` the concurrency inside the
  client is bounded by the two goroutines that exist there, and one trouble.
- `servers_view`: seven servers make a country longer than the list view, one
  without the filtered feature, one offline, one above the tier, a best by score that is
  not the best by load, and two that tie in both. The two sizes are one column with one row
  and several of both. `MaxAsks` bounds connects, keys are unbounded.
- `tui`: `MaxKeys` bounds keys that start something; the toggle in the settings
  is free. Three keys reach every pair of overlapping commands, also behind a tab
  key, and a login; moves from outside are `tui_live`'s, where one falls into
  every state a key leads to. Three keys together with one move are beyond TLC's
  reach here (over four million states for two keys already). A cancelled reconnect
  loop that speaks after a later connection is up needs two keys and a move; the
  proofs cover it, for the safety properties.
- `port_forward`: lifetime 20, renewal 7, timeout 1 are 60 s, 20 s (rounded up,
  the harder case) and 3 s; two lost renewals and a slow TCP exchange fit in.
- `stealth`: four packets make a handshake between data packets, a new key and a
  counter gap; two connections make a goroutine that holds an old one.

`CHECK_DEADLOCK FALSE` where the system may be at rest: no command left to give
and nothing in flight, a forwarder that was stopped, a closed bind.

### Fairness

Weak fairness of each thread's own steps (`Run`, `Goroutine`): the Go scheduler
runs goroutines, timers fire, and every dial step has a timeout. Weak fairness of
`NetworkBack`: the network returns, which ReconnectSucceeds needs. In Tui, weak
fairness of the socket's goroutines together with the daemon's answers, of
Update's messages, and of doConnect with the save at its end, whose context has a
deadline. A reconnect has none there: it may go on for ever. Commands, keys, faults,
crashes, restarts, wake-ups and timers have none either.

## 4. Proofs

`Connection_proof` proves, for every set of connections and callers, any set of
interface indexes and any number of faults:

- `TypeCorrect`: `Spec => []TypeOK`
- `SysctlsRecoverable`: `Spec => []SysctlRecoverable`
- `MonitorsStoppable`: `Spec => []MonitorStoppable`

The argument has three inductive layers, each using the ones before. `TInv` is
TypeOK with the connection each goroutine works on (a monitor works on its own).
`Roles` says which labels callers and monitors reach, which `ret` belongs to
which label, and that at most one caller is inside Connect for a connection;
without it two goroutines could install a hardener for one connection. `Kept` is
MonitorStoppable with the fact that saved sysctl values are in a goroutine's locals
only between reading the fields and the end of teardown: TearDown moves them from
`hard[c]` to `snap[t]`, RelaxHost writes them back, and nothing else may touch
either. A step then keeps SysctlRecoverable (`StillRecoverable`), which is stated
apart because a process that dies takes its saved values with it, and `Daemon`
needs what survives that. Every layer has one lemma per action. Assumptions:
`HostNetAssumption` and `ConnectionAssumption` (disjointness of names, positive
indexes), which TLC evaluates in every run.

The second half of `Connection_proof` has the restoration and kill switch
properties. Its first part is about the objects' own fields and holds for any number of
connections: `ClosedConnectionsClear` says that a connection that failed or was
disconnected, outside a race with a reconnect, has nothing left in `ks`,
`routes`, `tun`, `hard`, nor has anybody in a local of a teardown that is over.
The invariant `Fields` follows whoever dials or disconnects through the steps of
its teardown (`Progress`): a slot once cleared is filled again by a dial only, and
an undisturbed connection has one dialer. The second part is about the host, for
one connection and any number of callers, faults and interface indexes
(`OneConnection`: the module `Connection` alone lets any number of objects edit
one table and one device, and only the daemon keeps them apart). Three layers:
`Net` (device, rules, route, resolver), `Sys` (hardening sysctls, with
`Uncancelled` and the proof that a reconnect never relaxes), `Tab` (the table).
Each relates the host to the fields and to the label of every goroutine, since
between two steps of a dial or a teardown the host is ahead of the fields. Their
consequences are `HostGivenBack`, `TableGivenBack`, `ShieldHeld`, `HardeningHeld`
and `SwitchHonoured`. `ShieldHeld` speaks of every attempt but those whose Enable
failed with the table gone, and `SwitchHonoured` of every toggle but those that
change the setting during a reconnect: the exceptions of the properties, which
section 6 shows to be necessary.

`Daemon_proof` stands on it and proves `DaemonTyped` and `SessionsAnsweredFor`
(NoSessionWithoutHolder) for any number of connection objects and requests, through
crashes, reboots and cleanups. `Below` is what `Connection_proof` knows of the
connections, all but SysctlRecoverable; it survives every step of the daemon
(`NextBelow`), where `Staffed` gives what Connection leaves open: that a step on a
connection is taken by a caller that may take it. `Excluded` says that
`connectMu` and the connection's own lock keep their holders apart. `Seats` says,
for each job a request can have and each place in it, which connection it has in
hand, in what state, and how that compares with `d.conn`: a connection leaves one
seat only for another, or closed. Closed it then has nothing left, by `Fields`.

Its second half follows the one host that all connections share, and proves
`IdleHostGivenBack` (IdleHostRestored) and `ShieldOutlives`
(ShieldOutlivesProcess). It does not need `OneConnection`. `Network` and `Table`
say what a step of a connection owes to the host: a device, rule, route, resolver
or table that it leaves there is vouched for by the field of some connection or by
a goroutine on its way. They are owed as long as no call raced with a reconnect
(`Calm`), and for the resolver (`Taken`) and a flagged kill switch that is in the
kernel (`Standing`) as long as the daemon also kept the sessions apart. There is a
lemma for each layer and each group of steps (dial, tunnel, routes, resolver, undo,
kill switch). `Hosts` collects the layers per phase of the process: what a process
leaves that died is nobody's until the next one's ForceCleanup, so `Linked`,
`Routed` and `Taken` are suspended while it is down, and sysctls are recoverable
only in the first process, as the next one has lost the saved values (`starts > 0`
in the property). `Ends` says that a dead process has neither connections nor
requests. For the second theorem, `Outlives` is what `Standing` leaves behind at a
death: a flagged table and no connection. With no connection every goroutine is
idle, so only cleanups touch the table, and they spare a flagged one.

`ApiClient_proof` proves `OneRotationPerExpiry`, `NoSpentTokenSent` and
`LimitsRespected` for any number of callers. Mutual exclusion on `refreshMu` comes
first (`Holders`), then that the client's token is the server's latest but for a
rotation whose answer is on its way or lost (`Fresh`), that whoever still means to
refresh the latest one has an expiry as its reason (`Justified`), and that every
rotation is paid for by one expiry (`Paid`). The types are split: `Shaped` holds
of any number of sessions, `Single` says that the client by itself knows one.

`Account_proof` reuses `Shaped` and proves, for any number of sessions and
troubles and whatever a 429 asks for:

- `AccountTyped`: types, that a call is under way exactly while its initSession
  waits for it, and that no wait of `noteInitResult` outgrows its limit or what
  the API asked for. The cooldown is one of those waits, a 429 reports it, so
  `AccountAssumption` has the code's 2 minutes below its 30.
- `FileFollowsClient` (StoreFollowsClient): `Following` says what holds within
  the halves of a refresh, a login and a logout as long as none has overlapped
  another. A goroutine that refreshes handles tokens of the client's own session,
  brings the latest ones or some were lost, and saves what the client has.
- `TransientsSpareSession` (SessionSurvivesTransients), the longest argument.
  `Valid` says that the client has or is about to get tokens that are good for
  something. `Grounded` then follows each goroutine of initSession that began
  with this session (`Served`): it never holds a final answer against it. A 401
  it was told of is about an older token than the client's, or the token has
  expired (`Aged`); what it noted is no newer than what the client has and what
  it brings is (`Noted`), so the recheck under `refreshMu` sends it on with
  tokens that were just rotated, and nobody who was told of the old expiry can
  rotate these.

The first attempt at this proof failed where a call outlived a whole lifetime of
an access token, and TLC confirmed it with two troubles: a request that had set
out with the tokens before last meets a second expiry after its only refresh. A
token lives for hours and a request for seconds, so `Expire`, which models the
server, now waits for the calls that set out with earlier tokens.

`Tui_proof` proves the five safety invariants of Tui and Ipc, for any number of
keys and of moves from outside. `Talk` says that a request is with the daemon, or
its answer in the socket, only while a command holds the lock; `Booting` what may
be under way while the TUI starts; `Polled` which link of the chain is present;
`Heard` says that while the view shows a connection the daemon no longer has, a
line that denies it is still to be read, after every claim of one, and a cancelled
loop adds no claim (`LateFrames`); `Saved` that a setting that differs between
file and daemon has a command on its way; `Kept` that the file has what was last
saved, and what a daemon that is about to write it has read from it, as long as no
save fell between the two.

`PortForward_proof` proves `ShowsNothingOnceStopped`, `StopReleasesMappings` and
`NoStalePort` for every lifetime, interval and number of attempts. The first needs that a
forwarder which never had a port shows none (Stop returns early for it), that a
TCP exchange has a UDP port behind it, and that `everMapped` does not change
under the stopped flag. The second needs that a Stop that waited has the loop
behind it, so that nothing is granted after UDP and then TCP were released. The
third bounds, for each place of the loop, the time that has passed since a
mapping was granted; it needs `LifetimeAssumption`, which the code's 60, 20 and 3
seconds and two attempts satisfy: a lifetime outlasts the grace.

`TlsBind_proof` proves `ClosedForGood`, the action property
`WorkingConnectionKept` and the refinement `TunnelRefinesDatagrams`, for any
number of packets and connections. The strengthening says that a receiver on
its way to close a failed connection still finds that one, or a closed bind: a
connection is never made over one that failed. For the refinement, `Framed`
lays a trail of framing states along the frames on the wire: each is what the
sender had before it wrote that frame, the last is what it has now, and the
receiver is `Behind` the first. A packet is then read as it was sent, or with a
counter too large in a run of data packets after one that is no data, which is
what `Datagrams` allows.

`ServersView_proof` proves all five properties of the servers screen, for every
catalogue, tier, terminal size, query and config file: `ScreenTyped`,
`GridTruthful`, `PicksAllowed`, `MovesShown` and `BestTaken`. Most of it is about
what the operators compute, for lists of any length:

- *Order.* `FilterServers` moves each matching server to the place that the
  number of servers ahead of it gives; `Places` shows that in any strict total
  order of a finite set those places are the numbers from 1 to its size, each
  taken once. Hence `Filtered` (the result has the matching servers, each once,
  none before a better one) and `Fastest`. Ties are allowed: equals keep their
  order in the model, which `sort.Slice` does not promise, but nothing after
  `Filtered` and `Fastest` looks at the order of equals.
- *The loop of rebuildGrid.* `CardsOf` is a recursive function, so that it exists
  has to be shown (`CardsGrow`), and `CardsTell` shows by induction over the
  turns of the loop what the cards tell of the servers seen so far. It needs that
  the list comes in order of load, which it does because the daemon's answer has
  no scores (`Sent`): with scores the cards would not be in order of their loads.
  The library's induction theorems take an operator and cannot be used here; the
  induction is by the least number for which a claim fails, and that there is one
  follows from the well-foundedness of finite sets (`LeastNatural`,
  `NaturalsReached`).
- *The viewport.* `RowWithin`, `Scrolled` and `Window` have the arithmetic of
  rows, pages and cursors, for every width and height, zero included.

The invariant is then short. `VBase` has the types and that a server asked for is
in the catalogue; `VGrid` that the grid is truthful about the servers the filters
leave, and the cursor on it; `VList` that an open list shows nothing else. The
catalogue has to be a list of servers that are named, each by a name of its own,
and have a country (`CatalogueAssumption`); `ScreenAssumption` gives the types of
the other constants.

Only model-checked: liveness (DisconnectEndsMonitor, ReconnectSucceeds,
ConnectReturns, CommandsReturn, InformedConnectingResolves), which needs fairness
and ENABLED and so is out of the prover's reach.

## 5. Plan

Every safety property that a passing run checks is proved. Not yet modelled and
within reach: the network monitor's debouncer, the rules of `buildRules`, LAN
routes.

## 6. Known not to hold

What writing and checking the models showed of the code. Formulas that are
named exist in the modules; a `.cfg` with the constants given and the formula as
INVARIANT or PROPERTY reproduces the counterexample. The runs above check the
strongest form that does hold.

- A disconnect during a reconnect attempt does not stop it
  (`connection.go:578` says it does): the attempt does not look at its context
  and brings up a session nobody holds. `DisconnectStopsReconnecting`, as
  `connection_live`.
- An attempt inside a reconnect whose `Enable` deletes the loaded table
  (`killswitch.go:43`) and then fails to load the new one leaves the host without
  table and policy rules through the backoff that follows, 2 s to 2 min each, until
  an attempt gets past it. `ShieldHeldThroughFailures`, as `connection_live` with
  `SPECIFICATION Spec` and `MaxFaults = 2`.
- A kill switch setting that is changed during a reconnect is acknowledged and then
  undone: doReconnect reads the setting once when it begins (`connection.go:733`)
  and each attempt passes that on. It needs a toggle whose check that the state is
  Connected (`daemon.go:771`) came just before; `daemon.go:766` says "Apply kill
  switch change to the live connection immediately". `AcknowledgedHonoured`, as
  `connection`.
- `KillSwitch.Enable` that fails while it seeds API addresses leaves the table
  loaded, and the connection does not know of it. `FailedConnectLeavesNoTable`,
  as `connection_live`.
- A smart session is reconnected over WireGuard only, also where the first
  connect had fallen back to stealth. `SmartReconnects`, as `connection_live`
  with `Reachable = {"stealth"}`.
- A disconnect during the initial connect finds no connection, since `d.conn` is set
  at its end, and answers that it is done; the connect then completes
  (`daemon.go:667`). The session has a holder, and a second disconnect ends it.
- main returns as soon as Stop has closed the listener, while Stop may still be
  disconnecting. `StopRestoresHost` on `DSpec`, with one connection and two callers.
- A disconnect runs its teardown outside both daemon locks; a connect that starts
  in between can lose the kill switch it has just verified. `UnprotectedNever` on
  `DSpec`, with two connections and two callers.
- A TUI that had to log in first never installs the event handler
  (`app.go:251` returns before `app.go:268`): its connects stay "connecting".
  `ConnectingResolves`, as `tui` with `SignedInAtStart = {FALSE}`.
- `cmdStatus` calls a daemon without a connection "disconnected"; the view knows
  "Disconnected" only (`status.go:124`) and stays on what it showed.
  `NeverFalselyConnected`, as `tui`.
- The opposite: a connection that is up is shown as disconnected, because a cancelled
  reconnect loop said Disconnected (`connection.go:768`) after a new connection had
  replaced its own, or because the result of the `d` key was taken after the events
  of a later connect. `NotShownDown`, as `tui_live` with `MaxKeys = 2` and
  `MaxLosses = 0`.
- A setting the TUI saves between the daemon's Reload and Save at the end of a
  connect is lost in the file, and after the next reload in the daemon, although
  `daemon.go:650` says "Reload config from disk before saving so we don't clobber
  settings changed by the TUI". `SettingsKept`, as `tui`.
- Login, logout and a token refresh that overlap can leave a session file that is
  not the client's session; a late 401 of an old session's validation clears a
  session a login has just set; a request that set out before a login and meets
  a 401 spends one refresh too many. These are the exceptions `crossed`,
  `from[k] # uid` and `blank` of the Account and ApiClient properties.
- A logout during initSession is followed by the server list of the account that
  left; a restart forgets a cooldown.
- A forwarder stopped during its first UDP exchange, which is then answered
  within the grace, returns without releasing the mapping it got
  (`portforward.go:306` tests what was read before); it lapses by itself.
- The stealth receiver counts every packet, the sender only those with a counter:
  a handshake between data packets shifts the counter by one until the next
  whole header, and WireGuard drops what comes in between. One failed dial
  closes the bind for good. `b.writer` or `b.reader` may be nil when it is used
  after the lock was released; the model stops in that state (`panicked`).

## 7. What is not modelled

- Durations: backoff lengths of the reconnect loop, handshake age, dial timeouts.
  Waits are nondeterministic, except in PortForward, ApiClient and Account, where
  the order of deadlines decides.
- NetworkManager and systemd-resolved backends keep their state elsewhere; the
  direct backend is modelled, since only it can lose the host's resolver.
- LAN snapshots and their refresh, statistics, the text of the nftables rules.
- `SetDNS`, `RouteManager.Up` and `ForceCleanup` are single steps. The last runs
  at start, before any other goroutine, or at stop, where `Exit` can happen just
  before it. A configuration Save is one step, and a filter key's Reload and Save
  together are one.
- The work of a second Disconnect of the same object, possible when a connect
  request that waited for `d.mu` meets the `d.conn` that Stop did not clear: nothing
  is left to undo, and Replace goes on. For the same reason a client that is already
  connected gives no new command after Stop has begun; requests in progress go on.
- The boot unit is assumed to load its table when the flag exists. The boot flag
  itself is best effort, and ShieldOutlivesProcess speaks of a written flag.
- In Tui, the daemon's steps that clients cannot tell apart, standalone mode, and
  settings other than the kill switch. Its daemon and the one of Daemon are two
  abstractions of one program, for the two sides of the socket.
- Clients that do not read their socket: a broadcast to one blocks, also while
  `connectMu` or `d.mu` is held.
- SRP, certificates, JSON and TLS: their failures are failures of a call.
- The network monitor, Local Agent, command line programs, tools and packaging
  (reasons in `PROJECT.json`).
