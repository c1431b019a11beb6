----------------------------- MODULE Tui_proof -----------------------------
(***************************************************************************)
(* Proofs about Tui and Ipc, for any number of keys, of moves of others    *)
(* and of losses of the daemon: an answer reaches the command it answers,  *)
(* a connection that is shown is kept fresh and is not one that is gone,   *)
(* and saved settings stay and reach it.                                   *)
(***************************************************************************)
EXTENDS Tui, SequenceTheorems, TLAPS

Replies == Status \cup {"not_authenticated", "ok", "error", "some", "none", "2fa_required"}
Told    == {"Connecting", "Connected", "Reconnecting", "Disconnected", "error"}
Names   == {"sessionExpired", "daemonConnected", "serversLoaded", "connectError",
            "disconnected", "loginResult", "logout", "status", "stats"}
Boots   == Replies \cup {"none", "asked", "failed", "done"}

Lines == {l \in [line : {"event", "response"}, kind : Kind \cup {"state-changed"},
                 value : Told \cup Replies] :
             IF Responds(l) THEN l.kind \in Kind /\ l.value \in Replies ELSE l.value \in Told}

TuiTypes ==
    /\ TTypeOK /\ sock \in Seq(Lines) /\ boot \in Boots
    /\ msgs \subseteq [name : Names, value : Replies \cup {"failed"} \cup Boots]

-----------------------------------------------------------------------------
(* Lines, and the batches of them that the daemon writes at once *)

LEMMA LineTypes ==
  /\ \A v \in Told : /\ Event(v) \in Lines /\ ~Responds(Event(v)) /\ Event(v).value = v
                     /\ Event(v).line = "event"
  /\ \A k \in Kind, v \in Replies :
        /\ Response(k, v) \in Lines /\ Responds(Response(k, v))
        /\ Response(k, v).kind = k /\ Response(k, v).value = v
        /\ Response(k, v).line = "response"
  BY DEF Event, Response, Lines, Responds

Live == {"verifying", "up"}

\* A line that says the daemon has no working connection, and a batch in which
\* such a line comes after every claim of one.
Denies(l) == l.line = "event" /\ l.value # "Connected"
Silent(s) == \A i \in DOMAIN s : s[i].value # "Connected"
Denied(s) == \E j \in DOMAIN s : /\ Denies(s[j])
                                 /\ \A i \in DOMAIN s : i > j => s[i].value # "Connected"

\* When the daemon comes to be without a connection its lines say so.
Honest(f) == phase' \notin Live => Denied(f) \/ (phase \notin Live /\ Silent(f))

Events(f) == f \in Seq(Lines) /\ \A i \in DOMAIN f : ~Responds(f[i])
Batch(f)  == /\ f \in Seq(Lines) /\ f # <<>>
             /\ Responds(f[Len(f)]) /\ f[Len(f)].kind = req
             /\ \A i \in DOMAIN f : i < Len(f) => ~Responds(f[i])

LEMMA Tuples ==
  ASSUME NEW a \in Lines, NEW b \in Lines, NEW c \in Lines
  PROVE  /\ <<>> \o <<a>> = <<a>> /\ <<a>> \o <<b>> = <<a, b>>
         /\ <<>> \o <<a, b>> = <<a, b>> /\ <<a>> \o <<b, c>> = <<a, b, c>>
         /\ <<>> \in Seq(Lines) /\ <<a>> \in Seq(Lines) /\ <<a, b>> \in Seq(Lines)
         /\ <<a, b, c>> \in Seq(Lines)
         /\ Len(<<a>>) = 1 /\ Len(<<a, b>>) = 2 /\ Len(<<a, b, c>>) = 3
<1>1. <<>> \in Seq(Lines) /\ <<a>> \in Seq(Lines) /\ <<a, b>> \in Seq(Lines)
  OBVIOUS
<1>2. <<b, c>> \in Seq(Lines) /\ <<a, b, c>> \in Seq(Lines)
  OBVIOUS
<1>3. <<>> \o <<a>> = <<a>> /\ <<>> \o <<a, b>> = <<a, b>>
  BY <1>1, ConcatEmptySeq
<1>6. /\ Len(<<a>>) = 1 /\ Len(<<b>>) = 1 /\ Len(<<b, c>>) = 2 /\ Len(<<a, b>>) = 2
      /\ Len(<<a, b, c>>) = 3 /\ <<b>> \in Seq(Lines)
  OBVIOUS
<1>4. <<a>> \o <<b>> = <<a, b>>
  <2> DEFINE s == <<a>> \o <<b>>
             t == <<a, b>>
  <2>1. s \in Seq(Lines) /\ Len(s) = 2 /\ s[1] = a /\ s[2] = b
    BY <1>1, <1>6, ConcatProperties
  <2>2. t \in Seq(Lines) /\ Len(t) = 2 /\ t[1] = a /\ t[2] = b
    BY <1>1, <1>6
  <2> HIDE DEF s, t
  <2>3. \A i \in 1..Len(s) : s[i] = t[i]
    BY <2>1, <2>2
  <2>4. s = t
    BY <2>1, <2>2, <2>3, SeqEqual
  <2> QED BY <2>4 DEF s, t
<1>5. <<a>> \o <<b, c>> = <<a, b, c>>
  <2> DEFINE s == <<a>> \o <<b, c>>
             t == <<a, b, c>>
  <2>1. s \in Seq(Lines) /\ Len(s) = 3 /\ s[1] = a /\ s[2] = b /\ s[3] = c
    BY <1>1, <1>2, <1>6, ConcatProperties
  <2>2. t \in Seq(Lines) /\ Len(t) = 3 /\ t[1] = a /\ t[2] = b /\ t[3] = c
    BY <1>2, <1>6
  <2> HIDE DEF s, t
  <2>3. \A i \in 1..Len(s) : s[i] = t[i]
    BY <2>1, <2>2
  <2>4. s = t
    BY <2>1, <2>2, <2>3, SeqEqual
  <2> QED BY <2>4 DEF s, t
<1> QED BY <1>1, <1>2, <1>3, <1>4, <1>5

\* What one, two or three lines are as a batch.
LEMMA Batches ==
  ASSUME NEW a \in Lines, NEW b \in Lines, NEW c \in Lines
  PROVE  /\ Events(<<>>) /\ Silent(<<>>)
         /\ ~Responds(a) => Events(<<a>>)
         /\ ~Responds(a) /\ ~Responds(b) => Events(<<a, b>>)
         /\ Responds(a) /\ a.kind = req => Batch(<<a>>)
         /\ ~Responds(a) /\ Responds(b) /\ b.kind = req => Batch(<<a, b>>)
         /\ ~Responds(a) /\ ~Responds(b) /\ Responds(c) /\ c.kind = req => Batch(<<a, b, c>>)
         /\ a.value # "Connected" => Silent(<<a>>) /\ (Denies(a) => Denied(<<a>>))
         /\ Denies(a) /\ b.value # "Connected" => Denied(<<a, b>>)
         /\ Denies(a) /\ b.value # "Connected" /\ c.value # "Connected" => Denied(<<a, b, c>>)
         /\ a.value # "Connected" /\ b.value # "Connected" => Silent(<<a, b>>)
<1>1. /\ <<>> \in Seq(Lines) /\ <<a>> \in Seq(Lines) /\ <<a, b>> \in Seq(Lines)
      /\ <<a, b, c>> \in Seq(Lines)
      /\ Len(<<a>>) = 1 /\ Len(<<a, b>>) = 2 /\ Len(<<a, b, c>>) = 3
  BY Tuples
<1>2. /\ DOMAIN <<a>> = {1} /\ DOMAIN <<a, b>> = {1, 2} /\ DOMAIN <<a, b, c>> = {1, 2, 3}
      /\ DOMAIN <<>> = {}
  OBVIOUS
<1>3. Events(<<>>) /\ Silent(<<>>)
  BY <1>1, <1>2 DEF Events, Silent
<1>4. /\ ~Responds(a) => Events(<<a>>)
      /\ ~Responds(a) /\ ~Responds(b) => Events(<<a, b>>)
  BY <1>1, <1>2 DEF Events
<1>5. /\ Responds(a) /\ a.kind = req => Batch(<<a>>)
      /\ ~Responds(a) /\ Responds(b) /\ b.kind = req => Batch(<<a, b>>)
      /\ ~Responds(a) /\ ~Responds(b) /\ Responds(c) /\ c.kind = req => Batch(<<a, b, c>>)
  BY <1>1, <1>2 DEF Batch
<1>6. /\ a.value # "Connected" => Silent(<<a>>) /\ (Denies(a) => Denied(<<a>>))
      /\ a.value # "Connected" /\ b.value # "Connected" => Silent(<<a, b>>)
  BY <1>1, <1>2 DEF Silent, Denied
<1>7. Denies(a) /\ b.value # "Connected" => Denied(<<a, b>>)
  BY <1>1, <1>2 DEF Denied
<1>8. Denies(a) /\ b.value # "Connected" /\ c.value # "Connected" => Denied(<<a, b, c>>)
  BY <1>1, <1>2 DEF Denied
<1> QED BY <1>3, <1>4, <1>5, <1>6, <1>7, <1>8

-----------------------------------------------------------------------------
(* What an action does to the socket *)

LEMMA Farewells ==
  /\ Farewell = <<>> \/ Farewell = <<Event("Disconnected")>>
  /\ phase \in Holding => Farewell = <<Event("Disconnected")>>
  BY DEF Farewell

\* Every answer is one batch: events, then the answer of the request.
LEMMA ReplyFrames ==
  ASSUME TuiTypes, Reply
  PROVE  \E f \in Seq(Lines) : Answer(f) /\ Batch(f) /\ Honest(f)
<1>0. req \in Kind \cup {"none"} /\ phase \in Phase
  BY DEF TuiTypes, TTypeOK
<1> DEFINE e == Event("Disconnected")
<1>1. e \in Lines /\ ~Responds(e) /\ Denies(e) /\ e.value # "Connected"
  BY LineTypes DEF Denies, Told
<1>2. ASSUME NEW v \in Replies, req \in Kind,
             Answer(<<Response(req, v)>>), phase' = phase, v = "Connected" => phase \in Live
      PROVE  \E f \in Seq(Lines) : Answer(f) /\ Batch(f) /\ Honest(f)
  <2> DEFINE r == Response(req, v)
  <2>1. r \in Lines /\ Responds(r) /\ r.kind = req /\ r.value = v
    BY <1>2, LineTypes
  <2>2. Answer(<<r>>)
    BY <1>2
  <2> HIDE DEF r
  <2>3. <<r>> \in Seq(Lines) /\ Batch(<<r>>)
    BY <2>1, Tuples, Batches
  <2>4. phase \notin Live => Silent(<<r>>)
    BY <1>2, <2>1, Batches
  <2> QED BY <1>2, <2>2, <2>3, <2>4 DEF Honest
<1>3. CASE ReplyStatus
  <2>1. StatusOf \in Replies /\ (StatusOf = "Connected" => phase \in Live)
    BY <1>0 DEF StatusOf, Replies, Status, Phase, Live
  <2> QED BY <1>2, <1>3, <2>1 DEF ReplyStatus, Polls, Kind, daemonVars
<1>4. CASE ReplyServers
  BY <1>2, <1>4 DEF ReplyServers, Replies, Kind, daemonVars
<1>5. CASE ReplyConnect
  BY <1>2, <1>5 DEF ReplyConnect, Replies, Kind
<1>6. CASE ReplyLogin
  BY <1>2, <1>6 DEF ReplyLogin, Replies, Kind
<1>7. CASE ReplySettings
  BY <1>2, <1>7 DEF ReplySettings, Replies, Kind
<1>8. CASE ReplyDisconnect
  <2> DEFINE r == Response(req, "ok")
  <2>1. r \in Lines /\ Responds(r) /\ r.kind = req /\ r.value = "ok" /\ "ok" # "Connected"
    BY <1>8, LineTypes DEF ReplyDisconnect, Kind, Replies
  <2>2. Answer(Farewell \o <<r>>) /\ phase' = Dropped
    BY <1>8 DEF ReplyDisconnect
  <2> HIDE DEF r, e
  <2>3. CASE Farewell = <<e>>
    <3>1. Answer(<<e, r>>) /\ <<e, r>> \in Seq(Lines)
      BY <1>1, <2>1, <2>2, <2>3, Tuples
    <3>2. Batch(<<e, r>>) /\ Denied(<<e, r>>)
      BY <1>1, <2>1, Batches
    <3> QED BY <3>1, <3>2 DEF Honest
  <2>4. CASE Farewell = <<>> /\ phase \notin Holding
    <3>1. Answer(<<r>>) /\ <<r>> \in Seq(Lines)
      BY <2>1, <2>2, <2>4, Tuples
    <3>2. Batch(<<r>>) /\ Silent(<<r>>)
      BY <2>1, Batches
    <3>3. phase' = phase
      BY <2>2, <2>4 DEF Dropped
    <3> QED BY <3>1, <3>2, <3>3 DEF Honest
  <2> QED BY <2>3, <2>4, Farewells DEF e
<1>9. CASE ReplyLogout
  <2> DEFINE r == Response(req, "ok")
  <2>1. r \in Lines /\ Responds(r) /\ r.kind = req /\ r.value = "ok" /\ "ok" # "Connected"
    <3>1. req \in Kind /\ "ok" \in Replies
      BY <1>9 DEF ReplyLogout, Kind, Replies
    <3> QED BY <3>1, LineTypes
  <2>2. Answer(Farewell \o <<e, r>>)
    BY <1>9 DEF ReplyLogout
  <2> HIDE DEF r, e
  <2>3. CASE Farewell = <<e>>
    <3>1. Answer(<<e, e, r>>) /\ <<e, e, r>> \in Seq(Lines)
      BY <1>1, <2>1, <2>2, <2>3, Tuples
    <3>2. Batch(<<e, e, r>>) /\ Denied(<<e, e, r>>)
      BY <1>1, <2>1, Batches
    <3> QED BY <3>1, <3>2 DEF Honest
  <2>4. CASE Farewell = <<>>
    <3>1. Answer(<<e, r>>) /\ <<e, r>> \in Seq(Lines)
      BY <1>1, <2>1, <2>2, <2>4, Tuples
    <3>2. Batch(<<e, r>>) /\ Denied(<<e, r>>)
      BY <1>1, <2>1, Batches
    <3> QED BY <3>1, <3>2 DEF Honest
  <2> QED BY <2>3, <2>4, Farewells DEF e
<1> QED BY <1>3, <1>4, <1>5, <1>6, <1>7, <1>8, <1>9 DEF Reply

Moves == ConnectStart \/ ConnectSteps \/ ConnectPublished \/ TunnelFails \/ Reconnected

\* What the daemon does by itself it tells in events.
LEMMA MoveFrames ==
  ASSUME TuiTypes, Moves
  PROVE  \E f \in Seq(Lines) : Push(f) /\ Events(f) /\ Honest(f) /\ link = "up"
<1>0. phase \in Phase
  BY DEF TuiTypes, TTypeOK
<1>1. ASSUME NEW from, NEW to, Dial(from, to, <<>>), to \in Live \/ phase \notin Live
      PROVE  \E f \in Seq(Lines) : Push(f) /\ Events(f) /\ Honest(f) /\ link = "up"
  <2>1. <<>> \in Seq(Lines) /\ Events(<<>>) /\ Silent(<<>>)
    BY LineTypes, Batches, Tuples DEF Told
  <2> QED BY <1>1, <2>1 DEF Dial, Honest
<1>2. ASSUME NEW from, NEW to, NEW v \in Told, Dial(from, to, <<Event(v)>>),
             v = "Connected" => to \in Live
      PROVE  \E f \in Seq(Lines) : Push(f) /\ Events(f) /\ Honest(f) /\ link = "up"
  <2> DEFINE e == Event(v)
  <2>1. e \in Lines /\ ~Responds(e) /\ e.value = v /\ e.line = "event"
    BY LineTypes
  <2>2. Push(<<e>>) /\ phase' = to /\ link = "up"
    BY <1>2 DEF Dial
  <2> HIDE DEF e
  <2>3. <<e>> \in Seq(Lines) /\ Events(<<e>>) /\ (v # "Connected" => Denied(<<e>>))
    BY <2>1, Tuples, Batches DEF Denies
  <2> QED BY <1>2, <2>2, <2>3 DEF Honest
<1>3. CASE Dial({"dialing", "stealth", "verifying"}, "idle", <<Event("Disconnected"), Event("error")>>)
  <2> DEFINE a == Event("Disconnected")
             b == Event("error")
  <2>1. /\ a \in Lines /\ ~Responds(a) /\ a.value # "Connected" /\ a.line = "event"
        /\ b \in Lines /\ ~Responds(b) /\ b.value # "Connected"
    BY LineTypes DEF Told
  <2>2. Push(<<a, b>>) /\ link = "up"
    BY <1>3 DEF Dial
  <2> HIDE DEF a, b
  <2>3. <<a, b>> \in Seq(Lines) /\ Events(<<a, b>>) /\ Denied(<<a, b>>)
    BY <2>1, Tuples, Batches DEF Denies
  <2> QED BY <2>2, <2>3 DEF Honest
<1>4. CASE ConnectStart
  <2>1. Dial({"idle"} \cup Holding, "starting", Farewell)
    BY <1>4 DEF ConnectStart
  <2>2. CASE Farewell = <<Event("Disconnected")>>
    BY <1>2, <2>1, <2>2 DEF Told
  <2>3. CASE Farewell = <<>> /\ phase \notin Holding
    <3>1. phase \notin Live
      BY <2>1, <2>3 DEF Dial, Live
    <3> QED BY <1>1, <2>1, <2>3, <3>1
  <2> QED BY <2>2, <2>3, Farewells
<1>5. CASE ConnectSteps
  <2>1. /\ {"Connecting", "Connected", "Disconnected", "error"} \subseteq Told
        /\ "verifying" \in Live
    BY DEF Told, Live
  <2> QED BY <1>2, <1>3, <1>5, <2>1 DEF ConnectSteps
<1>6. CASE ConnectPublished
  BY <1>1, <1>6 DEF ConnectPublished, Live
<1>7. CASE TunnelFails
  BY <1>2, <1>7 DEF TunnelFails, Told
<1>8. CASE Reconnected
  BY <1>2, <1>8 DEF Reconnected, Told, Live
<1> QED BY <1>4, <1>5, <1>6, <1>7, <1>8 DEF Moves

\* Another client takes the connection down, and this one is told.
LEMMA OtherFrames ==
  ASSUME TuiTypes, OtherClient
  PROVE  \/ UNCHANGED <<ipcVars, phase>>
         \/ \E f \in Seq(Lines) : Push(f) /\ Events(f) /\ Honest(f) /\ link = "up"
<1>1. CASE phase \in Holding /\ Push(Farewell) /\ phase' = "idle"
  <2> DEFINE e == Event("Disconnected")
  <2>1. e \in Lines /\ ~Responds(e) /\ e.value # "Connected" /\ e.line = "event"
    BY LineTypes DEF Told
  <2>2. Push(<<e>>)
    BY <1>1, Farewells
  <2> HIDE DEF e
  <2>3. <<e>> \in Seq(Lines) /\ Events(<<e>>) /\ Denied(<<e>>)
    BY <2>1, Tuples, Batches DEF Denies
  <2> QED BY <2>2, <2>3 DEF Honest, OtherClient
<1> QED BY <1>1 DEF OtherClient

\* A cancelled reconnect loop speaks up.
LEMMA LateFrames ==
  ASSUME TuiTypes, LateLoop
  PROVE  /\ UNCHANGED phase /\ late' \in Nat
         /\ \E f \in Seq(Lines) : Push(f) /\ Events(f) /\ (misled' \/ Honest(f))
<1>1. /\ UNCHANGED phase /\ late' \in Nat
  BY DEF LateLoop, TuiTypes, TTypeOK
<1>2. PICK v \in {"Disconnected", "Connected"} :
         Push(<<Event(v)>>) /\ (v = "Connected" => misled') /\ (v # "Connected" => UNCHANGED misled)
  BY DEF LateLoop
<1> DEFINE e == Event(v)
<1>3. e \in Lines /\ ~Responds(e) /\ e.value = v /\ e.line = "event"
  BY LineTypes DEF Told
<1> HIDE DEF e
<1>4. <<e>> \in Seq(Lines) /\ Events(<<e>>) /\ (v # "Connected" => Denied(<<e>>))
  BY <1>3, Tuples, Batches DEF Denies
<1>5. v # "Connected" => Honest(<<e>>)
  BY <1>4 DEF Honest
<1>6. Push(<<e>>)
  BY <1>2 DEF e
<1> QED BY <1>1, <1>2, <1>4, <1>5, <1>6

idle == UNCHANGED idleIpc /\ \E kinds \in SUBSET Kind : Submit(kinds)

\* All that may happen to the socket.
Socket ==
    \/ idle
    \/ \E k \in waiting : Send(k) \/ SendFails(k)
    \/ Receive \/ Eof
    \/ Pop /\ \E kinds \in SUBSET {"status"} : Submit(kinds)
    \/ \E f \in Seq(Lines) : Answer(f) /\ Batch(f)
    \/ \E f \in Seq(Lines) : Push(f) /\ Events(f)
    \/ Lose

LEMMA Quietly == (UNCHANGED <<idleIpc, waiting>> \/ UNCHANGED ipcVars) => idle
<1> SUFFICES ASSUME UNCHANGED <<idleIpc, waiting>> \/ UNCHANGED ipcVars PROVE idle
  OBVIOUS
<1>1. UNCHANGED idleIpc /\ waiting' = waiting \cup {}
  BY DEF idleIpc, ipcVars
<1> QED BY <1>1 DEF idle, Submit

LEMMA KeySocket ==
  ASSUME Key
  PROVE  idle
<1>1. {} \in SUBSET Kind
  OBVIOUS
<1>2. {"status"} \in SUBSET Kind /\ {"stats"} \in SUBSET Kind /\ {"account"} \in SUBSET Kind
      /\ {"connect"} \in SUBSET Kind
  BY DEF Kind, Polls
<1>3. {"disconnect"} \in SUBSET Kind /\ {"settings"} \in SUBSET Kind
      /\ {"logout"} \in SUBSET Kind /\ {"login"} \in SUBSET Kind
  BY DEF Kind
<1>4. CASE StatusTab
  BY <1>2, <1>4, Quietly DEF StatusTab, idle
<1>5. CASE ServersTab \/ FilterKey \/ ToggleKey
  BY <1>5, Quietly DEF ServersTab, FilterKey, ToggleKey
<1>6. CASE SettingsTab \/ ConnectKey
  BY <1>2, <1>6 DEF SettingsTab, ConnectKey, idle
<1>7. CASE DisconnectKey
  BY <1>3, <1>7, Quietly DEF DisconnectKey, idle
<1>8. CASE SaveKey \/ LogoutKey
  BY <1>3, <1>8 DEF SaveKey, LogoutKey, idle
<1>9. CASE LoginKey
  BY <1>3, <1>9, Quietly DEF LoginKey, idle
<1> QED BY <1>4, <1>5, <1>6, <1>7, <1>8, <1>9 DEF Key

LEMMA MessageSocket ==
  ASSUME Message
  PROVE  idle
<1>1. {} \in SUBSET Kind /\ {"servers"} \in SUBSET Kind
  BY DEF Kind
<1>2. ASSUME NEW m \in msgs, OnDaemonConnected(m) PROVE idle
  BY <1>1, <1>2, Quietly DEF OnDaemonConnected, idle
<1>3. ASSUME NEW m \in msgs, OnLoginResult(m) PROVE idle
  BY <1>1, <1>3, Quietly DEF OnLoginResult, idle
<1>4. ASSUME NEW m \in msgs,
             \/ OnSessionExpired(m) \/ OnServersLoaded(m) \/ OnConnectError(m)
             \/ OnDisconnected(m) \/ OnStatus(m) \/ OnStats(m) \/ OnLogout(m)
      PROVE  idle
  BY <1>4, Quietly DEF OnSessionExpired, OnServersLoaded, OnConnectError, OnDisconnected,
     OnStatus, OnStats, OnLogout
<1> QED BY <1>2, <1>3, <1>4 DEF Message

LEMMA SocketStep ==
  ASSUME TuiTypes, [TNext]_tvars
  PROVE  Socket
<1>1. {"bootStatus"} \in SUBSET Kind /\ {"bootServers"} \in SUBSET Kind /\ {"stats"} \in SUBSET Kind
  BY DEF Kind, Polls
<1>2. CASE Boot \/ BootServers
  BY <1>1, <1>2 DEF Boot, BootServers, Socket, idle, idleIpc
<1>3. CASE SendCommand \/ ReceiveReply \/ CommandFails
  BY <1>3 DEF SendCommand, ReceiveReply, CommandFails, Socket
<1>4. CASE Message \/ Key
  BY <1>4, MessageSocket, KeySocket DEF Socket
<1>5. CASE Tick_
  BY <1>1, <1>5, Quietly DEF Tick_, Socket, idle
<1>6. CASE DaemonEvent
  <2>1. Pop /\ (UNCHANGED waiting \/ Submit({"status"}))
    <3>0. Head(sock).value \in Told
      <4>1. Head(sock) \in Lines
        BY <1>6, HeadTailProperties DEF TuiTypes, DaemonEvent, Pop
      <4> QED BY <1>6, <4>1 DEF Lines, DaemonEvent, Pop
    <3> QED BY <1>6, <3>0 DEF DaemonEvent, Told
  <2>2. \E kinds \in SUBSET {"status"} : Submit(kinds)
    <3>1. CASE UNCHANGED waiting
      <4>1. Submit({})
        BY <3>1 DEF Submit
      <4> QED BY <4>1
    <3> QED BY <2>1, <3>1
  <2> QED BY <2>1, <2>2 DEF Socket
<1>7. CASE Reply
  BY <1>7, ReplyFrames DEF Socket
<1>8. CASE Moves \/ LateLoop
  BY <1>8, MoveFrames, LateFrames DEF Socket
<1>9. CASE OtherClient
  BY <1>9, OtherFrames, Quietly DEF Socket
<1>10. CASE DaemonDies
  BY <1>10 DEF DaemonDies, Socket
<1>11. CASE ConnectSaved \/ UNCHANGED tvars
  BY <1>11, Quietly DEF ConnectSaved, tvars, Socket
<1> QED BY <1>2, <1>3, <1>4, <1>5, <1>6, <1>7, <1>8, <1>9, <1>10, <1>11 DEF TNext, Moves

-----------------------------------------------------------------------------
(* One answer at a time *)

Talk ==
    /\ RepliesMatch
    /\ doing = "none" => req = "none" /\ Responses = {}
    /\ link = "lost" => req = "none"

\* A batch or some events more.
LEMMA MoreLines ==
  ASSUME NEW s \in Seq(Lines), NEW f \in Seq(Lines)
  PROVE  /\ s \o f \in Seq(Lines)
         /\ \A i \in DOMAIN (s \o f) :
               \/ i \in DOMAIN s /\ (s \o f)[i] = s[i]
               \/ i - Len(s) \in DOMAIN f /\ (s \o f)[i] = f[i - Len(s)] /\ i > Len(s)
         /\ \A i \in DOMAIN s : i \in DOMAIN (s \o f) /\ (s \o f)[i] = s[i] /\ i <= Len(s)
         /\ \A i \in DOMAIN f : i + Len(s) \in DOMAIN (s \o f) /\ (s \o f)[i + Len(s)] = f[i]
         /\ DOMAIN s \subseteq Nat /\ DOMAIN f \subseteq Nat \ {0} /\ Len(s) \in Nat
<1>1. /\ s \o f \in Seq(Lines) /\ Len(s \o f) = Len(s) + Len(f)
      /\ \A i \in 1..Len(s) + Len(f) :
            (s \o f)[i] = IF i <= Len(s) THEN s[i] ELSE f[i - Len(s)]
  BY ConcatProperties
<1>2. DOMAIN s = 1..Len(s) /\ DOMAIN f = 1..Len(f) /\ Len(s) \in Nat /\ Len(f) \in Nat
      /\ DOMAIN (s \o f) = 1..Len(s) + Len(f)
  BY <1>1
<1> HIDE <1>1
<1>3. /\ s \o f \in Seq(Lines)
      /\ \A i \in 1..Len(s) + Len(f) :
            (s \o f)[i] = IF i <= Len(s) THEN s[i] ELSE f[i - Len(s)]
  BY <1>1
<1> DEFINE g == s \o f
           m == Len(s)
           n == Len(f)
<1> HIDE DEF g, m, n
<1>4. \A i \in 1..m + n : g[i] = IF i <= m THEN s[i] ELSE f[i - m]
  BY <1>3 DEF g, m, n
<1>5. DOMAIN s = 1..m /\ DOMAIN f = 1..n /\ m \in Nat /\ n \in Nat /\ DOMAIN g = 1..m + n
  BY <1>2 DEF g, m, n
<1>6. /\ \A i \in DOMAIN g : \/ i \in DOMAIN s /\ g[i] = s[i]
                             \/ i - m \in DOMAIN f /\ g[i] = f[i - m] /\ i > m
      /\ \A i \in DOMAIN s : i \in DOMAIN g /\ g[i] = s[i] /\ i <= m
      /\ \A i \in DOMAIN f : i + m \in DOMAIN g /\ g[i + m] = f[i]
      /\ DOMAIN s \subseteq Nat /\ DOMAIN f \subseteq Nat \ {0}
  BY <1>4, <1>5
<1> QED BY <1>3, <1>5, <1>6 DEF g, m, n

\* The first line is taken.
LEMMA LineTaken ==
  ASSUME NEW s \in Seq(Lines), s # <<>>
  PROVE  /\ Tail(s) \in Seq(Lines) /\ Head(s) \in Lines /\ Head(s) = s[1] /\ 1 \in DOMAIN s
         /\ \A i \in DOMAIN Tail(s) : i + 1 \in DOMAIN s /\ Tail(s)[i] = s[i + 1] /\ i \in Nat \ {0}
         /\ \A i \in DOMAIN s : i = 1 \/ (i - 1 \in DOMAIN Tail(s) /\ Tail(s)[i - 1] = s[i])
  BY HeadTailProperties

LEMMA TalkInit == TInit => Talk
<1> SUFFICES ASSUME TInit PROVE Talk
  OBVIOUS
<1>1. doing = "none" /\ req = "none" /\ sock = <<>> /\ link = "up"
  BY DEF TInit, InitIpc
<1>2. Responses = {}
  BY <1>1 DEF Responses
<1> QED BY <1>1, <1>2 DEF Talk, RepliesMatch

\* At most one request is under way, or its answer, and it is that of the
\* command which holds the lock.
LEMMA TalkStep ==
  ASSUME TuiTypes, Talk, Socket
  PROVE  Talk'
<1> USE DEF Talk, RepliesMatch
<1>0. sock \in Seq(Lines) /\ waiting \subseteq Kind /\ "none" \notin Kind
  BY DEF TuiTypes, TTypeOK, Kind, Polls
<1>1. CASE UNCHANGED <<doing, req, sock, link>>
  BY <1>1 DEF Responses
<1>2. ASSUME NEW k \in waiting, Send(k) PROVE Talk'
  <2>1. UNCHANGED <<sock, link>> /\ doing' = k /\ req' = k /\ doing = "none" /\ link = "up"
    BY <1>2 DEF Send
  <2>2. Responses' = {}
    BY <2>1 DEF Responses
  <2> QED BY <1>0, <2>1, <2>2
<1>3. CASE Receive
  <2>1. /\ sock # <<>> /\ Responds(Head(sock)) /\ sock' = Tail(sock) /\ doing' = "none"
        /\ UNCHANGED <<req, link>>
    BY <1>3 DEF Receive
  <2>2. 1 \in Responses /\ req = "none"
    BY <1>0, <2>1, LineTaken DEF Responses
  <2>3. Responses' = {}
    <3>1. ASSUME NEW i \in Responses' PROVE FALSE
      <4>1. i + 1 \in Responses /\ i \in Nat \ {0}
        BY <1>0, <2>1, <3>1, LineTaken DEF Responses
      <4> QED BY <2>2, <4>1
    <3> QED BY <3>1
  <2> QED BY <2>1, <2>2, <2>3
<1>4. CASE Pop
  <2>1. /\ sock # <<>> /\ ~Responds(Head(sock)) /\ sock' = Tail(sock)
        /\ UNCHANGED <<doing, req, link>>
    BY <1>4 DEF Pop
  <2>2. \A i \in Responses' : i + 1 \in Responses /\ i \in Nat /\ sock'[i] = sock[i + 1]
    BY <1>0, <2>1, LineTaken DEF Responses
  <2>3. \A i, j \in Responses' : i = j
    <3> SUFFICES ASSUME NEW i \in Responses', NEW j \in Responses' PROVE i = j
      OBVIOUS
    <3>1. i + 1 = j + 1 /\ i \in Nat /\ j \in Nat
      BY <2>2
    <3> QED BY <3>1
  <2> QED BY <2>1, <2>2, <2>3
<1>5. CASE Eof
  <2>1. sock = <<>> /\ link = "lost" /\ doing' = "none" /\ UNCHANGED <<req, sock, link>>
    BY <1>5 DEF Eof
  <2>2. Responses' = {}
    BY <2>1 DEF Responses
  <2> QED BY <2>1, <2>2
<1>6. ASSUME NEW f \in Seq(Lines), Answer(f), Batch(f) PROVE Talk'
  <2>1. /\ req # "none" /\ link = "up" /\ sock' = sock \o f /\ req' = "none"
        /\ UNCHANGED <<doing, link>> /\ Responses = {} /\ doing = req
    BY <1>6 DEF Answer
  <2>2. f # <<>> /\ f[Len(f)].kind = req /\ \A i \in DOMAIN f : Responds(f[i]) => i = Len(f)
    BY <1>6 DEF Batch
  <2>3. \A i \in Responses' : i - Len(sock) = Len(f) /\ sock'[i] = f[Len(f)] /\ i \in Nat
    BY <1>0, <2>1, <2>2, MoreLines DEF Responses
  <2>4. Len(f) \in Nat /\ Len(sock) \in Nat
    BY <1>0
  <2>5. \A i, j \in Responses' : i = j
    <3> HIDE DEF Talk, RepliesMatch
    <3> SUFFICES ASSUME NEW i \in Responses', NEW j \in Responses' PROVE i = j
      OBVIOUS
    <3> QED BY <2>3, <2>4
  <2> QED BY <2>1, <2>2, <2>3, <2>5
<1>7. ASSUME NEW f \in Seq(Lines), Push(f), Events(f) PROVE Talk'
  <2>1. UNCHANGED <<doing, req, link>>
    BY <1>7 DEF Push
  <2>2. \A i \in Responses' : i \in Responses /\ sock'[i] = sock[i]
    <3>1. CASE sock' = sock
      BY <3>1 DEF Responses
    <3>2. CASE sock' = sock \o f
      BY <1>0, <1>7, <3>2, MoreLines DEF Responses, Events
    <3> QED BY <1>7, <3>1, <3>2 DEF Push
  <2> QED BY <2>1, <2>2
<1>8. CASE Lose
  <2>1. req' = "none" /\ UNCHANGED <<doing, sock>>
    BY <1>8 DEF Lose
  <2> QED BY <2>1 DEF Responses
<1>9. ASSUME NEW k \in waiting, SendFails(k) PROVE Talk'
  BY <1>1, <1>9 DEF SendFails
<1> QED BY <1>1, <1>2, <1>3, <1>4, <1>5, <1>6, <1>7, <1>8, <1>9 DEF Socket, idle, idleIpc

-----------------------------------------------------------------------------
(* Types *)

LEMMA SocketTypes ==
  ASSUME TuiTypes, Socket
  PROVE  /\ waiting' \subseteq Kind /\ doing' \in Kind \cup {"none"}
         /\ req' \in Kind \cup {"none"} /\ link' \in {"up", "lost"} /\ sock' \in Seq(Lines)
<1> USE DEF TuiTypes, TTypeOK
<1>1. CASE idle
  BY <1>1 DEF idle, idleIpc, Submit
<1>2. ASSUME NEW k \in waiting, Send(k) \/ SendFails(k)
      PROVE  /\ waiting' \subseteq Kind /\ doing' \in Kind \cup {"none"}
             /\ req' \in Kind \cup {"none"} /\ UNCHANGED <<sock, link>>
  BY <1>2 DEF Send, SendFails
<1>3. CASE Receive \/ Eof
  BY <1>3, LineTaken DEF Receive, Eof
<1>4. CASE Pop /\ \E kinds \in SUBSET {"status"} : Submit(kinds)
  BY <1>4, LineTaken DEF Pop, Submit, Kind, Polls
<1>5. ASSUME NEW f \in Seq(Lines), Answer(f) \/ Push(f)
      PROVE  sock' \in Seq(Lines) /\ UNCHANGED <<waiting, doing, link>> /\ req' \in {req, "none"}
  <2>1. sock \o f \in Seq(Lines)
    BY MoreLines
  <2>2. CASE Answer(f)
    BY <2>1, <2>2 DEF Answer
  <2>3. CASE Push(f)
    BY <2>1, <2>3 DEF Push
  <2> QED BY <1>5, <2>2, <2>3
<1>6. CASE Lose
  BY <1>6 DEF Lose
<1> QED BY <1>1, <1>2, <1>3, <1>4, <1>5, <1>6 DEF Socket

Msgs == [name : Names, value : Replies \cup {"failed"} \cup Boots]

LEMMA TypesInit == TInit => TuiTypes
<1> SUFFICES ASSUME TInit PROVE TuiTypes
  OBVIOUS
<1>1. TTypeOK
  <2>1. signedIn \in BOOLEAN
    BY TuiAssumption DEF TInit
  <2>2. /\ waiting = {} /\ doing = "none" /\ req = "none" /\ link = "up"
        /\ view \in View /\ shown \in Shown /\ step = "username"
    BY DEF TInit, InitIpc, View, Shown
  <2>3. phase \in Phase /\ jobs \in Nat
    BY <2>1 DEF TInit, Phase
  <2>5. late \in Nat
    BY DEF TInit
  <2>4. {authed, listed, handler, tick, mem, file, dcfg, signedIn, saving,
         saved, overlapped, misled} \subseteq BOOLEAN
    BY <2>1, Zenon DEF TInit
  <2> QED BY <2>2, <2>3, <2>4, <2>5 DEF TTypeOK
<1>2. sock \in Seq(Lines) /\ boot \in Boots /\ msgs = {}
  <2>1. sock = <<>> /\ boot = "none" /\ msgs = {}
    BY DEF TInit, InitIpc
  <2> QED BY <2>1 DEF Boots
<1> QED BY <1>1, <1>2 DEF TuiTypes

\* What a goroutine reports is a message.
LEMMA ResultTypes ==
  ASSUME boot \in Boots, NEW k \in Kind, NEW v \in Replies \cup {"failed"}
  PROVE  Result(k, v) \subseteq Msgs
<1>1. "failed" \in Boots /\ Replies \subseteq Boots
  BY DEF Boots
<1>2. \A name \in Names, x \in Replies \cup {"failed"} \cup Boots : Msg(name, x) \in Msgs
  BY DEF Msg, Msgs
<1> QED BY <1>1, <1>2 DEF Result, Names

LEMMA FinishTypes ==
  ASSUME TuiTypes, NEW k \in Kind, NEW v \in Replies \cup {"failed"}, Finish(k, v)
  PROVE  msgs' \subseteq Msgs /\ boot' \in Boots
<1>1. Result(k, v) \subseteq Msgs
  BY ResultTypes DEF TuiTypes
<1> QED BY <1>1 DEF Finish, TuiTypes, Msgs, Boots

\* What an action may change besides the socket, by who takes it.
AppTypes ==
    /\ view \in View /\ shown \in Shown
    /\ step \in {"username", "password", "2fa", "logging"}
    /\ authed \in BOOLEAN /\ listed \in BOOLEAN /\ handler \in BOOLEAN /\ tick \in BOOLEAN
    /\ misled \in BOOLEAN
    /\ msgs \subseteq Msgs /\ boot \in Boots

DaemonTypes ==
    /\ phase \in Phase /\ jobs \in Nat /\ late \in Nat
    /\ mem \in BOOLEAN /\ file \in BOOLEAN /\ dcfg \in BOOLEAN /\ signedIn \in BOOLEAN
    /\ saving \in BOOLEAN /\ saved \in BOOLEAN /\ overlapped \in BOOLEAN

LEMMA TypesSplit ==
  TuiTypes <=> /\ AppTypes /\ DaemonTypes
               /\ waiting \subseteq Kind /\ doing \in Kind \cup {"none"}
               /\ req \in Kind \cup {"none"} /\ link \in {"up", "lost"} /\ sock \in Seq(Lines)
  BY DEF TuiTypes, TTypeOK, AppTypes, DaemonTypes, Msgs

LEMMA MessageTypes ==
  ASSUME AppTypes, DaemonTypes, Message
  PROVE  AppTypes' /\ DaemonTypes'
<1> PICK m \in msgs :
      \/ OnDaemonConnected(m) \/ OnSessionExpired(m) \/ OnLoginResult(m)
      \/ OnServersLoaded(m) \/ OnConnectError(m) \/ OnDisconnected(m)
      \/ OnStatus(m) \/ OnStats(m) \/ OnLogout(m)
  BY DEF Message
<1> USE DEF AppTypes, DaemonTypes, View, Shown
<1>1. CASE OnDaemonConnected(m)
  <2>1. msgs' \subseteq Msgs /\ boot' \in Boots /\ DaemonTypes' /\ UNCHANGED misled
    BY <1>1 DEF OnDaemonConnected, TakeMsg, Boots, settings, saves, daemonVars
  <2>2. view' \in View /\ shown' \in Shown /\ step' \in {"username", step}
    BY <1>1 DEF OnDaemonConnected
  <2>3. /\ authed' \in {authed, TRUE} /\ handler' \in {handler, TRUE} /\ tick' \in {tick, TRUE}
        /\ listed' \in BOOLEAN
    <3>1. CASE m.value = "not_authenticated"
      BY <1>1, <3>1 DEF OnDaemonConnected
    <3>2. CASE m.value # "not_authenticated"
      BY <1>1, <3>2 DEF OnDaemonConnected
    <3> QED BY <3>1, <3>2
  <2> QED BY <2>1, <2>2, <2>3
<1>2. CASE OnSessionExpired(m)
  BY <1>2 DEF OnSessionExpired, TakeMsg, Settled, Config, settings, saves, daemonVars
<1>3. CASE OnLoginResult(m)
  <2>1. msgs' \subseteq Msgs /\ boot' \in Boots /\ DaemonTypes' /\ UNCHANGED <<misled, tick>>
    BY <1>3 DEF OnLoginResult, TakeMsg, Settled, Config, settings, saves, daemonVars
  <2>2. CASE view # "login"
    BY <1>3, <2>1, <2>2 DEF OnLoginResult, appVars
  <2>3. CASE view = "login" /\ m.value = "ok"
    <3>1. authed' = TRUE /\ view' = "servers" /\ listed' = FALSE /\ UNCHANGED <<shown, step, handler>>
      BY <1>3, <2>3 DEF OnLoginResult
    <3> QED BY <2>1, <3>1
  <2>4. CASE view = "login" /\ m.value # "ok"
    <3>1. UNCHANGED <<view, authed, shown, listed, handler>>
      BY <1>3, <2>4 DEF OnLoginResult
    <3>2. step' \in {"2fa", "username", step}
      BY <1>3, <2>4 DEF OnLoginResult
    <3> QED BY <2>1, <3>1, <3>2
  <2> QED BY <2>2, <2>3, <2>4
<1>4. CASE OnServersLoaded(m)
  <2>1. msgs' \subseteq Msgs /\ UNCHANGED <<view, authed, shown, step, handler, tick, Settled>>
    BY <1>4 DEF OnServersLoaded, TakeMsg
  <2>2. listed' \in BOOLEAN
    BY <1>4, Zenon DEF OnServersLoaded
  <2> QED BY <2>1, <2>2 DEF Settled, Config, settings, saves, daemonVars
<1>5. CASE OnConnectError(m)
  BY <1>5 DEF OnConnectError, TakeMsg, Settled, Config, settings, saves, daemonVars
<1>6. CASE OnDisconnected(m)
  BY <1>6 DEF OnDisconnected, TakeMsg, Settled, Config, settings, saves, daemonVars
<1>7. CASE OnStatus(m)
  BY <1>7 DEF OnStatus, ShownOf, Known, TakeMsg, Config, settings, saves, daemonVars
<1>8. CASE OnStats(m)
  BY <1>8 DEF OnStats, TakeMsg, Settled, Config, settings, saves, daemonVars, appVars
<1>9. CASE OnLogout(m)
  <2>1. /\ msgs' \subseteq Msgs /\ view' = "login" /\ step' = "username" /\ authed' = FALSE
        /\ UNCHANGED <<shown, listed, handler, tick>> /\ UNCHANGED Settled
    BY <1>9 DEF OnLogout, TakeMsg
  <2>2. DaemonTypes'
    BY <2>1 DEF Settled, Config, settings, saves, daemonVars
  <2> QED BY <2>1, <2>2 DEF Settled, Config
<1> QED BY <1>1, <1>2, <1>3, <1>4, <1>5, <1>6, <1>7, <1>8, <1>9

LEMMA KeyTypes ==
  ASSUME AppTypes, DaemonTypes, Key
  PROVE  AppTypes' /\ DaemonTypes'
<1> USE DEF AppTypes, DaemonTypes, View, Shown, Quiescent, settings, saves, daemonVars
<1>1. CASE StatusTab
  <2>1. view' = "status" /\ UNCHANGED <<authed, shown, step, listed, handler, msgs>> /\ UNCHANGED settings
        /\ UNCHANGED <<boot, moves, misled>> /\ UNCHANGED daemonVars
    BY <1>1 DEF StatusTab
  <2>2. tick' \in BOOLEAN
    BY <1>1, Zenon DEF StatusTab
  <2>3. AppTypes'
    BY <2>1, <2>2
  <2>4. DaemonTypes'
    BY <2>1
  <2> QED BY <2>3, <2>4
<1>2. CASE ServersTab \/ SettingsTab
  BY <1>2 DEF ServersTab, SettingsTab
<1>3. CASE ConnectKey
  BY <1>3 DEF ConnectKey
<1>4. CASE FilterKey
  BY <1>4 DEF FilterKey, appVars
<1>5. CASE DisconnectKey
  BY <1>5 DEF DisconnectKey, Msg, Msgs, Names, Replies
<1>6. CASE ToggleKey \/ SaveKey \/ LogoutKey
  <2>1. UNCHANGED appVars /\ UNCHANGED <<msgs, tick>> /\ UNCHANGED Quiescent
    BY <1>6 DEF ToggleKey, SaveKey, LogoutKey
  <2>2. mem' \in BOOLEAN
    BY <1>6, Zenon DEF ToggleKey, SaveKey, LogoutKey
  <2>3. file' \in {file, mem} /\ saved' \in {saved, mem} /\ overlapped' \in {overlapped, saving}
    BY <1>6 DEF ToggleKey, SaveKey, LogoutKey
  <2> QED BY <2>1, <2>2, <2>3 DEF appVars
<1>7. CASE LoginKey
  BY <1>7 DEF LoginKey
<1> QED BY <1>1, <1>2, <1>3, <1>4, <1>5, <1>6, <1>7 DEF Key

LEMMA OtherTypes ==
  ASSUME TuiTypes, [TNext]_tvars, ~Message, ~Key
  PROVE  AppTypes' /\ DaemonTypes'
<1>0. AppTypes /\ DaemonTypes /\ doing \in Kind \cup {"none"} /\ waiting \subseteq Kind
  BY TypesSplit
<1> USE DEF settings, saves, daemonVars
<1>1. CASE Boot \/ SendCommand \/ BootServers \/ Tick_
  <2>1. UNCHANGED <<appVars, msgs, settings, daemonVars, misled>> /\ boot' \in {boot, "asked"}
    BY <1>1 DEF Boot, SendCommand, BootServers, Tick_, Settled, Config
  <2>2. tick' \in BOOLEAN
    <3>1. CASE Boot \/ SendCommand \/ BootServers
      BY <1>0, <3>1 DEF Boot, SendCommand, BootServers, AppTypes
    <3>2. CASE Tick_
      BY <3>2, Zenon DEF Tick_
    <3> QED BY <1>1, <3>1, <3>2
  <2> QED BY <1>0, <2>1, <2>2 DEF AppTypes, DaemonTypes, appVars, Boots
<1>2. CASE ReceiveReply \/ CommandFails
  <2>1. \E k \in Kind, v \in Replies \cup {"failed"} : Finish(k, v)
    <3>1. CASE ReceiveReply
      <4>1. Head(sock) \in Lines /\ Responds(Head(sock))
        BY <3>1, HeadTailProperties DEF ReceiveReply, Receive, TuiTypes
      <4> QED BY <3>1, <4>1 DEF ReceiveReply, Lines
    <3>2. CASE CommandFails
      BY <1>0, <3>2 DEF CommandFails, Eof
    <3> QED BY <1>2, <3>1, <3>2
  <2>2. msgs' \subseteq Msgs /\ boot' \in Boots
    BY <2>1, FinishTypes
  <2>3. UNCHANGED appVars /\ UNCHANGED <<tick, settings>> /\ UNCHANGED daemonVars /\ UNCHANGED misled
    BY <2>1 DEF Finish
  <2> QED BY <1>0, <2>2, <2>3 DEF AppTypes, DaemonTypes, appVars
<1>3. CASE DaemonEvent
  <2>1. UNCHANGED <<boot, msgs, settings>> /\ UNCHANGED daemonVars
    BY <1>3 DEF DaemonEvent
  <2>2. Head(sock).value \in Told
    <3>1. Head(sock) \in Lines
      BY <1>3, HeadTailProperties DEF TuiTypes, DaemonEvent, Pop
    <3> QED BY <1>3, <3>1 DEF Lines, DaemonEvent, Pop
  <2>3. misled' \in BOOLEAN
    BY <1>0, <1>3, Zenon DEF DaemonEvent, AppTypes
  <2>4. /\ view' \in {view, "status", "servers"} /\ (tick' = tick \/ tick' = TRUE)
        /\ UNCHANGED <<authed, step, listed, handler>>
        /\ shown' \in {shown, "connecting", "connected", "reconnecting", "disconnected", "error"}
    <3>1. CASE ~handler
      BY <1>3, <3>1 DEF DaemonEvent, appVars
    <3>2. CASE handler
      BY <1>3, <2>2, <3>2 DEF DaemonEvent, Told
    <3> QED BY <3>1, <3>2
  <2>5. tick' \in BOOLEAN
    BY <1>0, <2>4 DEF AppTypes
  <2>6. AppTypes'
    BY <1>0, <2>1, <2>3, <2>4, <2>5 DEF AppTypes, View, Shown
  <2> QED BY <1>0, <2>1, <2>6 DEF DaemonTypes
<1>4. CASE Reply
  <2>1. UNCHANGED ui
    BY <1>4 DEF Reply, ReplyStatus, ReplyServers, ReplyConnect, ReplyDisconnect, ReplyLogin,
       ReplyLogout, ReplySettings
  <2>2. phase' \in {phase, "idle"} /\ jobs' \in {jobs, jobs + 1} /\ dcfg' \in {dcfg, file}
        /\ late' \in {late, late + 1} /\ UNCHANGED saving
    BY <1>4 DEF Reply, ReplyStatus, ReplyServers, ReplyConnect, ReplyDisconnect, ReplyLogin,
       ReplyLogout, ReplySettings, Dropped, CancelLoop
  <2>3. signedIn' \in BOOLEAN
    <3>1. CASE ReplyLogin
      BY <3>1, Zenon DEF ReplyLogin
    <3>2. CASE ~ReplyLogin
      BY <1>0, <1>4, <3>2 DEF Reply, ReplyStatus, ReplyServers, ReplyConnect, ReplyDisconnect,
         ReplyLogout, ReplySettings, DaemonTypes
    <3> QED BY <3>1, <3>2
  <2> QED BY <1>0, <2>1, <2>2, <2>3 DEF AppTypes, DaemonTypes, ui, appVars, Phase
<1>5. CASE Moves
  <2>1. UNCHANGED ui /\ UNCHANGED signedIn /\ dcfg' \in {dcfg, file}
        /\ saving' \in {saving, TRUE} /\ late' \in {late, late + 1}
    BY <1>5 DEF Moves, ConnectStart, ConnectSteps, ConnectPublished, TunnelFails,
       Reconnected, CancelLoop
  <2>2. phase' \in Phase
    BY <1>5 DEF Moves, ConnectStart, ConnectSteps, ConnectPublished, TunnelFails,
       Reconnected, Dial, Phase
  <2>3. jobs' \in Nat
    BY <1>0, <1>5 DEF Moves, ConnectStart, ConnectSteps, ConnectPublished, TunnelFails,
       Reconnected, DaemonTypes
  <2>4. AppTypes'
    BY <1>0, <2>1 DEF AppTypes, ui, appVars
  <2>5. late' \in Nat
    BY <1>0, <2>1 DEF DaemonTypes
  <2> QED BY <1>0, <2>1, <2>2, <2>3, <2>4, <2>5 DEF DaemonTypes, ui
<1>6. CASE OtherClient \/ DaemonDies
  <2>1. UNCHANGED ui /\ UNCHANGED signedIn /\ UNCHANGED dcfg
    BY <1>6 DEF OtherClient, DaemonDies
  <2>2. phase' \in {phase, "idle"} /\ jobs' \in {jobs, 0, 1}
        /\ saving' \in {saving, FALSE} /\ late' \in {late, late + 1, 0}
    BY <1>6 DEF OtherClient, DaemonDies, CancelLoop
  <2>3. AppTypes'
    BY <1>0, <2>1 DEF AppTypes, ui, appVars
  <2>4. phase' \in Phase /\ jobs' \in Nat /\ late' \in Nat
    BY <1>0, <2>2 DEF DaemonTypes, Phase
  <2>5. saving' \in BOOLEAN
    BY <1>0, <2>2 DEF DaemonTypes
  <2> QED BY <1>0, <2>1, <2>3, <2>4, <2>5 DEF DaemonTypes, ui
<1>7. CASE UNCHANGED tvars
  BY <1>0, <1>7 DEF tvars, AppTypes, DaemonTypes, appVars
<1>8. CASE ConnectSaved
  BY <1>0, <1>8 DEF ConnectSaved, AppTypes, DaemonTypes, appVars
<1>9. CASE LateLoop
  <2>1. late' \in Nat
    BY <1>9, LateFrames
  <2>2. misled' \in BOOLEAN
    BY <1>0, <1>9 DEF LateLoop, AppTypes
  <2>3. UNCHANGED <<appVars, boot, msgs, tick, settings, phase, jobs, signedIn, dcfg, saving>>
    BY <1>9 DEF LateLoop
  <2>4. AppTypes'
    BY <1>0, <2>2, <2>3 DEF AppTypes, appVars
  <2> QED BY <1>0, <2>1, <2>3, <2>4 DEF DaemonTypes
<1> QED BY <1>1, <1>2, <1>3, <1>4, <1>5, <1>6, <1>7, <1>8, <1>9 DEF TNext, Moves

LEMMA TypesStep ==
  ASSUME TuiTypes, [TNext]_tvars
  PROVE  TuiTypes' /\ Socket
<1>1. Socket
  BY SocketStep
<1>2. AppTypes' /\ DaemonTypes'
  BY MessageTypes, KeyTypes, OtherTypes, TypesSplit
<1>3. /\ waiting' \subseteq Kind /\ doing' \in Kind \cup {"none"}
      /\ req' \in Kind \cup {"none"} /\ link' \in {"up", "lost"} /\ sock' \in Seq(Lines)
  BY <1>1, SocketTypes
<1>4. TTypeOK'
  BY <1>2, <1>3 DEF TTypeOK, AppTypes, DaemonTypes
<1> QED BY <1>1, <1>2, <1>3, <1>4 DEF TuiTypes, AppTypes, Msgs

-----------------------------------------------------------------------------
(* Before the first screen: one goroutine, no handler and no keys *)

BootKinds == {"bootStatus", "bootServers"}
BootNames == {"daemonConnected", "sessionExpired"}

Begun == /\ BootKinds \cap waiting = {} /\ doing \notin BootKinds
         /\ \A m \in msgs : m.name \notin BootNames

Beginning ==
    /\ ~handler /\ ~authed
    /\ waiting \subseteq BootKinds /\ doing \in BootKinds \cup {"none"}
    /\ \A m, n \in msgs : m = n /\ m.name \in BootNames
    /\ \A a, b \in waiting : a = b
    /\ waiting # {} => doing = "none" /\ msgs = {}
    /\ doing # "none" => msgs = {}

Booting == IF view = "loading" THEN Beginning ELSE Begun

LEMMA BootingInit == TInit => Booting
  BY DEF TInit, InitIpc, Booting, Beginning

\* What a command may report.
LEMMA Results ==
  ASSUME NEW k \in Kind, NEW v
  PROVE  /\ k \notin BootKinds => \A m \in Result(k, v) : m.name \notin BootNames
         /\ k \in BootKinds => \A m, n \in Result(k, v) : m = n /\ m.name \in BootNames
         /\ k \in {"status", "stats"} /\ v # "failed" => \E m \in Result(k, v) : m.name = k
         /\ \A m \in Result(k, v) :
               /\ m.name = "status" => m.value = v
               /\ m.name = "daemonConnected" => \/ k = "bootServers" /\ m.value = boot
                                                \/ m.value = "not_authenticated"
<1> USE DEF Result, Msg, BootKinds, BootNames
<1>1. CASE k \in BootKinds
  BY <1>1
<1>2. CASE k \in {"status", "stats"}
  <2>1. Result(k, v) = {Msg(k, v)} \/ (v = "failed" /\ Result(k, v) = {})
    BY <1>2
  <2>2. Msg(k, v).name = k /\ Msg(k, v).value = v
    OBVIOUS
  <2> QED BY <1>2, <2>1, <2>2
<1>3. CASE k \in {"account", "servers", "connect", "disconnect"}
  BY <1>3
<1>4. CASE k \in {"login", "settings", "logout"}
  BY <1>4
<1>5. k \in BootKinds \cup {"status", "stats"} \cup {"account", "servers", "connect", "disconnect"}
            \cup {"login", "settings", "logout"}
  BY DEF Kind, Polls
<1> HIDE DEF Result, Msg, BootKinds, BootNames
<1> QED BY <1>1, <1>2, <1>3, <1>4, <1>5

\* The command that holds the lock is done, and reports.
LEMMA BootingFinish ==
  ASSUME TuiTypes, Booting, NEW k \in Kind, NEW v, Finish(k, v),
         \/ doing = k /\ doing' = "none" /\ UNCHANGED waiting
         \/ k \in waiting /\ doing = "none" /\ waiting' = waiting \ {k} /\ UNCHANGED doing
  PROVE  Booting'
<1>1. UNCHANGED appVars /\ msgs' = msgs \cup Result(k, v) /\ "none" \notin Kind
  BY DEF Finish, Kind, Polls
<1>2. CASE view # "loading"
  <2>1. k \notin BootKinds
    BY <1>2 DEF Booting, Begun
  <2>2. \A m \in msgs' : m.name \notin BootNames
    BY <1>1, <1>2, <2>1, Results DEF Booting, Begun
  <2> QED BY <1>1, <1>2, <2>2 DEF Booting, Begun, appVars, BootKinds
<1>3. CASE view = "loading"
  <2>1. k \in BootKinds /\ msgs = {} /\ waiting' = {} /\ doing' = "none"
    BY <1>1, <1>3 DEF Booting, Beginning
  <2>2. \A m, n \in msgs' : m = n /\ m.name \in BootNames
    BY <1>1, <2>1, Results
  <2> QED BY <1>1, <1>3, <2>1, <2>2 DEF Booting, Beginning, appVars
<1> QED BY <1>2, <1>3

LEMMA BootingMessage ==
  ASSUME TuiTypes, Booting, Message
  PROVE  Booting'
<1> PICK m \in msgs :
      \/ OnDaemonConnected(m) \/ OnSessionExpired(m) \/ OnLoginResult(m)
      \/ OnServersLoaded(m) \/ OnConnectError(m) \/ OnDisconnected(m)
      \/ OnStatus(m) \/ OnStats(m) \/ OnLogout(m)
  BY DEF Message
<1>1. msgs' = msgs \ {m}
  BY DEF OnDaemonConnected, OnSessionExpired, OnLoginResult, OnServersLoaded, OnConnectError,
     OnDisconnected, OnStatus, OnStats, OnLogout, TakeMsg
<1>2. CASE m.name \in BootNames
  <2>1. view = "loading" /\ msgs' = {} /\ waiting = {} /\ doing = "none"
    BY <1>1, <1>2 DEF Booting, Begun, Beginning
  <2>2. OnDaemonConnected(m) \/ OnSessionExpired(m)
    BY <1>2 DEF OnLoginResult, OnServersLoaded, OnConnectError,
       OnDisconnected, OnStatus, OnStats, OnLogout, BootNames
  <2>3. view' # "loading"
    BY <2>2 DEF OnDaemonConnected, OnSessionExpired
  <2>4. waiting' \subseteq {"servers"} /\ doing' = "none"
    <3>1. CASE OnDaemonConnected(m)
      BY <2>1, <3>1 DEF OnDaemonConnected, Submit, idleIpc
    <3>2. CASE OnSessionExpired(m)
      BY <2>1, <3>2 DEF OnSessionExpired, ipcVars
    <3> QED BY <2>2, <3>1, <3>2
  <2> QED BY <2>1, <2>3, <2>4 DEF Booting, Begun, BootKinds
<1>3. CASE m.name \notin BootNames
  <2>1. view # "loading"
    BY <1>3 DEF Booting, Beginning
  <2>2. \/ OnLoginResult(m) \/ OnServersLoaded(m) \/ OnConnectError(m)
        \/ OnDisconnected(m) \/ OnStatus(m) \/ OnStats(m) \/ OnLogout(m)
    BY <1>3 DEF OnDaemonConnected, OnSessionExpired, BootNames
  <2>3. view' # "loading" /\ UNCHANGED doing /\ waiting' \subseteq waiting \cup {"servers"}
    <3>1. CASE OnLoginResult(m)
      BY <2>1, <3>1 DEF OnLoginResult, Submit, idleIpc, appVars
    <3>2. CASE ~OnLoginResult(m)
      BY <2>1, <2>2, <3>2 DEF OnServersLoaded, OnConnectError, OnDisconnected, OnStatus, OnStats,
         OnLogout, ipcVars, appVars
    <3> QED BY <3>1, <3>2
  <2> QED BY <1>1, <2>1, <2>3 DEF Booting, Begun, BootKinds
<1> QED BY <1>2, <1>3

LEMMA BootingKey ==
  ASSUME TuiTypes, Booting, Key
  PROVE  Booting'
<1>1. view # "loading" /\ view' # "loading"
  BY DEF Key, StatusTab, ServersTab, SettingsTab, ConnectKey, FilterKey, DisconnectKey, ToggleKey,
     SaveKey, LogoutKey, LoginKey, Booting, Beginning, appVars
<1>2. UNCHANGED doing
  BY KeySocket DEF idle, idleIpc
<1>3. BootKinds \cap waiting' = {}
  <2>1. BootKinds \cap waiting = {}
    BY <1>1 DEF Booting, Begun
  <2>2. CASE StatusTab \/ ServersTab \/ SettingsTab \/ ConnectKey \/ FilterKey
    BY <2>1, <2>2 DEF StatusTab, ServersTab, SettingsTab, ConnectKey, FilterKey, Submit, BootKinds,
       ipcVars
  <2>3. CASE DisconnectKey \/ ToggleKey \/ SaveKey \/ LogoutKey \/ LoginKey
    BY <2>1, <2>3 DEF DisconnectKey, ToggleKey, SaveKey, LogoutKey, LoginKey, Submit, BootKinds,
       ipcVars
  <2> QED BY <2>2, <2>3 DEF Key
<1>4. \A m \in msgs' : m \in msgs \/ m.name = "disconnected"
  BY DEF Key, StatusTab, ServersTab, SettingsTab, ConnectKey, FilterKey, DisconnectKey, ToggleKey,
     SaveKey, LogoutKey, LoginKey, Msg
<1> QED BY <1>1, <1>2, <1>3, <1>4 DEF Booting, Begun, BootNames

\* What the daemon does leaves the TUI alone.
LEMMA DaemonAside ==
  ASSUME TuiTypes,
         Reply \/ Moves \/ OtherClient \/ DaemonDies \/ ConnectSaved \/ LateLoop \/ UNCHANGED tvars
  PROVE  /\ UNCHANGED <<waiting, doing>> /\ UNCHANGED appVars
         /\ UNCHANGED <<boot, msgs, tick, mem, saved, overlapped>>
         /\ ~ConnectSaved => UNCHANGED file
         /\ ~LateLoop => UNCHANGED misled
<1>1. UNCHANGED ui \/ UNCHANGED tvars \/ ConnectSaved \/ LateLoop
  BY DEF Reply, ReplyStatus, ReplyServers, ReplyConnect, ReplyDisconnect, ReplyLogin,
     ReplyLogout, ReplySettings, Moves, ConnectStart, ConnectSteps, ConnectPublished, TunnelFails,
     Reconnected, OtherClient, DaemonDies
<1>2. /\ UNCHANGED appVars /\ UNCHANGED <<boot, msgs, tick, mem, saved, overlapped>>
      /\ ~ConnectSaved => UNCHANGED file
      /\ ~LateLoop => UNCHANGED misled
  <2>1. CASE UNCHANGED ui \/ UNCHANGED tvars
    BY <2>1 DEF ui, tvars, settings, saves
  <2>2. CASE ConnectSaved \/ LateLoop
    BY <2>2 DEF ConnectSaved, LateLoop, settings, saves
  <2> QED BY <1>1, <2>1, <2>2
<1>3. UNCHANGED <<waiting, doing>>
  <2>1. CASE Reply
    BY <2>1, ReplyFrames DEF Answer
  <2>2. CASE Moves
    BY <2>2, MoveFrames DEF Push
  <2>3. CASE OtherClient
    BY <2>3, OtherFrames DEF Push, ipcVars
  <2>4. CASE DaemonDies \/ ConnectSaved \/ UNCHANGED tvars
    BY <2>4 DEF DaemonDies, Lose, ConnectSaved, tvars, ipcVars
  <2>5. CASE LateLoop
    BY <2>5, LateFrames DEF Push
  <2> QED BY <2>1, <2>2, <2>3, <2>4, <2>5
<1> QED BY <1>2, <1>3

LEMMA BootingStep ==
  ASSUME TuiTypes, Talk, Booting, [TNext]_tvars
  PROVE  Booting'
<1>0. sock \in Seq(Lines) /\ doing \in Kind \cup {"none"} /\ waiting \subseteq Kind /\ "none" \notin Kind
  BY TypesSplit DEF Kind, Polls
<1>1. CASE Boot \/ BootServers
  <2>1. /\ view = "loading" /\ waiting = {} /\ doing = "none" /\ msgs = {}
        /\ UNCHANGED <<doing, msgs>> /\ UNCHANGED appVars
        /\ waiting' = {"bootStatus"} \/ waiting' = {"bootServers"}
    BY <1>1 DEF Boot, BootServers, Submit
  <2> QED BY <2>1 DEF Booting, Beginning, appVars, BootKinds
<1>2. CASE SendCommand
  <2>1. PICK k \in waiting : Send(k)
    BY <1>2 DEF SendCommand
  <2>2. waiting' = waiting \ {k} /\ doing' = k /\ doing = "none" /\ UNCHANGED msgs /\ UNCHANGED appVars
    BY <1>2, <2>1 DEF SendCommand, Send
  <2> QED BY <1>0, <2>1, <2>2 DEF Booting, Beginning, Begun, appVars, BootKinds
<1>3. CASE ReceiveReply
  <2> DEFINE f == Head(sock)
  <2>1. f \in Lines /\ Responds(f) /\ f = sock[1] /\ 1 \in DOMAIN sock
    BY <1>0, <1>3, LineTaken DEF ReceiveReply, Receive
  <2>2. f.kind = doing /\ f.kind \in Kind
    BY <2>1 DEF Talk, RepliesMatch, Responses, Lines
  <2>3. Finish(f.kind, f.value) /\ doing' = "none" /\ UNCHANGED waiting
    BY <1>3 DEF ReceiveReply, Receive
  <2> HIDE DEF f
  <2> QED BY <2>2, <2>3, BootingFinish
<1>4. CASE CommandFails
  <2>1. CASE \E k \in waiting : SendFails(k) /\ Finish(k, "failed")
    BY <1>0, <2>1, BootingFinish DEF SendFails
  <2>2. CASE Eof /\ Finish(doing, "failed")
    BY <1>0, <2>2, BootingFinish DEF Eof
  <2> QED BY <1>4, <2>1, <2>2 DEF CommandFails
<1>5. CASE Tick_
  <2>1. /\ UNCHANGED appVars /\ UNCHANGED <<doing, msgs>>
        /\ waiting' = waiting \/ (view = "status" /\ waiting' = waiting \cup {"stats"})
    BY <1>5 DEF Tick_, Submit, idleIpc
  <2> QED BY <2>1 DEF Booting, Beginning, Begun, appVars, BootKinds
<1>6. CASE DaemonEvent
  <2>1. UNCHANGED <<doing, msgs>> /\ sock # <<>> /\ ~Responds(Head(sock))
    BY <1>6 DEF DaemonEvent, Pop
  <2>2. CASE ~handler
    BY <1>6, <2>1, <2>2 DEF DaemonEvent, Booting, Beginning, Begun, appVars
  <2>3. CASE handler
    <3>1. Head(sock).value \in Told
      BY <1>0, <2>1, LineTaken DEF Lines
    <3>2. view # "loading"
      BY <2>3 DEF Booting, Beginning
    <3>3. /\ view' \in {view, "status", "servers"}
          /\ waiting' = waiting \/ waiting' = waiting \cup {"status"}
      BY <1>6, <2>3, <3>1 DEF DaemonEvent, Told, Submit
    <3> QED BY <2>1, <3>2, <3>3 DEF Booting, Begun, BootKinds
  <2> QED BY <2>2, <2>3
<1>7. CASE Reply \/ Moves \/ OtherClient \/ DaemonDies \/ ConnectSaved \/ LateLoop
         \/ UNCHANGED tvars
  <2>1. UNCHANGED <<waiting, doing>> /\ UNCHANGED appVars /\ UNCHANGED msgs
    BY <1>7, DaemonAside
  <2> QED BY <2>1 DEF Booting, Begun, Beginning, appVars
<1> QED
  BY <1>1, <1>2, <1>3, <1>4, <1>5, <1>6, <1>7, BootingMessage, BootingKey DEF TNext, Moves

-----------------------------------------------------------------------------
(* A connection that is shown is kept fresh *)

Polled ==
    \/ tick
    \/ {"status", "stats"} \cap (waiting \cup {doing}) # {}
    \/ \E m \in msgs : m.name \in {"status", "stats"}

\* The socket does not come back, and what misled the TUI stays on record.
LEMMA NeverBack ==
  ASSUME TuiTypes, [TNext]_tvars
  PROVE  (link' = "up" => link = "up") /\ (misled => misled')
<1>1. link' = "up" => link = "up"
  <2>1. Socket
    BY SocketStep
  <2> QED BY <2>1 DEF Socket, idle, idleIpc, Send, SendFails, Receive, Eof, Pop, Answer, Push, Lose
<1>2. misled => misled'
  <2>1. CASE Message
    BY <2>1 DEF Message, OnDaemonConnected, OnSessionExpired, OnLoginResult, OnServersLoaded,
       OnConnectError, OnDisconnected, OnStatus, OnStats, OnLogout, Settled
  <2>2. CASE Key
    BY <2>2 DEF Key, StatusTab, ServersTab, SettingsTab, ConnectKey, FilterKey, DisconnectKey,
       ToggleKey, SaveKey, LogoutKey, LoginKey, Quiescent
  <2>3. CASE Boot \/ BootServers \/ SendCommand \/ ReceiveReply \/ CommandFails \/ Tick_
    BY <2>3 DEF Boot, BootServers, SendCommand, ReceiveReply, CommandFails, Finish, Tick_, Settled
  <2>4. CASE DaemonEvent
    BY <2>4 DEF DaemonEvent
  <2>5. CASE Reply \/ Moves \/ OtherClient \/ DaemonDies \/ ConnectSaved \/ UNCHANGED tvars
    BY <2>5, DaemonAside DEF LateLoop
  <2>6. CASE LateLoop
    BY <2>6 DEF LateLoop
  <2> QED BY <2>1, <2>2, <2>3, <2>4, <2>5, <2>6 DEF TNext, Moves
<1> QED BY <1>1, <1>2

LEMMA PolledMessage ==
  ASSUME TuiTypes, Message, view' = "status", shown' = "connected", ~misled',
         view = "status" /\ shown = "connected" => Polled
  PROVE  Polled'
<1> PICK m \in msgs :
      \/ OnDaemonConnected(m) \/ OnSessionExpired(m) \/ OnLoginResult(m)
      \/ OnServersLoaded(m) \/ OnConnectError(m) \/ OnDisconnected(m)
      \/ OnStatus(m) \/ OnStats(m) \/ OnLogout(m)
  BY DEF Message
<1>1. CASE OnDaemonConnected(m)
  BY <1>1 DEF OnDaemonConnected, Polled
<1>2. CASE OnSessionExpired(m) \/ OnConnectError(m) \/ OnDisconnected(m) \/ OnLogout(m)
  BY <1>2 DEF OnSessionExpired, OnConnectError, OnDisconnected, OnLogout
<1>3. CASE OnLoginResult(m)
  <2>1. view # "login"
    BY <1>3 DEF OnLoginResult
  <2>2. UNCHANGED appVars /\ UNCHANGED <<waiting, tick>> /\ UNCHANGED idleIpc
        /\ msgs' = msgs \ {m} /\ m.name = "loginResult"
    BY <1>3, <2>1 DEF OnLoginResult, TakeMsg
  <2> QED BY <2>2 DEF Polled, appVars, idleIpc
<1>4. CASE OnServersLoaded(m)
  <2>1. UNCHANGED ipcVars /\ UNCHANGED <<view, shown, tick>>
        /\ msgs' = msgs \ {m} /\ m.name = "serversLoaded"
    BY <1>4 DEF OnServersLoaded, TakeMsg
  <2> QED BY <2>1 DEF Polled, ipcVars
<1>5. CASE OnStatus(m)
  <2>1. Known(m.value) /\ shown' = ShownOf(m.value) /\ tick' = (tick \/ m.value = "Connected")
    BY <1>5 DEF OnStatus
  <2>2. m.value = "Connected"
    BY <2>1 DEF Known, ShownOf
  <2> QED BY <2>1, <2>2 DEF Polled
<1>6. CASE OnStats(m)
  <2>1. tick' = (tick \/ view = "status") /\ view' = view
    BY <1>6 DEF OnStats, appVars
  <2> QED BY <2>1 DEF Polled
<1> QED BY <1>1, <1>2, <1>3, <1>4, <1>5, <1>6

LEMMA PolledStep ==
  ASSUME TuiTypes, Talk, ConnectedViewPolls, [TNext]_tvars
  PROVE  ConnectedViewPolls'
<1> SUFFICES ASSUME view' = "status", shown' = "connected", link' = "up", ~misled'
             PROVE  Polled'
  BY DEF ConnectedViewPolls, Polled
<1>1. link = "up" /\ ~misled
  BY NeverBack
<1>2. view = "status" /\ shown = "connected" => Polled
  BY <1>1 DEF ConnectedViewPolls, Polled
<1>3. CASE Boot \/ BootServers
  BY <1>3 DEF Boot, BootServers, appVars
<1>4. CASE SendCommand
  <2>1. PICK k \in waiting : Send(k)
    BY <1>4 DEF SendCommand
  <2>2. waiting' = waiting \ {k} /\ doing' = k /\ doing = "none" /\ UNCHANGED <<msgs, tick>>
        /\ UNCHANGED appVars
    BY <1>4, <2>1 DEF SendCommand, Send
  <2> QED BY <1>2, <2>1, <2>2 DEF Polled, appVars
<1>5. CASE ReceiveReply
  <2> DEFINE f == Head(sock)
  <2>1. f \in Lines /\ Responds(f) /\ f = sock[1] /\ 1 \in DOMAIN sock
    BY <1>5, LineTaken DEF ReceiveReply, Receive, TuiTypes
  <2>2. f.kind = doing /\ f.kind \in Kind /\ f.value # "failed"
    BY <2>1 DEF Talk, RepliesMatch, Responses, Lines, Replies, Status
  <2>3. Finish(f.kind, f.value) /\ doing' = "none" /\ UNCHANGED waiting
    BY <1>5 DEF ReceiveReply, Receive
  <2> HIDE DEF f
  <2>4. msgs' = msgs \cup Result(f.kind, f.value) /\ UNCHANGED appVars /\ UNCHANGED tick
    BY <2>3 DEF Finish
  <2>5. CASE f.kind \in {"status", "stats"}
    <3>1. \E m \in msgs' : m.name \in {"status", "stats"}
      BY <2>2, <2>4, <2>5, Results
    <3> QED BY <3>1 DEF Polled
  <2>6. CASE f.kind \notin {"status", "stats"}
    BY <1>2, <2>2, <2>3, <2>4, <2>6 DEF Polled, appVars
  <2> QED BY <2>5, <2>6
<1>6. CASE CommandFails
  BY <1>1, <1>6 DEF CommandFails, SendFails, Eof
<1>7. CASE Message
  BY <1>2, <1>7, PolledMessage
<1>8. CASE Tick_
  <2>1. view = "status" /\ shown = "connected"
    BY <1>8 DEF Tick_, appVars
  <2>2. Submit({"stats"})
    BY <1>8, <2>1 DEF Tick_
  <2> QED BY <2>2 DEF Polled, Submit
<1>9. CASE DaemonEvent
  <2>1. handler
    BY <1>9 DEF DaemonEvent
  <2>2. Head(sock).value \in Told
    <3>1. Head(sock) \in Lines
      BY <1>9, LineTaken DEF DaemonEvent, Pop, TuiTypes
    <3> QED BY <1>9, <3>1 DEF Lines, DaemonEvent, Pop
  <2>3. tick'
    BY <1>9, <2>1, <2>2 DEF DaemonEvent, Told
  <2> QED BY <2>3 DEF Polled
<1>10. CASE Key
  <2>1. CASE StatusTab
    <3>1. Submit({"status"})
      BY <2>1 DEF StatusTab
    <3> QED BY <3>1 DEF Polled, Submit
  <2>2. ~(ServersTab \/ SettingsTab \/ ConnectKey \/ FilterKey \/ ToggleKey \/ SaveKey \/ LogoutKey)
    BY DEF ServersTab, SettingsTab, ConnectKey, FilterKey, ToggleKey, SaveKey, LogoutKey, appVars
  <2>3. ~DisconnectKey
    BY DEF DisconnectKey
  <2>4. ~LoginKey
    BY DEF LoginKey
  <2> QED BY <1>10, <2>1, <2>2, <2>3, <2>4 DEF Key
<1>11. CASE Reply \/ Moves \/ OtherClient \/ DaemonDies \/ ConnectSaved \/ LateLoop
         \/ UNCHANGED tvars
  BY <1>2, <1>11, DaemonAside DEF Polled, appVars
<1> QED BY <1>3, <1>4, <1>5, <1>6, <1>7, <1>8, <1>9, <1>10, <1>11 DEF TNext, Moves

-----------------------------------------------------------------------------
(* A daemon without a connection has said so, in a line that is still to be  *)
(* read after every claim of one, or nothing claims one any more.            *)

NoClaim ==
    /\ shown # "connected" /\ Silent(sock)
    /\ \A m \in msgs : m.name \in {"status", "daemonConnected"} => m.value # "Connected"
    /\ view = "loading" => boot # "Connected"

Heard == link = "up" /\ ~misled /\ phase \notin Live => Denied(sock) \/ NoClaim

LEMMA HeardInit == TInit => Heard
<1> SUFFICES ASSUME TInit PROVE NoClaim
  BY DEF Heard
<1>1. sock = <<>> /\ msgs = {} /\ shown = "disconnected" /\ boot = "none"
  BY DEF TInit, InitIpc
<1> QED BY <1>1 DEF NoClaim, Silent

LEMMA HeardMore ==
  ASSUME NEW s \in Seq(Lines), NEW f \in Seq(Lines)
  PROVE  /\ Denied(f) => Denied(s \o f)
         /\ Denied(s) /\ Silent(f) => Denied(s \o f)
         /\ Silent(s) /\ Silent(f) => Silent(s \o f)
<1> DEFINE g == s \o f
           n == Len(s)
<1>0. /\ \A i \in DOMAIN g : \/ i \in DOMAIN s /\ g[i] = s[i]
                             \/ i - n \in DOMAIN f /\ g[i] = f[i - n] /\ i > n
      /\ \A i \in DOMAIN s : i \in DOMAIN g /\ g[i] = s[i] /\ i <= n
      /\ \A i \in DOMAIN f : i + n \in DOMAIN g /\ g[i + n] = f[i]
      /\ DOMAIN s \subseteq Nat /\ DOMAIN f \subseteq Nat \ {0} /\ n \in Nat
  BY MoreLines
<1>4. DOMAIN g \subseteq Nat
  <2>1. g \in Seq(Lines)
    BY MoreLines
  <2> HIDE DEF g
  <2> QED BY <2>1
<1> HIDE DEF g, n
<1>1. ASSUME Denied(f) PROVE Denied(g)
  <2>1. PICK j \in DOMAIN f : Denies(f[j]) /\ \A i \in DOMAIN f : i > j => f[i].value # "Connected"
    BY <1>1 DEF Denied
  <2>2. j + n \in DOMAIN g /\ Denies(g[j + n]) /\ j \in Nat /\ n \in Nat
    BY <1>0, <2>1
  <2>3. ASSUME NEW i \in DOMAIN g, i > j + n PROVE g[i].value # "Connected"
    <3>1. i \in Nat /\ ~(i <= n)
      BY <1>4, <2>2, <2>3
    <3>2. i - n \in DOMAIN f /\ g[i] = f[i - n] /\ i - n > j
      BY <1>0, <2>2, <2>3, <3>1
    <3> QED BY <2>1, <3>2
  <2> QED BY <2>2, <2>3 DEF Denied
<1>2. ASSUME Denied(s), Silent(f) PROVE Denied(g)
  <2>1. PICK j \in DOMAIN s : Denies(s[j]) /\ \A i \in DOMAIN s : i > j => s[i].value # "Connected"
    BY <1>2 DEF Denied
  <2>2. \A i \in DOMAIN g : i > j => g[i].value # "Connected"
    BY <1>0, <1>2, <2>1 DEF Silent
  <2> QED BY <1>0, <2>1, <2>2 DEF Denied
<1>3. ASSUME Silent(s), Silent(f) PROVE Silent(g)
  BY <1>0, <1>3 DEF Silent
<1> QED BY <1>1, <1>2, <1>3 DEF g

LEMMA HeardTail ==
  ASSUME NEW s \in Seq(Lines), s # <<>>
  PROVE  /\ Silent(s) => Silent(Tail(s)) /\ Head(s).value # "Connected"
         /\ Denied(s) => Denied(Tail(s)) \/ (Denies(Head(s)) /\ Silent(Tail(s)))
<1> DEFINE t == Tail(s)
<1>0. /\ Head(s) = s[1] /\ 1 \in DOMAIN s
      /\ \A i \in DOMAIN t : i + 1 \in DOMAIN s /\ t[i] = s[i + 1] /\ i \in Nat \ {0}
      /\ \A i \in DOMAIN s : i = 1 \/ (i - 1 \in DOMAIN t /\ t[i - 1] = s[i])
  BY LineTaken
<1>3. DOMAIN s \subseteq Nat
  OBVIOUS
<1> HIDE DEF t
<1>1. Silent(s) => Silent(t) /\ Head(s).value # "Connected"
  BY <1>0 DEF Silent
<1>2. ASSUME Denied(s) PROVE Denied(t) \/ (Denies(Head(s)) /\ Silent(t))
  <2>1. PICK j \in DOMAIN s : Denies(s[j]) /\ \A i \in DOMAIN s : i > j => s[i].value # "Connected"
    BY <1>2 DEF Denied
  <2>2. CASE j = 1
    <3>1. \A i \in DOMAIN t : i + 1 \in DOMAIN s /\ i + 1 > 1 /\ t[i] = s[i + 1]
      BY <1>0
    <3> QED BY <1>0, <2>1, <2>2, <3>1 DEF Silent
  <2>3. CASE j # 1
    <3>1. j - 1 \in DOMAIN t /\ Denies(t[j - 1]) /\ j \in Nat
      BY <1>0, <1>3, <2>1, <2>3
    <3>2. ASSUME NEW i \in DOMAIN t, i > j - 1 PROVE t[i].value # "Connected"
      <4>1. i + 1 \in DOMAIN s /\ t[i] = s[i + 1] /\ i + 1 > j
        BY <1>0, <3>1, <3>2
      <4> QED BY <2>1, <4>1
    <3> QED BY <3>1, <3>2 DEF Denied
  <2> QED BY <2>2, <2>3
<1> QED BY <1>1, <1>2 DEF t

LEMMA HeardFrames ==
  ASSUME TuiTypes, NEW f \in Seq(Lines), Honest(f), sock' = sock \o f,
         phase \notin Live => Denied(sock) \/ NoClaim, phase' \notin Live,
         UNCHANGED appVars, UNCHANGED <<boot, msgs>>
  PROVE  Denied(sock') \/ NoClaim'
<1>1. sock \in Seq(Lines)
  BY DEF TuiTypes
<1>2. CASE Denied(f)
  BY <1>1, <1>2, HeardMore
<1>3. CASE phase \notin Live /\ Silent(f)
  BY <1>1, <1>3, HeardMore DEF NoClaim, appVars
<1> QED BY <1>2, <1>3 DEF Honest

LEMMA NoClaimMessage ==
  ASSUME TuiTypes, Booting, NoClaim, Message
  PROVE  NoClaim'
<1> PICK m \in msgs :
      \/ OnDaemonConnected(m) \/ OnSessionExpired(m) \/ OnLoginResult(m)
      \/ OnServersLoaded(m) \/ OnConnectError(m) \/ OnDisconnected(m)
      \/ OnStatus(m) \/ OnStats(m) \/ OnLogout(m)
  BY DEF Message
<1>1. msgs' = msgs \ {m} /\ UNCHANGED sock
  BY DEF OnDaemonConnected, OnSessionExpired, OnLoginResult, OnServersLoaded, OnConnectError,
     OnDisconnected, OnStatus, OnStats, OnLogout, TakeMsg, ipcVars, idleIpc
<1>2. CASE OnDaemonConnected(m)
  <2>1. m.value # "Connected" /\ UNCHANGED shown /\ boot' = "done"
    BY <1>2 DEF OnDaemonConnected, NoClaim
  <2> QED BY <1>1, <2>1 DEF NoClaim
<1>3. CASE OnStatus(m)
  <2>1. m.value # "Connected" /\ shown' = ShownOf(m.value) /\ UNCHANGED <<view, boot>>
    BY <1>3 DEF OnStatus, NoClaim, Config
  <2>2. shown' # "connected"
    BY <2>1 DEF ShownOf, NoClaim
  <2> QED BY <1>1, <2>1, <2>2 DEF NoClaim
<1>4. CASE OnConnectError(m) \/ OnDisconnected(m)
  BY <1>1, <1>4 DEF OnConnectError, OnDisconnected, Settled, Config, NoClaim
<1>5. CASE OnSessionExpired(m) \/ OnServersLoaded(m) \/ OnStats(m) \/ OnLogout(m)
  <2>1. UNCHANGED <<shown, boot>> /\ (view' = "loading" => view = "loading")
    BY <1>5 DEF OnSessionExpired, OnServersLoaded, OnStats, OnLogout, appVars, Settled, Config
  <2> QED BY <1>1, <2>1 DEF NoClaim
<1>6. CASE OnLoginResult(m)
  <2>1. UNCHANGED <<shown, boot>> /\ (view' = "loading" => view = "loading")
    BY <1>6 DEF OnLoginResult, appVars, Settled, Config
  <2> QED BY <1>1, <2>1 DEF NoClaim
<1> QED BY <1>2, <1>3, <1>4, <1>5, <1>6

LEMMA NoClaimKey ==
  ASSUME TuiTypes, Booting, NoClaim, Key
  PROVE  NoClaim'
<1>1. UNCHANGED sock
  BY KeySocket DEF idle, idleIpc
<1>2. shown' \in {shown, "connecting", "disconnecting"} /\ UNCHANGED boot
  BY DEF Key, StatusTab, ServersTab, SettingsTab, ConnectKey, FilterKey, DisconnectKey, ToggleKey,
     SaveKey, LogoutKey, LoginKey, Quiescent, appVars
<1>3. view' = "loading" => view = "loading"
  BY DEF Key, StatusTab, ServersTab, SettingsTab, ConnectKey, FilterKey, DisconnectKey, ToggleKey,
     SaveKey, LogoutKey, LoginKey, appVars
<1>4. \A m \in msgs' : m \in msgs \/ m.name = "disconnected"
  BY DEF Key, StatusTab, ServersTab, SettingsTab, ConnectKey, FilterKey, DisconnectKey, ToggleKey,
     SaveKey, LogoutKey, LoginKey, Msg
<1> QED BY <1>1, <1>2, <1>3, <1>4 DEF NoClaim

LEMMA HeardStep ==
  ASSUME TuiTypes, Talk, Booting, Heard, [TNext]_tvars
  PROVE  Heard'
<1> SUFFICES ASSUME link' = "up", ~misled', phase' \notin Live
             PROVE  Denied(sock') \/ NoClaim'
  <2>1. Denied(sock)' <=> Denied(sock')
    BY DEF Denied, Denies
  <2> QED BY <2>1 DEF Heard
<1>0. sock \in Seq(Lines) /\ link = "up" /\ ~misled
  BY NeverBack DEF TuiTypes
<1>1. phase \notin Live => Denied(sock) \/ NoClaim
  BY <1>0 DEF Heard
<1>2. CASE Boot \/ BootServers \/ SendCommand \/ Tick_
  <2>1. /\ UNCHANGED <<sock, msgs>> /\ UNCHANGED appVars /\ UNCHANGED daemonVars
        /\ boot' \in {boot, "asked"}
    BY <1>2 DEF Boot, BootServers, SendCommand, Tick_, Send, Settled, Config, idleIpc
  <2>2. UNCHANGED phase
    BY <2>1 DEF daemonVars
  <2> QED BY <1>1, <2>1, <2>2 DEF NoClaim, appVars
<1>3. CASE ReceiveReply
  <2> DEFINE f == Head(sock)
  <2>0. sock # <<>> /\ Responds(f) /\ sock' = Tail(sock)
    BY <1>3 DEF ReceiveReply, Receive
  <2>1. f \in Lines /\ f = sock[1] /\ 1 \in DOMAIN sock /\ ~Denies(f)
    BY <1>0, <2>0, LineTaken DEF Denies, Responds
  <2>2. f.kind = doing /\ f.kind \in Kind
    BY <2>0, <2>1 DEF Talk, RepliesMatch, Responses, Lines
  <2>3. /\ msgs' = msgs \cup Result(f.kind, f.value) /\ UNCHANGED appVars /\ UNCHANGED daemonVars
        /\ boot' = IF f.kind = "bootStatus" THEN f.value ELSE boot
    BY <1>3 DEF ReceiveReply, Finish
  <2>4. UNCHANGED phase /\ UNCHANGED <<view, shown>>
    BY <2>3 DEF daemonVars, appVars
  <2>5. Denied(sock) => Denied(sock')
    BY <1>0, <2>0, <2>1, HeardTail
  <2>6. NoClaim => NoClaim'
    <3> SUFFICES ASSUME NoClaim PROVE NoClaim'
      OBVIOUS
    <3>1. Silent(sock') /\ f.value # "Connected"
      BY <1>0, <2>0, HeardTail DEF NoClaim
    <3>2. doing \in BootKinds => view = "loading"
      BY DEF Booting, Begun
    <3> HIDE DEF f
    <3>3. \A m \in Result(f.kind, f.value) :
             m.name \in {"status", "daemonConnected"} => m.value # "Connected"
      BY <2>2, <3>1, <3>2, Results DEF NoClaim, BootKinds
    <3> QED BY <2>3, <2>4, <3>1, <3>3 DEF NoClaim
  <2> QED BY <1>1, <2>4, <2>5, <2>6
<1>4. CASE CommandFails
  BY <1>0, <1>4 DEF CommandFails, SendFails, Eof
<1>5. CASE Message \/ Key
  <2>1. UNCHANGED sock
    BY <1>5, MessageSocket, KeySocket DEF idle, idleIpc
  <2>2. UNCHANGED phase
    <3>1. CASE Message
      BY <3>1 DEF Message, OnDaemonConnected, OnSessionExpired, OnLoginResult, OnServersLoaded,
         OnConnectError, OnDisconnected, OnStatus, OnStats, OnLogout, Settled, Config, settings, saves, daemonVars
    <3>2. CASE Key
      BY <3>2 DEF Key, StatusTab, ServersTab, SettingsTab, ConnectKey, FilterKey, DisconnectKey,
         ToggleKey, SaveKey, LogoutKey, LoginKey, Quiescent, daemonVars
    <3> QED BY <1>5, <3>1, <3>2
  <2> QED BY <1>1, <1>5, <2>1, <2>2, NoClaimMessage, NoClaimKey
<1>6. CASE DaemonEvent
  <2> DEFINE e == Head(sock)
  <2>0. sock # <<>> /\ ~Responds(e) /\ sock' = Tail(sock) /\ UNCHANGED <<boot, msgs>>
        /\ UNCHANGED daemonVars
    BY <1>6 DEF DaemonEvent, Pop
  <2>1. e.value \in Told /\ UNCHANGED phase
    BY <1>0, <2>0, LineTaken DEF Lines, daemonVars
  <2>2. handler /\ \A m \in msgs : m.name # "status"
    BY <1>6 DEF DaemonEvent
  <2>3. view # "loading" /\ \A m \in msgs : m.name # "daemonConnected"
    BY <2>2 DEF Booting, Beginning, Begun, BootNames
  <2>4. CASE e.value # "Connected" /\ Silent(sock')
    <3>1. shown' # "connected" /\ view' \in {view, "status", "servers"}
      BY <1>6, <2>1, <2>2, <2>4 DEF DaemonEvent, Told
    <3> QED BY <2>0, <2>2, <2>3, <2>4, <3>1 DEF NoClaim
  <2>5. CASE Denied(sock')
    BY <2>5
  <2>6. Denied(sock') \/ (e.value # "Connected" /\ Silent(sock'))
    BY <1>0, <1>1, <2>0, <2>1, HeardTail DEF NoClaim, Denies
  <2> QED BY <2>4, <2>5, <2>6
<1>7. CASE Reply
  BY <1>1, <1>7, ReplyFrames, DaemonAside, HeardFrames DEF Answer
<1>8. CASE Moves
  BY <1>1, <1>8, MoveFrames, DaemonAside, HeardFrames DEF Push
<1>9. CASE OtherClient
  <2>1. CASE UNCHANGED <<ipcVars, phase>>
    BY <1>1, <1>9, <2>1, DaemonAside DEF NoClaim, appVars, ipcVars
  <2>2. CASE \E f \in Seq(Lines) : Push(f) /\ Events(f) /\ Honest(f) /\ link = "up"
    BY <1>1, <1>9, <2>2, DaemonAside, HeardFrames DEF Push
  <2> QED BY <1>9, <2>1, <2>2, OtherFrames
<1>10. CASE DaemonDies
  BY <1>10 DEF DaemonDies, Lose
<1>11. CASE ConnectSaved \/ UNCHANGED tvars
  <2>1. UNCHANGED <<sock, phase, boot, msgs, view, shown>>
    BY <1>11 DEF ConnectSaved, tvars, ipcVars, appVars, daemonVars
  <2> QED BY <1>1, <2>1 DEF NoClaim
<1>12. CASE LateLoop
  <2>1. PICK f \in Seq(Lines) : Push(f) /\ Honest(f)
    BY <1>12, LateFrames
  <2>2. sock' = sock \o f
    BY <1>0, <2>1 DEF Push
  <2>3. UNCHANGED phase /\ UNCHANGED appVars /\ UNCHANGED <<boot, msgs>>
    BY <1>12, DaemonAside DEF LateLoop
  <2> QED BY <1>1, <2>1, <2>2, <2>3, HeardFrames
<1> QED BY <1>2, <1>3, <1>4, <1>5, <1>6, <1>7, <1>8, <1>9, <1>10, <1>11, <1>12 DEF TNext, Moves

-----------------------------------------------------------------------------
(* Saved settings are on their way to the daemon until it has read them; and *)
(* what was saved is what the daemon saves, or nothing is about to.          *)

Saved == link = "up" /\ dcfg # file => "settings" \in waiting \/ req = "settings"

Kept == ~overlapped => file = saved /\ (saving => dcfg = file)

LEMMA SavedInit == TInit => Saved /\ Kept
  BY DEF TInit, Saved, Kept

\* Only "s", which tells the daemon, and the daemon itself write the file.
LEMMA FileStep ==
  ASSUME TuiTypes, [TNext]_tvars, ~SaveKey
  PROVE  UNCHANGED <<saved, overlapped>> /\ (~ConnectSaved => UNCHANGED file)
<1> USE DEF settings, saves
<1>1. CASE Message
  BY <1>1 DEF Message, OnDaemonConnected, OnSessionExpired, OnLoginResult, OnServersLoaded,
     OnConnectError, OnDisconnected, OnStatus, OnStats, OnLogout, Settled, Config
<1>2. CASE Key
  BY <1>2 DEF Key, StatusTab, ServersTab, SettingsTab, ConnectKey, FilterKey, DisconnectKey,
     ToggleKey, LogoutKey, LoginKey
<1>3. CASE Boot \/ BootServers \/ SendCommand \/ ReceiveReply \/ CommandFails \/ Tick_
  BY <1>3 DEF Boot, BootServers, SendCommand, ReceiveReply, CommandFails, Finish, Tick_,
     Settled, Config
<1>4. CASE DaemonEvent
  BY <1>4 DEF DaemonEvent
<1>5. CASE Reply \/ Moves \/ OtherClient \/ DaemonDies \/ ConnectSaved \/ LateLoop
         \/ UNCHANGED tvars
  BY <1>5, DaemonAside
<1> QED BY <1>1, <1>2, <1>3, <1>4, <1>5 DEF TNext, Moves

\* The daemon's config is the file's or what it was, and is read before it
\* is saved.
LEMMA ConfigStep ==
  ASSUME TuiTypes, [TNext]_tvars, ~SaveKey
  PROVE  /\ UNCHANGED dcfg \/ dcfg' = file'
         /\ saving' => saving \/ dcfg' = file'
         /\ ConnectSaved => dcfg' = file' /\ ~saving'
<1>0. ~ConnectSaved => UNCHANGED file
  BY FileStep
<1>1. CASE Message
  <2>1. UNCHANGED daemonVars /\ UNCHANGED file
    BY <1>1 DEF Message, OnDaemonConnected, OnSessionExpired, OnLoginResult, OnServersLoaded,
       OnConnectError, OnDisconnected, OnStatus, OnStats, OnLogout, Settled, Config, settings
  <2> QED BY <2>1 DEF daemonVars, ConnectSaved
<1>2. CASE Key
  <2>1. UNCHANGED daemonVars
    BY <1>2 DEF Key, StatusTab, ServersTab, SettingsTab, ConnectKey, FilterKey, DisconnectKey,
       ToggleKey, LogoutKey, LoginKey, Quiescent
  <2> QED BY <2>1 DEF daemonVars, ConnectSaved
<1>3. CASE Boot \/ BootServers \/ SendCommand \/ ReceiveReply \/ CommandFails \/ Tick_
  <2>1. UNCHANGED daemonVars
    BY <1>3 DEF Boot, BootServers, SendCommand, ReceiveReply, CommandFails, Finish, Tick_,
       Settled, Config
  <2> QED BY <2>1 DEF daemonVars, ConnectSaved
<1>4. CASE DaemonEvent
  BY <1>4 DEF DaemonEvent, daemonVars, ConnectSaved
<1>5. CASE Reply
  <2>1. UNCHANGED <<ui, saving>> /\ dcfg' \in {dcfg, file}
    BY <1>5 DEF Reply, ReplyStatus, ReplyServers, ReplyConnect, ReplyDisconnect, ReplyLogin,
       ReplyLogout, ReplySettings, daemonVars
  <2> QED BY <2>1 DEF ui, settings, ConnectSaved
<1>6. CASE Moves
  <2>1. UNCHANGED ui /\ dcfg' \in {dcfg, file} /\ (UNCHANGED saving \/ (saving' /\ dcfg' = file))
    BY <1>6 DEF Moves, ConnectStart, ConnectSteps, ConnectPublished, TunnelFails, Reconnected
  <2>2. ConnectSaved => ~saving' /\ saving
    BY DEF ConnectSaved
  <2> QED BY <2>1, <2>2 DEF ui, settings
<1>7. CASE OtherClient \/ DaemonDies \/ LateLoop \/ UNCHANGED tvars
  <2>1. UNCHANGED dcfg /\ (saving' => saving)
    BY <1>7 DEF OtherClient, DaemonDies, LateLoop, tvars, daemonVars
  <2> QED BY <2>1 DEF ConnectSaved
<1>8. CASE ConnectSaved
  BY <1>8 DEF ConnectSaved
<1> QED BY <1>1, <1>2, <1>3, <1>4, <1>5, <1>6, <1>7, <1>8 DEF TNext, Moves

\* A setting saved while the daemon is not between its reading and its
\* writing stays in the file.
LEMMA KeptStep ==
  ASSUME TuiTypes, Kept, [TNext]_tvars
  PROVE  Kept'
<1>1. CASE SaveKey
  BY <1>1 DEF SaveKey, Kept, Quiescent, daemonVars
<1>2. CASE ~SaveKey
  <2>1. UNCHANGED <<saved, overlapped>>
    BY <1>2, FileStep
  <2>2. CASE ConnectSaved
    BY <2>1, <2>2 DEF ConnectSaved, Kept
  <2>3. CASE ~ConnectSaved
    <3>1. UNCHANGED file
      BY <1>2, <2>3, FileStep
    <3> QED BY <1>2, <2>1, <3>1, ConfigStep DEF Kept
  <2> QED BY <2>2, <2>3
<1> QED BY <1>1, <1>2

\* The request to read the file again is lost only with the socket.
LEMMA SavedStep ==
  ASSUME TuiTypes, Talk, Saved, [TNext]_tvars
  PROVE  Saved'
<1> SUFFICES ASSUME link' = "up", dcfg' # file'
             PROVE  "settings" \in waiting' \/ req' = "settings"
  BY DEF Saved
<1>1. link = "up"
  BY NeverBack
<1>2. CASE SaveKey
  BY <1>2 DEF SaveKey, Submit
<1>3. CASE ~SaveKey
  <2>1. "settings" \in waiting \/ req = "settings"
    <3>1. ~ConnectSaved /\ UNCHANGED file
      BY <1>3, FileStep, ConfigStep
    <3> QED BY <1>1, <1>3, <3>1, ConfigStep DEF Saved
  <2>2. Socket
    BY SocketStep
  <2>3. CASE idle \/ Receive \/ Eof \/ \E f \in Seq(Lines) : Push(f) /\ Events(f)
    BY <2>1, <2>3 DEF idle, idleIpc, Submit, Receive, Eof, Push
  <2>4. CASE Pop /\ \E kinds \in SUBSET {"status"} : Submit(kinds)
    BY <2>1, <2>4 DEF Pop, Submit
  <2>5. CASE \E k \in waiting : Send(k) \/ SendFails(k)
    <3>1. PICK k \in waiting : Send(k)
      BY <1>1, <2>5 DEF SendFails
    <3>2. doing = "none" /\ waiting' = waiting \ {k} /\ req' = k
      BY <3>1 DEF Send
    <3>3. req = "none"
      BY <3>2 DEF Talk
    <3> QED BY <2>1, <3>2, <3>3
  <2>6. CASE \E f \in Seq(Lines) : Answer(f) /\ Batch(f)
    <3>1. UNCHANGED waiting /\ req # "none" /\ req' = "none"
      BY <2>6 DEF Answer
    <3>2. Reply
      <4>1. CASE Message \/ Key
        <5>1. idle
          BY <4>1, MessageSocket, KeySocket
        <5> QED BY <3>1, <5>1 DEF idle, idleIpc
      <4>2. CASE Boot \/ BootServers \/ SendCommand \/ ReceiveReply \/ CommandFails \/ Tick_
        BY <1>1, <3>1, <4>2 DEF Boot, BootServers, SendCommand, ReceiveReply, CommandFails, Tick_,
           Send, SendFails, Receive, Eof, idleIpc
      <4>3. CASE DaemonEvent
        BY <3>1, <4>3 DEF DaemonEvent, Pop
      <4>4. CASE Moves
        BY <3>1, <4>4, MoveFrames DEF Push
      <4>5. CASE OtherClient
        BY <3>1, <4>5, OtherFrames DEF Push, ipcVars
      <4>6. CASE DaemonDies \/ ConnectSaved \/ UNCHANGED tvars
        BY <1>1, <3>1, <4>6 DEF DaemonDies, Lose, ConnectSaved, tvars, ipcVars
      <4>7. CASE LateLoop
        BY <3>1, <4>7, LateFrames DEF Push
      <4> QED BY <4>1, <4>2, <4>3, <4>4, <4>5, <4>6, <4>7 DEF TNext, Moves
    <3>3. req # "settings"
      <4>1. ~ReplySettings
        BY <1>3, FileStep, ConfigStep DEF ReplySettings, ui, settings
      <4> QED BY <3>2, <4>1 DEF Reply, ReplyStatus, ReplyServers, ReplyConnect, ReplyDisconnect,
                 ReplyLogin, ReplyLogout, Polls
    <3> QED BY <2>1, <3>1, <3>3
  <2>7. CASE Lose
    BY <2>7 DEF Lose
  <2> QED BY <2>2, <2>3, <2>4, <2>5, <2>6, <2>7 DEF Socket
<1> QED BY <1>2, <1>3

-----------------------------------------------------------------------------
(* The invariant, and what follows from it *)

LEMMA Invariant ==
  TSpec => [](TuiTypes /\ Talk /\ Booting /\ ConnectedViewPolls /\ Heard /\ Saved /\ Kept)
<1> DEFINE Inv == TuiTypes /\ Talk /\ Booting /\ ConnectedViewPolls /\ Heard /\ Saved /\ Kept
<1>1. TInit => Inv
  <2>1. TInit => ConnectedViewPolls
    BY DEF TInit, ConnectedViewPolls
  <2> QED BY <2>1, TypesInit, TalkInit, BootingInit, HeardInit, SavedInit
<1>2. Inv /\ [TNext]_tvars => Inv'
  <2> SUFFICES ASSUME Inv, [TNext]_tvars PROVE Inv'
    OBVIOUS
  <2>1. TuiTypes' /\ Socket
    BY TypesStep
  <2>2. Talk'
    BY <2>1, TalkStep
  <2>3. Booting' /\ ConnectedViewPolls' /\ Heard' /\ Saved' /\ Kept'
    BY BootingStep, PolledStep, HeardStep, SavedStep, KeptStep
  <2> QED BY <2>1, <2>2, <2>3
<1> QED BY <1>1, <1>2, PTL DEF TSpec

\* Every variable of the TUI and of the daemon as it sees it has its type.
THEOREM TuiTyped == TSpec => []TTypeOK
<1>1. TuiTypes => TTypeOK
  BY DEF TuiTypes
<1> QED BY <1>1, Invariant, PTL

\* The command that holds the lock of the socket gets the answer to its own
\* request (Client.Do, readLoop), however commands, events and the daemon's
\* death interleave.
THEOREM OwnAnswer == TSpec => []RepliesMatch
<1>1. Talk => RepliesMatch
  BY DEF Talk
<1> QED BY <1>1, Invariant, PTL

\* A connection the status view shows is polled, or about to be, in every
\* state (StatusModel.UpdateDaemon, TickCmd).
THEOREM ShownIsPolled == TSpec => []ConnectedViewPolls
BY Invariant, PTL

\* A TUI that missed no event and mistook no status does not go on showing a
\* connection the daemon no longer has (App.handleDaemonEvent).
THEOREM NoGhostConnection == TSpec => []InformedNotFalse
<1>1. Heard => InformedNotFalse
  <2> SUFFICES ASSUME Heard, ~misled, FalselyConnected PROVE FALSE
    BY DEF InformedNotFalse
  <2>1. link = "up" /\ sock = <<>> /\ phase \notin Live /\ shown = "connected"
    BY DEF FalselyConnected, Quiet, Live
  <2>2. ~Denied(sock)
    BY <2>1 DEF Denied
  <2> QED BY <2>1, <2>2 DEF Heard, NoClaim
<1> QED BY <1>1, Invariant, PTL

\* Once nothing is on its way, the daemon runs with the settings that are in
\* the file, and these are the ones last saved with "s", also when the daemon
\* has written the file itself since (doConnect); only a save that fell between
\* the daemon's reading and its writing may have been undone.
THEOREM SavedReachesDaemon == TSpec => []SettingsReachDaemon
<1>1. Talk /\ Saved /\ Kept => SettingsReachDaemon
  BY DEF Talk, Saved, Kept, SettingsReachDaemon, Quiet
<1> QED BY <1>1, Invariant, PTL
=============================================================================
