--------------------------- MODULE ApiClient_proof ---------------------------
(***************************************************************************)
(* Proofs about ApiClient, for any number of callers, retries and troubles *)
(* and whatever a 429 asks for: one rotation for one expiry, no spent      *)
(* refresh token, and no request while the server wants none.              *)
(***************************************************************************)
EXTENDS ApiClient, TLAPS

PCs   == {"idle", "gate", "send", "reply", "lock", "done"} \cup Refreshing
Kinds == {"none", "ok", "other", "401", "429", "net", "tokens", "auth"}

\* Tokens of a session.
Some == [s : 1..Sessions, g : Nat]

\* A goroutine that refreshes has tokens to send, or was given some.
Call == {c \in [pc : PCs, used : Some \cup {NoToken}, refreshed : BOOLEAN, attempt : Nat,
                reply : [kind : Kinds, d : Nat]] :
            c.pc \in Refreshing => c.used \in Some}

Shaped ==
    /\ uid \in 0..Sessions /\ tok \in Some \cup {NoToken}
    /\ store \in [uid : 0..Sessions, tok : Some \cup {NoToken}]
    /\ recent \in BOOLEAN /\ cooldown \in Nat /\ owed \in Nat /\ owed <= cooldown
    /\ call \in [Callers -> Call]
    /\ latest \in [1..Sessions -> Nat]
    /\ dead \in [1..Sessions -> BOOLEAN] /\ expired \in [1..Sessions -> BOOLEAN]
    /\ partial \in [1..Sessions -> BOOLEAN]
    /\ expiries \in Nat /\ rotations \in Nat /\ faults \in Nat
    /\ replayed \in BOOLEAN /\ lost \in BOOLEAN /\ blank \in BOOLEAN

\* By itself the client knows of one session only.
Mine == [s : {1}, g : Nat]

Single ==
    /\ uid = 1 /\ tok \in Mine /\ store \in [uid : {1}, tok : Mine]
    /\ \A k \in Callers : call[k].used \in Mine \cup {NoToken}

Types == Shaped /\ Single

-----------------------------------------------------------------------------
\* A limit prolongs the cooldown at least as much as what is owed.
LEMMA LimitedCovers ==
  ASSUME cooldown \in Nat, owed \in Nat, owed <= cooldown,
         NEW kind, NEW d \in Nat,
         IF kind = "429" THEN Limited(d) ELSE UNCHANGED <<cooldown, owed>>
  PROVE  cooldown' \in Nat /\ owed' \in Nat /\ owed' <= cooldown'
<1>1. CASE kind = "429"
  <2>1. Clamped(d) \in Nat
    BY ApiAssumption DEF Clamped, smaller
  <2> QED BY <1>1, <2>1 DEF Limited, EnterCooldown, larger
<1> QED BY <1>1

\* Every record that is put in the place of a call is one.
LEMMA CallRecords ==
  /\ Idle \in Call /\ [Idle EXCEPT !.pc = "gate"] \in Call
  /\ \A kind \in Kinds, d \in Nat :
        [Idle EXCEPT !.pc = "done", !.reply = Reply(kind, d)] \in Call
  /\ \A n \in Nat, b \in BOOLEAN :
        [Idle EXCEPT !.pc = "gate", !.attempt = n, !.refreshed = b] \in Call
  /\ \A c \in Call :
        /\ \A p \in PCs, t \in Some \cup {NoToken} : (p \in Refreshing => t \in Some)
                 => [c EXCEPT !.pc = p, !.used = t] \in Call
        /\ [c EXCEPT !.pc = "lock", !.refreshed = TRUE, !.reply = Reply("none", 0)] \in Call
        /\ \A p \in PCs : (c.pc \in Refreshing \/ p \notin Refreshing)
                            => [c EXCEPT !.pc = p] \in Call
        /\ \A p \in PCs, kind \in Kinds, d \in Nat :
              (c.pc \in Refreshing \/ p \notin Refreshing)
                 => [c EXCEPT !.pc = p, !.reply = Reply(kind, d)] \in Call
<1>1. Idle \in Call
  BY DEF Call, Idle, PCs, Kinds, Reply, Refreshing
<1>2. ASSUME NEW kind \in Kinds, NEW d \in Nat
      PROVE  [Idle EXCEPT !.pc = "done", !.reply = Reply(kind, d)] \in Call
  BY DEF Call, Idle, Reply, PCs, Refreshing
<1>3. ASSUME NEW n \in Nat, NEW b \in BOOLEAN
      PROVE  [Idle EXCEPT !.pc = "gate", !.attempt = n, !.refreshed = b] \in Call
  BY DEF Call, Idle, Reply, PCs, Kinds, Refreshing
<1>4. [Idle EXCEPT !.pc = "gate"] \in Call
  BY DEF Call, Idle, Reply, PCs, Kinds, Refreshing
<1>5. ASSUME NEW c \in Call, NEW p \in PCs, NEW t \in Some \cup {NoToken},
             p \in Refreshing => t \in Some
      PROVE  [c EXCEPT !.pc = p, !.used = t] \in Call
  BY <1>5 DEF Call
<1>6. ASSUME NEW c \in Call
      PROVE  [c EXCEPT !.pc = "lock", !.refreshed = TRUE, !.reply = Reply("none", 0)] \in Call
  BY DEF Call, Reply, PCs, Kinds, Refreshing
<1>7. ASSUME NEW c \in Call, NEW p \in PCs, c.pc \in Refreshing \/ p \notin Refreshing
      PROVE  [c EXCEPT !.pc = p] \in Call
  BY <1>7 DEF Call
<1>8. ASSUME NEW c \in Call, NEW p \in PCs, NEW kind \in Kinds, NEW d \in Nat,
             c.pc \in Refreshing \/ p \notin Refreshing
      PROVE  [c EXCEPT !.pc = p, !.reply = Reply(kind, d)] \in Call
  BY <1>8 DEF Call, Reply
<1> QED BY <1>1, <1>2, <1>3, <1>4, <1>5, <1>6, <1>7, <1>8

LEMMA Put ==
  ASSUME NEW S, NEW f \in [Callers -> S], NEW k \in Callers, NEW r \in S
  PROVE  [f EXCEPT ![k] = r] \in [Callers -> S]
  OBVIOUS

\* What doRequest does with a call keeps it one.
LEMMA CallTypes ==
  ASSUME call \in [Callers -> Call], NEW k \in Callers
  PROVE  /\ Begin(k) \/ Retry(k) \/ Resting(k) => call' \in [Callers -> Call]
         /\ \A kind \in Kinds, d \in Nat : Done(k, kind, d) => call' \in [Callers -> Call]
         /\ \A kind \in Kinds, d \in Nat :
               call[k].pc \in {"send", "rsend"} /\ Answer(k, kind, d) => call' \in [Callers -> Call]
<1>1. ASSUME Begin(k) \/ Resting(k) PROVE call' \in [Callers -> Call]
  BY <1>1, CallRecords, Put DEF Begin, Resting
<1>2. ASSUME NEW kind \in Kinds, NEW d \in Nat, Done(k, kind, d)
      PROVE  call' \in [Callers -> Call]
  BY <1>2, CallRecords, Put DEF Done
<1>3. ASSUME NEW kind \in Kinds, NEW d \in Nat,
             call[k].pc \in {"send", "rsend"}, Answer(k, kind, d)
      PROVE  call' \in [Callers -> Call]
  <2>1. call[k] \in Call
    OBVIOUS
  <2> DEFINE p == IF call[k].pc = "send" THEN "reply" ELSE "rreply"
  <2>2. p \in PCs /\ (call[k].pc \in Refreshing \/ p \notin Refreshing)
    BY <1>3 DEF PCs, Refreshing
  <2>3. call' = [call EXCEPT ![k] = [call[k] EXCEPT !.pc = p, !.reply = Reply(kind, d)]]
    BY <1>3 DEF Answer
  <2> HIDE DEF p
  <2> QED BY <2>1, <2>2, <2>3, CallRecords, Put
<1>4. ASSUME Retry(k) PROVE call' \in [Callers -> Call]
  <2>1. call[k].attempt + 1 \in Nat /\ call[k].refreshed \in BOOLEAN
    BY DEF Call
  <2>2. CASE call[k].attempt = MaxRetries
    BY <1>2, <1>4, <2>2 DEF Retry, Kinds
  <2>3. CASE call[k].attempt # MaxRetries
    <3> DEFINE r == [Idle EXCEPT !.pc = "gate", !.attempt = call[k].attempt + 1,
                                 !.refreshed = call[k].refreshed]
    <3>1. r \in Call
      BY <2>1, CallRecords
    <3>2. call' = [call EXCEPT ![k] = r]
      BY <1>4, <2>3 DEF Retry
    <3> HIDE DEF r
    <3> QED BY <3>1, <3>2, Put
  <2> QED BY <2>2, <2>3
<1> QED BY <1>1, <1>2, <1>3, <1>4

LEMMA ShapedInit == ApiInit => Shaped
<1> SUFFICES ASSUME ApiInit PROVE Shaped
  OBVIOUS
<1>1. /\ uid \in 0..Sessions /\ tok \in Some
      /\ store \in [uid : 0..Sessions, tok : Some \cup {NoToken}]
  BY ApiAssumption DEF ApiInit, Some
<1>2. /\ cooldown \in Nat /\ owed \in Nat /\ owed <= cooldown
      /\ expiries \in Nat /\ rotations \in Nat /\ faults \in Nat
  BY DEF ApiInit
<1>3. recent \in BOOLEAN /\ replayed \in BOOLEAN /\ lost \in BOOLEAN /\ blank \in BOOLEAN
  BY DEF ApiInit
<1>4. call \in [Callers -> Call]
  BY CallRecords DEF ApiInit
<1>5. latest \in [1..Sessions -> Nat] /\ dead \in [1..Sessions -> BOOLEAN]
  BY DEF ApiInit
<1>6. expired \in [1..Sessions -> BOOLEAN] /\ partial \in [1..Sessions -> BOOLEAN]
  BY DEF ApiInit
<1> QED BY <1>1, <1>2, <1>3, <1>4, <1>5, <1>6 DEF Shaped

-----------------------------------------------------------------------------
(* Every step keeps the types.  Untouched is what a step of a goroutine that *)
(* only changes its call leaves alone.                                       *)

LEMMA ShapedCaller ==
  ASSUME Shaped, NEW k \in Callers, Caller(k)
  PROVE  Shaped'
<1> USE DEF client, server, counted
<1>0. call[k] \in Call /\ call[k].reply.d \in Nat /\ call[k].reply.kind \in Kinds
  BY DEF Shaped, Call
<1>1. CASE Attempt(k)
  <2>1. call' \in [Callers -> Call]
    <3>1. CASE cooldown > 0
      BY <1>1, <3>1, CallTypes DEF Attempt, Shaped, Kinds
    <3>2. CASE ~(cooldown > 0)
      <4>1. call' = [call EXCEPT ![k] = [call[k] EXCEPT !.pc = "send", !.used = tok]]
        BY <1>1, <3>2 DEF Attempt, Shaped
      <4> QED BY <4>1, <1>0, CallRecords, Put DEF Shaped, PCs, Refreshing
    <3> QED BY <3>1, <3>2
  <2>2. UNCHANGED <<client, store, server, owed, expiries, rotations, replayed, lost, faults>>
    BY <1>1 DEF Attempt
  <2>3. blank' \in BOOLEAN
    BY <1>1 DEF Attempt, Shaped
  <2> QED BY <2>1, <2>2, <2>3 DEF Shaped
<1>2. CASE Receive(k)
  <2> DEFINE r == call[k].reply
  <2>1. \/ Retry(k)
        \/ call' = [call EXCEPT ![k] = [@ EXCEPT !.pc = "lock", !.refreshed = TRUE,
                                               !.reply = Reply("none", 0)]]
        \/ Done(k, "auth", 0) \/ Done(k, r.kind, 0)
        \/ Done(k, "429", IF r.d = 0 THEN DefaultCooldown ELSE r.d)
    BY <1>2 DEF Receive
  <2>2. (IF r.d = 0 THEN DefaultCooldown ELSE r.d) \in Nat
    BY <1>0, ApiAssumption
  <2>3. call' \in [Callers -> Call]
    <3>1. CASE Retry(k)
      BY <3>1, CallTypes DEF Shaped
    <3>2. CASE call' = [call EXCEPT ![k] = [@ EXCEPT !.pc = "lock", !.refreshed = TRUE,
                                                   !.reply = Reply("none", 0)]]
      BY <1>0, <3>2, CallRecords, Put DEF Shaped
    <3>3. CASE \E kind \in Kinds, d \in Nat : Done(k, kind, d)
      BY <3>3, CallTypes DEF Shaped
    <3> QED BY <1>0, <2>1, <2>2, <3>1, <3>2, <3>3 DEF Kinds
  <2>4. UNCHANGED <<uid, tok, recent, store, server, counted>>
    BY <1>2 DEF Receive
  <2>5. cooldown' \in Nat /\ owed' \in Nat /\ owed' <= cooldown'
    <3>1. IF r.kind = "429" THEN Limited(r.d) ELSE UNCHANGED <<cooldown, owed>>
      BY <1>2 DEF Receive
    <3> QED BY <1>0, <3>1, LimitedCovers DEF Shaped
  <2> QED BY <2>3, <2>4, <2>5 DEF Shaped
<1>3. CASE Lock(k)
  <2>1. call' \in [Callers -> Call]
    <3>1. CASE Retry(k)
      BY <3>1, CallTypes DEF Shaped
    <3>2. CASE Refresh(k)
      <4>1. CASE Done(k, "other", 0) \/ Done(k, "429", cooldown)
        BY <4>1, CallTypes DEF Shaped, Kinds
      <4>2. CASE /\ tok # NoToken
                 /\ call' = [call EXCEPT ![k] = [@ EXCEPT !.pc = "rsend", !.used = tok]]
        <5>1. tok \in Some
          BY <3>2, <4>2 DEF Refresh, Shaped
        <5> QED BY <4>2, <5>1, <1>0, CallRecords, Put DEF Shaped, PCs, Refreshing
      <4> QED BY <3>2, <4>1, <4>2 DEF Refresh
    <3> QED BY <1>3, <3>1, <3>2 DEF Lock
  <2>2. UNCHANGED <<client, store, server, owed, counted>>
    BY <1>3 DEF Lock
  <2> QED BY <2>1, <2>2 DEF Shaped
<1>4. CASE RefreshReceive(k)
  <2> DEFINE r == call[k].reply
  <2>1. \/ call' = [call EXCEPT ![k].pc = "save"] /\ tok' = call[k].used /\ recent' = TRUE
        \/ /\ \/ Done(k, "auth", 0) \/ Done(k, "other", 0)
              \/ Done(k, "429", IF r.d = 0 THEN DefaultCooldown ELSE r.d)
           /\ UNCHANGED <<tok, recent>>
    BY <1>4 DEF RefreshReceive
  <2>2. (IF r.d = 0 THEN DefaultCooldown ELSE r.d) \in Nat
    BY <1>0, ApiAssumption
  <2>0. call[k].pc \in Refreshing /\ call[k].used \in Some
    BY <1>0, <1>4 DEF RefreshReceive, Refreshing, Call
  <2>3. call' \in [Callers -> Call]
    <3>1. CASE call' = [call EXCEPT ![k].pc = "save"]
      <4>1. [call[k] EXCEPT !.pc = "save"] \in Call
        BY <1>0, <2>0, CallRecords DEF PCs, Refreshing
      <4> QED BY <3>1, <4>1, Put DEF Shaped
    <3>2. CASE \E kind \in Kinds, d \in Nat : Done(k, kind, d)
      BY <3>2, CallTypes DEF Shaped
    <3> QED BY <2>1, <2>2, <3>1, <3>2 DEF Kinds
  <2>4. UNCHANGED <<uid, store, server, counted>>
    BY <1>4 DEF RefreshReceive
  <2>5. cooldown' \in Nat /\ owed' \in Nat /\ owed' <= cooldown'
    <3>1. IF r.kind = "429" THEN Limited(r.d) ELSE UNCHANGED <<cooldown, owed>>
      BY <1>4 DEF RefreshReceive
    <3> QED BY <1>0, <3>1, LimitedCovers DEF Shaped
  <2>6. tok' \in Some \cup {NoToken} /\ recent' \in BOOLEAN
    BY <2>0, <2>1 DEF Shaped
  <2> QED BY <2>3, <2>4, <2>5, <2>6 DEF Shaped
<1>5. CASE Save(k)
  <2>1. call' \in [Callers -> Call]
    BY <1>5, CallTypes DEF Save, Shaped
  <2>2. call[k].used \in Some
    BY <1>0, <1>5 DEF Save, Refreshing, Call
  <2>3. UNCHANGED <<client, server, owed, counted>> /\ store' = [uid |-> uid, tok |-> call[k].used]
    BY <1>5 DEF Save
  <2>4. store' \in [uid : 0..Sessions, tok : Some \cup {NoToken}]
    BY <2>2, <2>3 DEF Shaped
  <2> QED BY <2>1, <2>3, <2>4 DEF Shaped
<1> QED BY <1>1, <1>2, <1>3, <1>4, <1>5 DEF Caller

LEMMA ShapedServer ==
  ASSUME Shaped, NEW k \in Callers, Network(k) \/ Faults(k)
  PROVE  Shaped'
<1> USE DEF client, server, counted
<1>0. /\ call[k] \in Call
      /\ call[k].pc = "rsend" => call[k].used \in Some
  BY ApiAssumption DEF Shaped, Call, Refreshing
<1>1. CASE Serve(k)
  <2>1. call' \in [Callers -> Call]
    BY <1>1, CallTypes DEF Serve, Shaped, Kinds
  <2> QED BY <1>1, <2>1 DEF Serve, Shaped
<1>2. CASE Fault(k)
  <2>1. call' \in [Callers -> Call]
    BY <1>2, CallTypes, ApiAssumption DEF Fault, Shaped, Kinds
  <2> QED BY <1>2, <2>1 DEF Fault, Shaped
<1>3. ASSUME NEW t \in Some, Rotate(t)
      PROVE  /\ latest' \in [1..Sessions -> Nat] /\ expired' \in [1..Sessions -> BOOLEAN]
             /\ rotations' \in Nat
  BY <1>0, <1>3 DEF Rotate, Shaped, Some
<1>4. CASE ServeRefresh(k)
  <2> DEFINE t == call[k].used
             c == [call[k] EXCEPT !.pc = "rreply", !.reply = Reply("tokens", 0),
                                  !.used.g = latest[t.s] + 1]
  <2>1. t \in Some /\ latest[t.s] + 1 \in Nat
    BY <1>0, <1>4 DEF ServeRefresh, Shaped, Some
  <2>2. c \in Call
    BY <1>0, <2>1 DEF Call, Some, Reply, Kinds, PCs, Refreshing
  <2>3. call' = [call EXCEPT ![k] = c] /\ Rotate(t)
    BY <1>4 DEF ServeRefresh, Shaped
  <2>4. UNCHANGED <<client, store, dead, partial, owed, expiries, replayed, lost, blank, faults>>
    BY <1>4 DEF ServeRefresh
  <2>5. call' \in [Callers -> Call]
    <3> HIDE DEF c
    <3> QED BY <2>2, <2>3, Put DEF Shaped
  <2> QED BY <1>3, <2>1, <2>3, <2>4, <2>5 DEF Shaped
<1>5. CASE LoseRefresh(k)
  <2> DEFINE t == call[k].used
  <2>1. t \in Some /\ Rotate(t) /\ Answer(k, "net", 0) /\ call[k].pc = "rsend"
    BY <1>0, <1>5 DEF LoseRefresh
  <2>2. call' \in [Callers -> Call]
    BY <2>1, CallTypes DEF Shaped, Kinds
  <2>3. /\ UNCHANGED <<client, store, dead, partial, owed, expiries, replayed, blank>>
        /\ faults' = faults + 1 /\ lost' = TRUE
    BY <1>5 DEF LoseRefresh
  <2> QED BY <1>3, <2>1, <2>2, <2>3 DEF Shaped
<1>6. CASE RefuseRefresh(k)
  <2> DEFINE t == call[k].used
  <2>1. t \in Some /\ Answer(k, "auth", 0) /\ call[k].pc = "rsend"
    BY <1>0, <1>6 DEF RefuseRefresh
  <2>2. call' \in [Callers -> Call]
    BY <2>1, CallTypes DEF Shaped, Kinds
  <2>3. UNCHANGED <<client, store, latest, expired, partial, owed, expiries, rotations, lost, blank, faults>>
    BY <1>6 DEF RefuseRefresh
  <2>4. \/ replayed' = TRUE /\ dead' \in {dead, [dead EXCEPT ![t.s] = TRUE]}
        \/ UNCHANGED <<replayed, dead>>
    BY <1>6 DEF RefuseRefresh
  <2>5. replayed' \in BOOLEAN /\ dead' \in [1..Sessions -> BOOLEAN]
    BY <1>0, <2>1, <2>4 DEF Shaped, Some
  <2> QED BY <2>2, <2>3, <2>5 DEF Shaped
<1> QED BY <1>1, <1>2, <1>4, <1>5, <1>6 DEF Network, Faults

LEMMA ShapedOther ==
  ASSUME Shaped,
         \/ \E k \in Callers : Start(k) \/ End(k)
         \/ \E s \in 1..Sessions : Expire(s)
         \/ Tick \/ Reload \/ UNCHANGED apivars
  PROVE  Shaped'
<1> USE DEF client, server, counted
<1>1. ASSUME NEW k \in Callers, Start(k) \/ End(k) PROVE Shaped'
  <2>1. call' \in [Callers -> Call]
    BY <1>1, CallTypes DEF Start, End, Shaped
  <2> QED BY <1>1, <2>1 DEF Start, End, Shaped
<1>2. ASSUME NEW s \in 1..Sessions, Expire(s) PROVE Shaped'
  <2>1. expired' \in [1..Sessions -> BOOLEAN]
    BY <1>2 DEF Expire, Shaped
  <2>2. expiries' \in Nat
    BY <1>2 DEF Expire, Shaped
  <2> QED BY <1>2, <2>1, <2>2 DEF Expire, Shaped
<1>3. CASE Tick
  <2>1. cooldown' \in Nat /\ owed' \in Nat /\ owed' <= cooldown'
    BY <1>3 DEF Tick, Pass, Less, Shaped
  <2> QED BY <1>3, <2>1 DEF Tick, Pass, Shaped
<1>4. CASE Reload
  <2>1. call' \in [Callers -> Call]
    BY <1>4, CallRecords DEF Reload
  <2>2. UNCHANGED <<store, server, expiries, rotations, replayed, blank>>
    BY <1>4 DEF Reload
  <2>3. /\ uid' \in 0..Sessions /\ tok' \in Some \cup {NoToken} /\ cooldown' = 0 /\ owed' = 0
        /\ faults' = faults + 1
    BY <1>4 DEF Reload, Shaped
  <2>4. recent' \in BOOLEAN /\ lost' \in BOOLEAN
    BY <1>4 DEF Reload, Shaped
  <2> QED BY <2>1, <2>2, <2>3, <2>4 DEF Shaped
<1>5. CASE UNCHANGED apivars
  BY <1>5 DEF apivars, Shaped
<1> QED BY <1>1, <1>2, <1>3, <1>4, <1>5

LEMMA ShapedStep == Shaped /\ [ApiNext]_apivars => Shaped'
  BY ShapedCaller, ShapedServer, ShapedOther DEF ApiNext

\* Shapes of a call after a step of its goroutine.
LEMMA Shapes ==
  ASSUME Shaped, NEW k \in Callers
  PROVE  /\ Retry(k) => /\ \A j \in Callers : j # k => call'[j] = call[j]
                        /\ call'[k].pc \in {"gate", "done"}
         /\ \A kind, d : Done(k, kind, d) =>
                        /\ \A j \in Callers : j # k => call'[j] = call[j]
                        /\ call'[k].pc = "done"
         /\ \A kind, d : Answer(k, kind, d) =>
                        /\ \A j \in Callers : j # k => call'[j] = call[j]
                        /\ call'[k].pc = IF call[k].pc = "send" THEN "reply" ELSE "rreply"
                        /\ call'[k].reply.kind = kind /\ call'[k].used = call[k].used
<1>1. call \in [Callers -> Call]
  BY DEF Shaped
<1>2. ASSUME NEW kind, NEW d, Done(k, kind, d)
      PROVE  (\A j \in Callers : j # k => call'[j] = call[j]) /\ call'[k].pc = "done"
  BY <1>1, <1>2 DEF Done, Idle
<1>3. ASSUME Retry(k)
      PROVE  (\A j \in Callers : j # k => call'[j] = call[j]) /\ call'[k].pc \in {"gate", "done"}
  BY <1>1, <1>2, <1>3 DEF Retry, Idle
<1>4. ASSUME NEW kind, NEW d, Answer(k, kind, d)
      PROVE  /\ \A j \in Callers : j # k => call'[j] = call[j]
             /\ call'[k].pc = IF call[k].pc = "send" THEN "reply" ELSE "rreply"
             /\ call'[k].reply.kind = kind /\ call'[k].used = call[k].used
  BY <1>1, <1>4 DEF Answer, Call, Reply
<1> QED BY <1>2, <1>3, <1>4

LEMMA SingleInit == ApiInit => Single
  BY DEF ApiInit, Single, Mine, Idle

\* One session stays one: tokens come from the client, the file or the server.
LEMMA SingleCaller ==
  ASSUME Shaped, Single, NEW k \in Callers,
         Start(k) \/ Caller(k) \/ Network(k) \/ Faults(k) \/ End(k)
  PROVE  Single'
<1> USE DEF client, server, counted
<1>0. /\ call \in [Callers -> Call] /\ call[k] \in Call
      /\ call[k].pc \in Refreshing => call[k].used \in Mine
  <2>1. call[k] \in Call /\ call[k].used \in Mine \cup {NoToken}
    BY DEF Shaped, Single
  <2> QED BY <2>1 DEF Shaped, Call, Some, Mine, NoToken
<1>1. ASSUME NEW n \in Mine \cup {NoToken}, call'[k].used = n,
             \A j \in Callers : j # k => call'[j] = call[j]
      PROVE  \A j \in Callers : call'[j].used \in Mine \cup {NoToken}
  BY <1>1 DEF Single
<1>2. ASSUME Retry(k) \/ Begin(k) \/ Resting(k) \/ \E kind, d : Done(k, kind, d)
      PROVE  \A j \in Callers : call'[j].used \in Mine \cup {NoToken}
  <2>1. call'[k].used = NoToken
    <3>1. ASSUME NEW kind, NEW d, Done(k, kind, d) PROVE call'[k].used = NoToken
      BY <1>0, <3>1 DEF Done, Idle
    <3>2. ASSUME Begin(k) \/ Resting(k) PROVE call'[k].used = NoToken
      BY <1>0, <3>2 DEF Begin, Resting, Idle
    <3>3. ASSUME Retry(k) PROVE call'[k].used = NoToken
      BY <1>0, <3>1, <3>3 DEF Retry, Idle
    <3> QED BY <1>2, <3>1, <3>2, <3>3
  <2>2. \A j \in Callers : j # k => call'[j] = call[j]
    BY <1>0, <1>2 DEF Retry, Begin, Resting, Done
  <2> QED BY <1>1, <2>1, <2>2
<1>3. CASE Attempt(k)
  <2>1. CASE cooldown > 0
    BY <1>2, <1>3, <2>1 DEF Attempt, Single
  <2>2. CASE ~(cooldown > 0)
    <3>1. call'[k].used = tok /\ \A j \in Callers : j # k => call'[j] = call[j]
      BY <1>0, <1>3, <2>2 DEF Attempt, Call
    <3> QED BY <1>1, <1>3, <3>1 DEF Attempt, Single
  <2> QED BY <2>1, <2>2
<1>4. CASE Receive(k)
  <2>1. \/ Retry(k) \/ \E kind, d : Done(k, kind, d)
        \/ call' = [call EXCEPT ![k] = [@ EXCEPT !.pc = "lock", !.refreshed = TRUE,
                                               !.reply = Reply("none", 0)]]
    BY <1>4 DEF Receive
  <2>2. CASE call' = [call EXCEPT ![k] = [@ EXCEPT !.pc = "lock", !.refreshed = TRUE,
                                               !.reply = Reply("none", 0)]]
    <3>1. call'[k].used = call[k].used /\ \A j \in Callers : j # k => call'[j] = call[j]
      BY <1>0, <2>2 DEF Call
    <3> QED BY <1>1, <1>4, <3>1 DEF Receive, Single
  <2> QED BY <1>2, <1>4, <2>1, <2>2 DEF Receive, Single
<1>5. CASE Lock(k)
  <2>1. \/ Retry(k) \/ \E kind, d : Done(k, kind, d)
        \/ call' = [call EXCEPT ![k] = [@ EXCEPT !.pc = "rsend", !.used = tok]]
    BY <1>5 DEF Lock, Refresh
  <2>2. CASE call' = [call EXCEPT ![k] = [@ EXCEPT !.pc = "rsend", !.used = tok]]
    <3>1. call'[k].used = tok /\ \A j \in Callers : j # k => call'[j] = call[j]
      BY <1>0, <2>2 DEF Call
    <3> QED BY <1>1, <1>5, <3>1 DEF Lock, Single
  <2> QED BY <1>2, <1>5, <2>1, <2>2 DEF Lock, Single
<1>6. CASE RefreshReceive(k)
  <2>1. call[k].used \in Mine
    BY <1>0, <1>6 DEF RefreshReceive, Refreshing
  <2>2. \/ tok' = call[k].used /\ call' = [call EXCEPT ![k].pc = "save"]
        \/ tok' = tok /\ \E kind, d : Done(k, kind, d)
    BY <1>6 DEF RefreshReceive
  <2>3. CASE tok' = call[k].used /\ call' = [call EXCEPT ![k].pc = "save"]
    <3>1. call'[k].used = call[k].used /\ \A j \in Callers : j # k => call'[j] = call[j]
      BY <1>0, <2>3 DEF Call
    <3> QED BY <1>1, <1>6, <2>1, <2>3, <3>1 DEF RefreshReceive, Single
  <2> QED BY <1>2, <1>6, <2>2, <2>3 DEF RefreshReceive, Single
<1>7. CASE Save(k)
  <2>1. call[k].used \in Mine
    BY <1>0, <1>7 DEF Save, Refreshing
  <2> QED BY <1>2, <1>7, <2>1 DEF Save, Single
<1>8. CASE Serve(k) \/ Fault(k) \/ RefuseRefresh(k) \/ LoseRefresh(k)
  <2>1. \E kind, d : Answer(k, kind, d)
    BY <1>8 DEF Serve, Fault, RefuseRefresh, LoseRefresh
  <2>2. call'[k].used = call[k].used /\ \A j \in Callers : j # k => call'[j] = call[j]
    BY <2>1, Shapes
  <2> QED BY <1>1, <1>8, <2>2 DEF Serve, Fault, RefuseRefresh, LoseRefresh, Single
<1>9. CASE ServeRefresh(k)
  <2>1. call[k].used \in Mine
    BY <1>0, <1>9 DEF ServeRefresh, Refreshing
  <2>2. latest[call[k].used.s] + 1 \in Nat
    BY <2>1, ApiAssumption DEF Shaped, Mine
  <2>3. /\ call'[k].used = [call[k].used EXCEPT !.g = latest[call[k].used.s] + 1]
        /\ \A j \in Callers : j # k => call'[j] = call[j]
    BY <1>0, <1>9 DEF ServeRefresh, Call
  <2>4. call'[k].used \in Mine
    BY <2>1, <2>2, <2>3 DEF Mine
  <2> QED BY <1>1, <1>9, <2>3, <2>4 DEF ServeRefresh, Single
<1>10. CASE Start(k) \/ End(k)
  BY <1>2, <1>10 DEF Start, End, Single
<1> QED BY <1>3, <1>4, <1>5, <1>6, <1>7, <1>8, <1>9, <1>10 DEF Caller, Network, Faults

LEMMA TypesInit == ApiInit => Types
  BY ShapedInit, SingleInit DEF Types

LEMMA TypesStep == Types /\ [ApiNext]_apivars => Types'
<1> SUFFICES ASSUME Types, [ApiNext]_apivars PROVE Single'
  BY ShapedStep DEF Types
<1>1. CASE Tick \/ Reload \/ UNCHANGED apivars \/ \E s \in 1..Sessions : Expire(s)
  BY <1>1 DEF Types, Single, Tick, Reload, Expire, apivars, client, server, Idle
<1> QED BY <1>1, SingleCaller DEF ApiNext, Types

-----------------------------------------------------------------------------
(* Who holds which tokens *)

\* refreshMu admits one goroutine.
Holders == \A j, k \in Callers : call[j].pc \in Refreshing /\ call[k].pc \in Refreshing => j = k

\* Rotated tokens on their way home.
Carries(k) == call[k].pc = "rreply" /\ call[k].reply.kind = "tokens"

\* A goroutine never knows newer tokens than the client, unless it brings them.
Order(k) ==
    /\ call[k].pc \in {"send", "reply", "lock"} => call[k].used \in Mine /\ call[k].used.g <= tok.g
    /\ call[k].pc \in {"rsend", "save"} => call[k].used = tok
    /\ Carries(k) => tok.g <= call[k].used.g /\ call[k].used.g <= latest[1]

\* It goes to refresh only after a 401.
Told(k) == \/ call[k].pc \in {"lock", "rsend"}
           \/ call[k].pc = "reply" /\ call[k].reply.kind = "401"

\* A 401 about the newest tokens says that they have expired.
Justified(k) == Told(k) /\ call[k].used.g = latest[1] /\ ~dead[1] => expired[1]

\* With no tokens lost, the newest are at home or on their way, and so are
\* those of the session file.
Fresh ==
    ~lost =>
        /\ ~replayed /\ ~dead[1]
        /\ \A k \in Callers : Carries(k) => call[k].used.g = latest[1]
        /\ tok.g = latest[1] \/ \E k \in Callers : Carries(k)
        /\ store.tok = tok \/ \E k \in Callers : Carries(k) \/ call[k].pc = "save"

\* An expiry is paid for by one rotation, or is still to be noticed.
Paid == rotations + (IF expired[1] THEN 1 ELSE 0) <= expiries

Tokens ==
    /\ Holders
    /\ \A k \in Callers : Order(k) /\ Justified(k)
    /\ tok.g <= latest[1] /\ store.tok.g <= latest[1]
    /\ Fresh /\ Paid /\ ~blank

LEMMA TokensInit == ApiInit => Tokens
<1> SUFFICES ASSUME ApiInit PROVE Tokens
  OBVIOUS
<1>1. /\ latest[1] = 1 /\ dead[1] = FALSE /\ expired[1] = FALSE
      /\ \A k \in Callers : call[k].pc = "idle"
  BY ApiAssumption DEF ApiInit, Idle
<1>2. Holders /\ \A k \in Callers : Order(k) /\ Justified(k)
  BY <1>1 DEF Holders, Order, Justified, Told, Carries, Refreshing
<1>3. Paid /\ ~blank /\ ~replayed
  BY <1>1 DEF ApiInit, Paid
<1>5. Fresh
  BY <1>1, <1>3 DEF ApiInit, Fresh, Carries
<1>4. tok.g <= latest[1] /\ store.tok.g <= latest[1]
  BY <1>1 DEF ApiInit
<1> QED BY <1>2, <1>3, <1>4, <1>5 DEF Tokens

\* A goroutine that has no tokens in its hands, before and after, and meets
\* nobody's: nothing about the tokens changes.
LEMMA TokensAside ==
  ASSUME Types, Tokens, NEW k \in Callers,
         UNCHANGED <<tok, store, server, rotations, expiries, replayed, lost, blank>>,
         \A j \in Callers : j # k => call'[j] = call[j],
         call'[k].pc \in Refreshing => call[k].pc \in Refreshing \/ MutexFree,
         Order(k)', Justified(k)',
         Carries(k)' <=> Carries(k), Carries(k) => call'[k].used = call[k].used,
         call[k].pc # "save", call'[k].pc # "save"
  PROVE  Tokens'
<1> USE DEF server
<1>1. Holders'
  BY DEF Tokens, Holders, MutexFree
<1>2. \A j \in Callers : Order(j)' /\ Justified(j)'
  BY DEF Tokens, Order, Justified, Told, Carries
<1>3. Fresh' /\ Paid'
  BY DEF Tokens, Fresh, Paid, Carries
<1> QED BY <1>1, <1>2, <1>3 DEF Tokens

LEMMA TokensAttempt ==
  ASSUME Types, Tokens, NEW k \in Callers, Attempt(k)
  PROVE  Tokens'
<1>1. UNCHANGED <<tok, store, server, rotations, expiries, replayed, lost>>
  BY DEF Attempt, client
<1>2. UNCHANGED blank /\ call[k].pc = "gate"
  BY DEF Attempt, Types, Shaped, Single, Mine, NoToken, Tokens
<1>3. /\ \A j \in Callers : j # k => call'[j] = call[j]
      /\ call'[k].pc = "done" \/ (call'[k].pc = "send" /\ call'[k].used = tok)
  <2>1. CASE cooldown > 0
    BY <2>1, Shapes DEF Types, Attempt
  <2>2. CASE ~(cooldown > 0)
    BY <2>2 DEF Attempt, Types, Shaped, Single, Call
  <2> QED BY <2>1, <2>2
<1>4. tok \in Mine /\ tok.g <= tok.g
  BY DEF Types, Shaped, Single, Mine
<1> QED
  BY <1>1, <1>2, <1>3, <1>4, TokensAside DEF Order, Justified, Told, Carries, Refreshing

LEMMA TokensReceive ==
  ASSUME Types, Tokens, NEW k \in Callers, Receive(k)
  PROVE  Tokens'
<1>1. UNCHANGED <<tok, store, server, rotations, expiries, replayed, lost, blank>>
  BY DEF Receive, counted
<1>2. \/ Retry(k) \/ \E kind, d : Done(k, kind, d)
      \/ /\ call[k].reply.kind = "401"
         /\ call' = [call EXCEPT ![k] = [@ EXCEPT !.pc = "lock", !.refreshed = TRUE,
                                                !.reply = Reply("none", 0)]]
  BY DEF Receive
<1>3. /\ \A j \in Callers : j # k => call'[j] = call[j]
      /\ \/ call'[k].pc \in {"gate", "done"}
         \/ call[k].reply.kind = "401" /\ call'[k].pc = "lock" /\ call'[k].used = call[k].used
  <2>1. CASE Retry(k) \/ \E kind, d : Done(k, kind, d)
    BY <2>1, Shapes DEF Types
  <2>2. CASE /\ call[k].reply.kind = "401"
             /\ call' = [call EXCEPT ![k] = [@ EXCEPT !.pc = "lock", !.refreshed = TRUE,
                                                    !.reply = Reply("none", 0)]]
    BY <2>2 DEF Types, Shaped, Single, Call
  <2> QED BY <1>2, <2>1, <2>2
<1>4. call[k].pc = "reply" /\ Order(k) /\ Justified(k)
  BY DEF Receive, Tokens
<1>5. Order(k)' /\ Justified(k)'
  BY <1>1, <1>3, <1>4 DEF Order, Justified, Told, Carries, server
<1> QED
  BY <1>1, <1>3, <1>4, <1>5, TokensAside DEF Carries, Refreshing

LEMMA TokensLock ==
  ASSUME Types, Tokens, NEW k \in Callers, Lock(k)
  PROVE  Tokens'
<1>1. /\ UNCHANGED <<tok, store, server, rotations, expiries, replayed, lost, blank>>
      /\ call[k].pc = "lock" /\ MutexFree
  BY DEF Lock, counted, client
<1>2. call[k].used \in Mine /\ Order(k) /\ Justified(k)
  BY <1>1 DEF Tokens, Order
<1>3. \/ Retry(k) \/ \E kind, d : Done(k, kind, d)
      \/ /\ call' = [call EXCEPT ![k] = [@ EXCEPT !.pc = "rsend", !.used = tok]]
         /\ call[k].used = tok
  BY <1>2 DEF Lock, Refresh, Mine, NoToken
<1>4. /\ \A j \in Callers : j # k => call'[j] = call[j]
      /\ \/ call'[k].pc \in {"gate", "done"}
         \/ call'[k].pc = "rsend" /\ call'[k].used = tok /\ call[k].used = tok
  <2>1. CASE Retry(k) \/ \E kind, d : Done(k, kind, d)
    BY <2>1, Shapes DEF Types
  <2>2. CASE /\ call' = [call EXCEPT ![k] = [@ EXCEPT !.pc = "rsend", !.used = tok]]
             /\ call[k].used = tok
    BY <2>2 DEF Types, Shaped, Single, Call
  <2> QED BY <1>3, <2>1, <2>2
<1>5. Order(k)' /\ Justified(k)'
  BY <1>1, <1>2, <1>4 DEF Order, Justified, Told, Carries, server
<1> QED
  BY <1>1, <1>4, <1>5, TokensAside DEF Carries

\* The holder takes the new tokens home.
LEMMA TokensRefreshReceive ==
  ASSUME Types, Tokens, NEW k \in Callers, RefreshReceive(k)
  PROVE  Tokens'
<1>1. /\ UNCHANGED <<store, server, rotations, expiries, replayed, lost, blank>>
      /\ call[k].pc = "rreply" /\ call[k].used \in Mine
  BY DEF RefreshReceive, counted, Types, Shaped, Single, Call, Refreshing, Some, NoToken, Mine
<1>2. CASE call[k].reply.kind # "tokens"
  <2>1. (\E kind, d : Done(k, kind, d)) /\ UNCHANGED tok
    BY <1>2 DEF RefreshReceive
  <2>2. (\A j \in Callers : j # k => call'[j] = call[j]) /\ call'[k].pc = "done"
    BY <2>1, Shapes DEF Types
  <2> QED BY <1>1, <1>2, <2>1, <2>2, TokensAside DEF Order, Justified, Told, Carries, Refreshing
<1>3. CASE call[k].reply.kind = "tokens"
  <2>1. /\ tok' = call[k].used /\ Carries(k)
        /\ \A j \in Callers : j # k => call'[j] = call[j]
        /\ call'[k].pc = "save" /\ call'[k].used = call[k].used
    BY <1>1, <1>3 DEF RefreshReceive, Carries, Types, Shaped, Single, Call
  <2>2. tok.g <= tok'.g /\ tok'.g <= latest[1]
    BY <2>1 DEF Tokens, Order
  <2>3. \A j \in Callers : j # k => call[j].pc \notin Refreshing
    BY <1>1 DEF Tokens, Holders, Refreshing
  <2>4. \A j \in Callers : Order(j)'
    <3>1. Order(k)'
      BY <2>1 DEF Order, Carries
    <3>2. ASSUME NEW j \in Callers, j # k PROVE Order(j)'
      <4>1. tok.g \in Nat /\ tok'.g \in Nat /\ (call[j].used \in Mine => call[j].used.g \in Nat)
        BY <1>1, <2>1 DEF Types, Shaped, Single, Mine
      <4> QED BY <2>1, <2>2, <2>3, <3>2, <4>1 DEF Tokens, Order, Carries, Refreshing
    <3> QED BY <3>1, <3>2
  <2>5. \A j \in Callers : Justified(j)'
    BY <1>1, <2>1 DEF Tokens, Justified, Told, server
  <2>6. Holders'
    BY <1>1, <2>1, <2>3 DEF Tokens, Holders, Refreshing
  <2>7. Fresh'
    BY <1>1, <2>1, <2>3 DEF Tokens, Fresh, Carries, server, Refreshing
  <2> QED BY <1>1, <2>2, <2>4, <2>5, <2>6, <2>7 DEF Tokens, Paid, server
<1> QED BY <1>2, <1>3

LEMMA TokensSave ==
  ASSUME Types, Tokens, NEW k \in Callers, Save(k)
  PROVE  Tokens'
<1>1. /\ UNCHANGED <<tok, server, rotations, expiries, replayed, lost, blank>>
      /\ store' = [uid |-> uid, tok |-> call[k].used] /\ call[k].pc = "save"
      /\ \A j \in Callers : j # k => call'[j] = call[j]
      /\ call'[k].pc \in {"gate", "done"}
  BY Shapes DEF Types, Save, client, counted
<1>2. store'.tok = tok
  BY <1>1 DEF Tokens, Order
<1>3. Holders' /\ \A j \in Callers : Order(j)' /\ Justified(j)'
  BY <1>1 DEF Tokens, Holders, Order, Justified, Told, Carries, server, Refreshing
<1>4. Fresh'
  BY <1>1, <1>2 DEF Tokens, Fresh, Carries, server
<1> QED BY <1>1, <1>2, <1>3, <1>4 DEF Tokens, Paid, server

\* A 401 is about tokens that have expired or that are not the newest.
LEMMA TokensServe ==
  ASSUME Types, Tokens, NEW k \in Callers, Serve(k)
  PROVE  Tokens'
<1>1. /\ UNCHANGED <<tok, store, server, rotations, expiries, replayed, lost, blank>>
      /\ call[k].pc = "send"
  BY DEF Serve, client, counted
<1>2. /\ \A j \in Callers : j # k => call'[j] = call[j]
      /\ call'[k].pc = "reply" /\ call'[k].used = call[k].used
      /\ call'[k].reply.kind = "401" => ~Current(uid, tok) \/ expired[tok.s]
      /\ ~Carries(k)'
  BY <1>1, Shapes DEF Types, Serve, Carries
<1>3. Order(k)'
  BY <1>1, <1>2 DEF Tokens, Order, Carries
<1>4. Justified(k)'
  <2>1. call[k].used.g <= tok.g /\ tok.g <= latest[1] /\ call[k].used.g \in Nat /\ latest[1] \in Nat
    BY <1>1, ApiAssumption DEF Tokens, Order, Types, Shaped, Single, Mine
  <2>2. Current(uid, tok) <=> ~dead[1] /\ tok.g = latest[1]
    BY DEF Current, Types, Shaped, Single, Mine, NoToken
  <2> QED BY <1>1, <1>2, <2>1, <2>2 DEF Justified, Told, server, Types, Shaped, Single, Mine
<1> QED BY <1>1, <1>2, <1>3, <1>4, TokensAside DEF Carries, Refreshing

LEMMA TokensFault ==
  ASSUME Types, Tokens, NEW k \in Callers, Fault(k)
  PROVE  Tokens'
<1>1. /\ UNCHANGED <<tok, store, server, rotations, expiries, replayed, lost, blank>>
      /\ call[k].pc \in {"send", "rsend"}
  BY DEF Fault, client
<1>2. /\ \A j \in Callers : j # k => call'[j] = call[j]
      /\ call'[k].pc = IF call[k].pc = "send" THEN "reply" ELSE "rreply"
      /\ call'[k].used = call[k].used /\ call'[k].reply.kind \in {"429", "net"}
  BY Shapes DEF Types, Fault
<1>3. Order(k)' /\ Justified(k)'
  BY <1>1, <1>2 DEF Tokens, Order, Justified, Told, Carries
<1> QED BY <1>1, <1>2, <1>3, TokensAside DEF Carries, Refreshing

LEMMA TokensStartEnd ==
  ASSUME Types, Tokens, NEW k \in Callers, Start(k) \/ End(k)
  PROVE  Tokens'
<1>1. /\ UNCHANGED <<tok, store, server, rotations, expiries, replayed, lost, blank>>
      /\ call[k].pc \in {"idle", "done"}
  BY DEF Start, End, client, counted
<1>2. /\ \A j \in Callers : j # k => call'[j] = call[j]
      /\ call'[k].pc \in {"idle", "gate"}
  BY DEF Start, End, Begin, Resting, Idle, Types, Shaped, Single
<1> QED BY <1>1, <1>2, TokensAside DEF Order, Justified, Told, Carries, Refreshing

\* The server rotates the tokens the holder sent: they were the newest and
\* had expired, and nobody else's are.
LEMMA Rotated ==
  ASSUME Types, Tokens, NEW k \in Callers, call[k].pc = "rsend",
         Current(uid, call[k].used), Rotate(call[k].used)
  PROVE  /\ tok.g = latest[1] /\ call[k].used = tok /\ expired[1] /\ ~dead[1]
         /\ latest'[1] = latest[1] + 1 /\ ~expired'[1] /\ rotations' = rotations + 1
         /\ \A j \in Callers : j # k => call[j].pc \notin Refreshing
<1>1. 1 \in 1..Sessions
  BY ApiAssumption
<1>2. call[k].used = tok /\ call[k].used.s = 1
  BY DEF Tokens, Order, Types, Shaped, Single, Mine
<1>3. tok.g = latest[1] /\ ~dead[1]
  BY <1>2 DEF Current
<1>4. expired[1]
  BY <1>2, <1>3 DEF Tokens, Justified, Told
<1>5. latest'[1] = latest[1] + 1 /\ ~expired'[1] /\ rotations' = rotations + 1
  BY <1>1, <1>2 DEF Rotate, Types, Shaped, Single
<1>6. \A j \in Callers : j # k => call[j].pc \notin Refreshing
  BY DEF Tokens, Holders, Refreshing
<1> QED BY <1>2, <1>3, <1>4, <1>5, <1>6

\* What a rotation leaves of the others' knowledge.
LEMMA TokensRotate ==
  ASSUME Types, Tokens, NEW k \in Callers, call[k].pc = "rsend",
         Current(uid, call[k].used), Rotate(call[k].used),
         UNCHANGED <<tok, store, dead, expiries, replayed, blank>>,
         \A j \in Callers : j # k => call'[j] = call[j],
         call'[k].pc = "rreply",
         \/ ~Carries(k)' /\ lost'
         \/ Carries(k)' /\ call'[k].used.g = latest[1] + 1 /\ lost' = lost
  PROVE  Tokens'
<1>1. /\ tok.g = latest[1] /\ expired[1] /\ ~dead[1]
      /\ latest'[1] = latest[1] + 1 /\ ~expired'[1] /\ rotations' = rotations + 1
      /\ \A j \in Callers : j # k => call[j].pc \notin Refreshing
  BY Rotated
<1>2. /\ latest[1] \in Nat /\ store.tok.g \in Nat /\ rotations \in Nat /\ expiries \in Nat
      /\ \A j \in Callers : call[j].used \in Mine => call[j].used.g \in Nat
  BY ApiAssumption DEF Types, Shaped, Single, Mine
<1>3. Holders'
  BY <1>1 DEF Holders, Refreshing
<1>4. \A j \in Callers : Order(j)'
  BY <1>1, <1>2 DEF Tokens, Order, Carries, Refreshing
<1>5. \A j \in Callers : Justified(j)'
  BY <1>1, <1>2 DEF Tokens, Order, Justified, Told, Refreshing
<1>6. Fresh'
  BY <1>1 DEF Tokens, Fresh, Carries, Refreshing
<1>7. Paid'
  BY <1>1, <1>2 DEF Tokens, Paid
<1>8. tok'.g <= latest'[1] /\ store'.tok.g <= latest'[1]
  BY <1>1, <1>2 DEF Tokens
<1> QED BY <1>3, <1>4, <1>5, <1>6, <1>7, <1>8 DEF Tokens

LEMMA TokensServeRefresh ==
  ASSUME Types, Tokens, NEW k \in Callers, ServeRefresh(k) \/ LoseRefresh(k)
  PROVE  Tokens'
<1>1. /\ call[k].pc = "rsend" /\ Current(uid, call[k].used) /\ Rotate(call[k].used)
      /\ UNCHANGED <<tok, store, dead, expiries, replayed, blank>>
  BY DEF ServeRefresh, LoseRefresh, client
<1>2. CASE ServeRefresh(k)
  <2>1. call[k].used \in Mine /\ call[k].used.s = 1 /\ call[k] \in Call
    BY <1>1 DEF Types, Shaped, Single, Call, Refreshing, Some, NoToken, Mine
  <2>2. /\ \A j \in Callers : j # k => call'[j] = call[j]
        /\ call'[k].pc = "rreply" /\ call'[k].reply.kind = "tokens"
        /\ call'[k].used.g = latest[1] + 1
    BY <1>2, <2>1 DEF ServeRefresh, Types, Shaped, Single, Call, Reply, Mine
  <2>3. lost' = lost
    BY <1>2 DEF ServeRefresh
  <2> QED BY <1>1, <2>2, <2>3, TokensRotate DEF Carries
<1>3. CASE LoseRefresh(k)
  <2>1. /\ \A j \in Callers : j # k => call'[j] = call[j]
        /\ call'[k].pc = "rreply" /\ call'[k].reply.kind = "net"
    BY <1>1, <1>3, Shapes DEF Types, LoseRefresh
  <2>2. lost'
    BY <1>3 DEF LoseRefresh
  <2> QED BY <1>1, <2>1, <2>2, TokensRotate DEF Carries
<1> QED BY <1>2, <1>3

\* While nothing is lost a refresh token is never refused.
LEMMA TokensRefuse ==
  ASSUME Types, Tokens, NEW k \in Callers, RefuseRefresh(k)
  PROVE  Tokens'
<1>1. /\ UNCHANGED <<client, store, latest, expired, partial, expiries, rotations, lost, blank>>
      /\ call[k].pc = "rsend" /\ ~Current(uid, call[k].used)
  BY DEF RefuseRefresh
<1>2. /\ \A j \in Callers : j # k => call'[j] = call[j]
      /\ call'[k].pc = "rreply" /\ call'[k].reply.kind = "auth"
      /\ call'[k].used = call[k].used
  BY <1>1, Shapes DEF Types, RefuseRefresh
<1>3. lost
  <2>1. call[k].used = tok /\ tok.s = 1 /\ tok # NoToken /\ uid = 1
    BY <1>1 DEF Tokens, Order, Types, Shaped, Single, Mine, NoToken
  <2>2. dead[1] \/ tok.g # latest[1]
    BY <1>1, <2>1 DEF Current
  <2>3. \A j \in Callers : ~Carries(j)
    BY <1>1 DEF Tokens, Holders, Carries, Refreshing
  <2> QED BY <2>2, <2>3 DEF Tokens, Fresh
<1>4. dead[1] => dead'[1]
  BY ApiAssumption DEF RefuseRefresh, Types, Shaped, Single
<1>5. Holders' /\ \A j \in Callers : Order(j)' /\ Justified(j)'
  BY <1>1, <1>2, <1>4 DEF Tokens, Holders, Order, Justified, Told, Carries, client, Refreshing
<1>6. Fresh' /\ Paid'
  BY <1>1, <1>3 DEF Tokens, Fresh, Paid
<1> QED BY <1>1, <1>5, <1>6 DEF Tokens, client

LEMMA TokensExpire ==
  ASSUME Types, Tokens, NEW s \in 1..Sessions, Expire(s)
  PROVE  Tokens'
<1>1. UNCHANGED <<client, call, store, latest, dead, rotations, replayed, lost, blank>>
  BY DEF Expire
<1>2. expired[1] => expired'[1]
  BY ApiAssumption DEF Expire, Types, Shaped, Single
<1>3. Paid'
  <2>1. rotations \in Nat /\ expiries \in Nat /\ expiries' = expiries + 1 /\ 1 \in 1..Sessions
    BY ApiAssumption DEF Expire, Types, Shaped, Single
  <2>2. expired'[1] => expired[1] \/ s = 1
    BY <2>1 DEF Expire, Types, Shaped, Single
  <2>3. s = 1 => ~expired[1]
    BY DEF Expire
  <2> QED BY <1>1, <2>1 DEF Tokens, Paid
<1>4. \A j \in Callers : Order(j)' /\ Justified(j)'
  BY <1>1, <1>2 DEF Tokens, Order, Justified, Told, Carries, client
<1> QED BY <1>1, <1>3, <1>4 DEF Tokens, Holders, Fresh, Carries, client

\* A restart finds the session file.
LEMMA TokensReload ==
  ASSUME Types, Tokens, Reload
  PROVE  Tokens'
<1>1. /\ UNCHANGED <<store, server, expiries, rotations, replayed, blank>>
      /\ tok' = store.tok /\ \A j \in Callers : call'[j].pc = "idle"
      /\ lost' = (lost \/ (store.tok # NoToken /\ store.tok.g # latest[store.tok.s]))
  BY DEF Reload, Idle
<1>2. store.tok # NoToken /\ store.tok.s = 1
  BY DEF Types, Shaped, Single, Mine, NoToken
<1>3. Holders' /\ \A j \in Callers : Order(j)' /\ Justified(j)'
  BY <1>1 DEF Holders, Order, Justified, Told, Carries, Refreshing
<1>4. Paid'
  BY <1>1 DEF Tokens, Paid, server
<1>5. Fresh'
  <2> SUFFICES ASSUME ~lost' PROVE ~replayed' /\ ~dead'[1] /\ tok'.g = latest'[1] /\ store'.tok = tok'
    BY <1>1 DEF Fresh, Carries
  <2>1. ~lost /\ store.tok.g = latest[1]
    BY <1>1, <1>2
  <2> QED BY <1>1, <2>1 DEF Tokens, Fresh, server
<1>6. tok'.g <= latest'[1] /\ store'.tok.g <= latest'[1]
  BY <1>1 DEF Tokens, server
<1> QED BY <1>1, <1>3, <1>4, <1>5, <1>6 DEF Tokens

LEMMA TokensStep ==
  ASSUME Types, Tokens, [ApiNext]_apivars
  PROVE  Tokens'
<1>1. ASSUME NEW k \in Callers, Start(k) \/ Caller(k) \/ Network(k) \/ Faults(k) \/ End(k)
      PROVE  Tokens'
  BY <1>1, TokensStartEnd, TokensAttempt, TokensReceive, TokensLock, TokensRefreshReceive, TokensSave,
     TokensServe, TokensServeRefresh, TokensRefuse, TokensFault
     DEF Caller, Network, Faults
<1>2. CASE Tick \/ UNCHANGED apivars
  <2>1. UNCHANGED <<tok, call, store, server, expiries, rotations, replayed, lost, blank>>
    BY <1>2 DEF Tick, counted, apivars, server
  <2>2. Holders' /\ \A j \in Callers : Order(j)' /\ Justified(j)'
    BY <2>1 DEF Tokens, Holders, Order, Justified, Told, Carries, server
  <2> QED BY <2>1, <2>2 DEF Tokens, Fresh, Paid, Carries, server
<1> QED BY <1>1, <1>2, TokensExpire, TokensReload DEF ApiNext

-----------------------------------------------------------------------------
LEMMA Invariants == ApiSpec => [](Types /\ Tokens)
  BY TypesInit, TokensInit, TypesStep, TokensStep, PTL DEF ApiSpec

\* However many goroutines meet a 401, in whatever order they come to
\* refreshMu, an expiry costs one rotation (refreshTokens).
THEOREM OneRotationPerExpiry == ApiSpec => []RefreshOncePerExpiry
<1>1. Types /\ Tokens => RefreshOncePerExpiry
  BY DEF Types, Shaped, Single, Tokens, Paid, RefreshOncePerExpiry
<1> QED BY <1>1, Invariants, PTL

\* Through retries, failures and restarts no refresh token is sent a second
\* time, unless its successor was lost (refreshTokens, OnTokenRefresh).
THEOREM NoSpentTokenSent == ApiSpec => []SpentTokenNotReplayed
<1>1. Tokens => SpentTokenNotReplayed
  BY DEF Tokens, Fresh, SpentTokenNotReplayed
<1> QED BY <1>1, Invariants, PTL

\* A call sets out only in doSingleRequest, and a refresh in refreshTokens:
\* both look at the cooldown, and it covers what is owed.
LEMMA SetsOut ==
  ASSUME Shaped, NEW k \in Callers, Start(k) \/ Caller(k) \/ Network(k) \/ Faults(k) \/ End(k)
  PROVE  /\ \A j \in Callers : j # k => call'[j] = call[j]
         /\ \/ call[k].pc = "gate" /\ call'[k].pc = "send"
            \/ call[k].pc = "lock" /\ call'[k].pc = "rsend"
            => owed = 0
<1>0. call \in [Callers -> Call] /\ cooldown \in Nat /\ owed \in Nat /\ owed <= cooldown
  BY DEF Shaped
<1>1. CASE Attempt(k)
  <2>1. CASE cooldown > 0
    BY <1>1, <2>1, Shapes DEF Attempt
  <2>2. CASE ~(cooldown > 0)
    <3>1. \A j \in Callers : j # k => call'[j] = call[j]
      BY <1>0, <1>1, <2>2 DEF Attempt
    <3> QED BY <1>0, <2>2, <3>1
  <2> QED BY <2>1, <2>2
<1>2. CASE Lock(k)
  <2>1. CASE Retry(k) \/ \E kind, d : Done(k, kind, d)
    BY <2>1, Shapes
  <2>2. CASE /\ ~(cooldown > 0)
             /\ call' = [call EXCEPT ![k] = [@ EXCEPT !.pc = "rsend", !.used = tok]]
    <3>1. \A j \in Callers : j # k => call'[j] = call[j]
      BY <1>0, <2>2
    <3> QED BY <1>0, <2>2, <3>1
  <2> QED BY <1>2, <2>1, <2>2 DEF Lock, Refresh
<1>3. CASE Receive(k)
  <2>1. \/ Retry(k) \/ \E kind, d : Done(k, kind, d)
        \/ call' = [call EXCEPT ![k] = [@ EXCEPT !.pc = "lock", !.refreshed = TRUE,
                                               !.reply = Reply("none", 0)]]
    BY <1>3 DEF Receive
  <2>2. \A j \in Callers : j # k => call'[j] = call[j]
    BY <1>0, <2>1, Shapes
  <2> QED BY <1>3, <2>2 DEF Receive
<1>4. CASE RefreshReceive(k)
  <2>1. \/ \E kind, d : Done(k, kind, d)
        \/ call' = [call EXCEPT ![k].pc = "save"]
    BY <1>4 DEF RefreshReceive
  <2>2. \A j \in Callers : j # k => call'[j] = call[j]
    BY <1>0, <2>1, Shapes
  <2> QED BY <1>4, <2>2 DEF RefreshReceive
<1>5. CASE Save(k)
  BY <1>5, Shapes DEF Save
<1>6. CASE Network(k) \/ Faults(k)
  <2>1. call[k].pc \in {"send", "rsend"}
    BY <1>6 DEF Network, Faults, Serve, ServeRefresh, RefuseRefresh, Fault, LoseRefresh
  <2>2. CASE ServeRefresh(k)
    <3>1. \A j \in Callers : j # k => call'[j] = call[j]
      BY <1>0, <2>2 DEF ServeRefresh
    <3> QED BY <2>1, <3>1
  <2>3. CASE \E kind, d : Answer(k, kind, d)
    BY <2>1, <2>3, Shapes
  <2> QED BY <1>6, <2>2, <2>3 DEF Network, Faults, Serve, RefuseRefresh, Fault, LoseRefresh
<1>7. CASE Start(k) \/ End(k)
  BY <1>0, <1>7 DEF Start, End, Begin, Resting
<1> QED BY <1>1, <1>2, <1>3, <1>4, <1>5, <1>6, <1>7 DEF Caller

\* A request sets out only when nothing is owed: the cooldown every caller
\* looks at covers what the server asked of any of them (doSingleRequest).
THEOREM LimitsRespected == ApiSpec => CooldownHonoured
<1>1. ASSUME Types, ApiNext, NEW j \in Callers,
             \/ call[j].pc = "gate" /\ call'[j].pc = "send"
             \/ call[j].pc = "lock" /\ call'[j].pc = "rsend"
      PROVE  owed = 0
  <2>1. CASE \E k \in Callers : Start(k) \/ Caller(k) \/ Network(k) \/ Faults(k) \/ End(k)
    <3>1. PICK k \in Callers : Start(k) \/ Caller(k) \/ Network(k) \/ Faults(k) \/ End(k)
      BY <2>1
    <3>2. j = k
      BY <1>1, <3>1, SetsOut DEF Types
    <3> QED BY <1>1, <3>1, <3>2, SetsOut DEF Types
  <2>2. CASE Tick \/ \E s \in 1..Sessions : Expire(s)
    BY <1>1, <2>2 DEF Tick, Expire
  <2>3. CASE Reload
    BY <1>1, <2>3 DEF Reload, Idle
  <2> QED BY <1>1, <2>1, <2>2, <2>3 DEF ApiNext
<1> DEFINE Gated == \A k \in Callers :
                 /\ call[k].pc = "gate" /\ call'[k].pc = "send" => owed = 0
                 /\ call[k].pc = "lock" /\ call'[k].pc = "rsend" => owed = 0
<1>2. Types /\ [ApiNext]_apivars => [Gated]_apivars
  BY <1>1
<1> QED BY <1>2, Invariants, PTL DEF ApiSpec, CooldownHonoured
=============================================================================
