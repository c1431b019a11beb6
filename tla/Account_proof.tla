---------------------------- MODULE Account_proof ----------------------------
(***************************************************************************)
(* Proofs about Account, for any number of sessions and troubles and       *)
(* whatever a 429 asks for: the session file follows the client, no        *)
(* transient error ends a session, no wait grows beyond its limit.         *)
(***************************************************************************)
EXTENDS Account, ApiClient_proof

Tasks == {"none", "locked", "start", "vpninfo", "servers"}

\* Short enough: never longer than the limit or what the API asked for.
Bounded(w) == w <= InitRetryMax \/ \E d \in RetryAfters : w <= d

Waits ==
    /\ cooldown <= MaxCooldown /\ Bounded(cooldown)
    /\ Bounded(backoff) /\ Bounded(next)
    /\ \A k \in Callers : call[k].reply.kind = "429" => Bounded(call[k].reply.d)

\* A call is under way while initSession waits for it, and a login has nobody in
\* initSession before its session is saved.
Awaited ==
    /\ \A k \in Callers : call[k].pc = "idle" <=> task[k] \in {"none", "locked", "start"}
    /\ login # "none" => task["login"] = "none"

Own ==
    /\ task \in [Callers -> Tasks] /\ from \in [Callers -> 0..Sessions]
    /\ login \in {"none", "asked", "save"} /\ logout \in BOOLEAN /\ crossed \in BOOLEAN
    /\ list \in BOOLEAN /\ cache \in {"none", "fresh", "stale"}
    /\ backoff \in Nat /\ next \in Nat

Typed == Shaped /\ Own /\ Awaited /\ Waits

LEMMA TypedInit == AInit => Typed
<1> SUFFICES ASSUME AInit PROVE Typed
  OBVIOUS
<1>0. 1 \in 1..Sessions /\ 1 \in 0..Sessions
  BY ApiAssumption
<1>1. /\ uid \in 0..Sessions /\ tok \in Some \cup {NoToken}
      /\ store \in [uid : 0..Sessions, tok : Some \cup {NoToken}]
  BY <1>0 DEF AInit, Some
<1>2. call \in [Callers -> Call]
  BY CallRecords DEF AInit
<1>3. latest \in [1..Sessions -> Nat] /\ dead \in [1..Sessions -> BOOLEAN]
  BY DEF AInit
<1>4. expired \in [1..Sessions -> BOOLEAN] /\ partial \in [1..Sessions -> BOOLEAN]
  BY DEF AInit
<1>5. /\ cooldown \in Nat /\ owed \in Nat /\ owed <= cooldown
      /\ expiries \in Nat /\ rotations \in Nat /\ faults \in Nat
  BY DEF AInit
<1>6. recent \in BOOLEAN /\ replayed \in BOOLEAN /\ lost \in BOOLEAN /\ blank \in BOOLEAN
  BY DEF AInit
<1>7. Own
  <2>1. \A k \in Callers : (IF k = "init" THEN "start" ELSE "none") \in Tasks
    BY DEF Tasks
  <2>2. 0 \in 0..Sessions
    BY ApiAssumption
  <2>3. list \in BOOLEAN /\ cache \in {"none", "fresh", "stale"}
    BY DEF AInit
  <2> QED BY <2>1, <2>2, <2>3, AccountAssumption DEF AInit, Own
<1>8. Awaited
  BY AccountAssumption DEF AInit, Awaited, Idle, Initiators
<1>9. Waits
  BY AccountAssumption, ApiAssumption DEF AInit, Waits, Bounded, Idle, Reply
<1> QED BY <1>1, <1>2, <1>3, <1>4, <1>5, <1>6, <1>7, <1>8, <1>9 DEF Typed, Shaped

-----------------------------------------------------------------------------
(* Waiting times *)

\* A cooldown that a 429 leads to is as short as it must be.
LEMMA LimitedBounded ==
  ASSUME Shaped, Waits, NEW d \in Nat, Bounded(d), Limited(d)
  PROVE  cooldown' <= MaxCooldown /\ Bounded(cooldown')
<1>1. Bounded(Clamped(d)) /\ Clamped(d) <= MaxCooldown /\ Clamped(d) \in Nat
  <2>1. Bounded(DefaultCooldown)
    BY AccountAssumption DEF Bounded
  <2> DEFINE e == IF d = 0 THEN DefaultCooldown ELSE d
  <2>2. e \in Nat /\ Bounded(e)
    BY <2>1, ApiAssumption
  <2>3. Clamped(d) = smaller(e, MaxCooldown)
    BY DEF Clamped
  <2> HIDE DEF e
  <2>4. smaller(e, MaxCooldown) <= e /\ smaller(e, MaxCooldown) <= MaxCooldown
        /\ smaller(e, MaxCooldown) \in Nat
    BY <2>2, ApiAssumption DEF smaller
  <2>5. Bounded(smaller(e, MaxCooldown))
    BY <2>2, <2>4, ApiAssumption, AccountAssumption DEF Bounded
  <2> QED BY <2>3, <2>4, <2>5
<1>2. cooldown' \in {cooldown, Clamped(d)}
  BY DEF Limited, EnterCooldown, larger
<1> QED BY <1>1, <1>2 DEF Waits

\* So is the wait before the next attempt.
LEMMA FailedBounded ==
  ASSUME Own, Waits, NEW ra \in Nat, Bounded(ra), Failed(ra)
  PROVE  backoff' \in Nat /\ next' \in Nat /\ Bounded(backoff') /\ Bounded(next')
<1> DEFINE m == larger(InitRetryMin, smaller(2 * backoff, InitRetryMax))
<1>1. m \in Nat /\ m <= InitRetryMax
  BY AccountAssumption DEF Own, larger, smaller
<1>2. backoff' \in {ra, m} /\ next' = backoff'
  BY DEF Failed, larger
<1> HIDE DEF m
<1> QED BY <1>1, <1>2 DEF Bounded

\* What a 429 is reported with: the cooldown, or what it asked for.
LEMMA AskedBounded ==
  ASSUME Waits, NEW d \in Nat, Bounded(d)
  PROVE  Bounded(IF d = 0 THEN DefaultCooldown ELSE d)
  BY AccountAssumption DEF Bounded
-----------------------------------------------------------------------------
(* Types through the steps of the API client *)

LEMMA ApiTyped ==
  ASSUME Typed, NEW k \in Callers, Caller(k) \/ Network(k) \/ Faults(k), UNCHANGED daemon
  PROVE  Typed'
<1>0. /\ call \in [Callers -> Call] /\ call[k].reply.d \in Nat
      /\ Shaped /\ Waits /\ Own /\ Awaited /\ cooldown \in Nat
  BY DEF Typed, Shaped, Call
<1>1. Shaped'
  BY <1>0, ShapedCaller, ShapedServer
<1>2. Own'
  BY <1>0 DEF Own, daemon
<1>3. \A j \in Callers : j # k => call'[j] = call[j]
  BY <1>0, SetsOut
<1>4. ASSUME Caller(k)
      PROVE  /\ call[k].pc # "idle" /\ call'[k].pc # "idle"
             /\ cooldown' <= MaxCooldown /\ Bounded(cooldown')
             /\ call'[k].reply.kind = "429" => Bounded(call'[k].reply.d)
  <2>1. ASSUME NEW kind, NEW d, Done(k, kind, d)
        PROVE  call'[k].pc = "done" /\ call'[k].reply.kind = kind /\ call'[k].reply.d = d
    BY <1>0, <2>1 DEF Done, Idle, Reply
  <2>2. ASSUME Retry(k)
        PROVE  call'[k].pc \in {"gate", "done"} /\ call'[k].reply.kind # "429"
    <3>1. CASE call[k].attempt = MaxRetries
      BY <2>1, <2>2, <3>1 DEF Retry
    <3>2. CASE call[k].attempt # MaxRetries
      <4>1. call'[k] = [Idle EXCEPT !.pc = "gate", !.attempt = call[k].attempt + 1,
                                    !.refreshed = call[k].refreshed]
        BY <1>0, <2>2, <3>2 DEF Retry
      <4> QED BY <4>1 DEF Idle, Reply
    <3> QED BY <3>1, <3>2
  <2>3. CASE Attempt(k)
    <3>1. cooldown' = cooldown /\ call[k].pc = "gate"
      BY <2>3 DEF Attempt, client
    <3>2. CASE cooldown > 0
      BY <1>0, <2>1, <2>3, <3>1, <3>2 DEF Attempt, Waits
    <3>3. CASE ~(cooldown > 0)
      <4>1. call'[k].pc = "send" /\ call'[k].reply = call[k].reply
        BY <1>0, <2>3, <3>3 DEF Attempt, Call
      <4> QED BY <1>0, <3>1, <4>1 DEF Waits
    <3> QED BY <3>2, <3>3
  <2>4. CASE Receive(k)
    <3> DEFINE r == call[k].reply
    <3>1. /\ call[k].pc = "reply"
          /\ IF r.kind = "429" THEN Limited(r.d) ELSE UNCHANGED <<cooldown, owed>>
      BY <2>4 DEF Receive
    <3>2. \/ Retry(k) \/ Done(k, "auth", 0)
          \/ r.kind # "429" /\ Done(k, r.kind, 0)
          \/ r.kind = "429" /\ Done(k, "429", IF r.d = 0 THEN DefaultCooldown ELSE r.d)
          \/ call' = [call EXCEPT ![k] = [@ EXCEPT !.pc = "lock", !.refreshed = TRUE,
                                                 !.reply = Reply("none", 0)]]
      BY <2>4 DEF Receive
    <3>3. r.kind = "429" => Bounded(r.d) /\ Bounded(IF r.d = 0 THEN DefaultCooldown ELSE r.d)
      BY <1>0, AskedBounded DEF Waits
    <3>4. cooldown' <= MaxCooldown /\ Bounded(cooldown')
      BY <1>0, <3>1, <3>3, LimitedBounded DEF Waits
    <3>5. ASSUME call' = [call EXCEPT ![k] = [@ EXCEPT !.pc = "lock", !.refreshed = TRUE,
                                                 !.reply = Reply("none", 0)]]
          PROVE  call'[k].pc = "lock" /\ call'[k].reply.kind = "none"
      BY <1>0, <3>5 DEF Call, Reply
    <3>6. \/ call'[k].pc \in {"gate", "done", "lock"} /\ call'[k].reply.kind # "429"
          \/ /\ r.kind = "429" /\ call'[k].pc = "done"
             /\ call'[k].reply.d = IF r.d = 0 THEN DefaultCooldown ELSE r.d
      BY <2>1, <2>2, <3>2, <3>5
    <3> QED BY <3>1, <3>3, <3>4, <3>6
  <2>5. CASE Lock(k)
    <3>1. cooldown' = cooldown /\ call[k].pc = "lock"
      BY <2>5 DEF Lock, client
    <3>2. CASE Retry(k) \/ Done(k, "other", 0) \/ Done(k, "429", cooldown)
      BY <1>0, <2>1, <2>2, <3>1, <3>2 DEF Waits
    <3>3. CASE call' = [call EXCEPT ![k] = [@ EXCEPT !.pc = "rsend", !.used = tok]]
      <4>1. call'[k].pc = "rsend" /\ call'[k].reply = call[k].reply
        BY <1>0, <3>3 DEF Call
      <4> QED BY <1>0, <3>1, <4>1 DEF Waits
    <3> QED BY <2>5, <3>2, <3>3 DEF Lock, Refresh
  <2>6. CASE RefreshReceive(k)
    <3> DEFINE r == call[k].reply
    <3>1. /\ call[k].pc = "rreply"
          /\ IF r.kind = "429" THEN Limited(r.d) ELSE UNCHANGED <<cooldown, owed>>
      BY <2>6 DEF RefreshReceive
    <3>2. \/ call' = [call EXCEPT ![k].pc = "save"]
          \/ Done(k, "auth", 0) \/ Done(k, "other", 0)
          \/ r.kind = "429" /\ Done(k, "429", IF r.d = 0 THEN DefaultCooldown ELSE r.d)
      BY <2>6 DEF RefreshReceive
    <3>3. r.kind = "429" => Bounded(r.d) /\ Bounded(IF r.d = 0 THEN DefaultCooldown ELSE r.d)
      BY <1>0, AskedBounded DEF Waits
    <3>4. cooldown' <= MaxCooldown /\ Bounded(cooldown')
      BY <1>0, <3>1, <3>3, LimitedBounded DEF Waits
    <3>5. ASSUME call' = [call EXCEPT ![k].pc = "save"]
          PROVE  call'[k].pc = "save" /\ call'[k].reply = call[k].reply
      BY <1>0, <3>5 DEF Call
    <3> QED BY <1>0, <2>1, <3>1, <3>2, <3>3, <3>4, <3>5 DEF Waits
  <2>7. CASE Save(k)
    BY <1>0, <2>2, <2>7 DEF Save, client, Waits
  <2> QED BY <1>4, <2>3, <2>4, <2>5, <2>6, <2>7 DEF Caller
<1>5. ASSUME Network(k) \/ Faults(k)
      PROVE  /\ call[k].pc # "idle" /\ call'[k].pc # "idle" /\ cooldown' = cooldown
             /\ call'[k].reply.kind = "429" => Bounded(call'[k].reply.d)
  <2>1. cooldown' = cooldown /\ call[k].pc # "idle"
    BY <1>5 DEF Network, Faults, Serve, Fault, ServeRefresh, LoseRefresh, RefuseRefresh, client
  <2>2. ASSUME NEW kind, NEW d, Answer(k, kind, d)
        PROVE  call'[k].pc # "idle" /\ call'[k].reply.kind = kind /\ call'[k].reply.d = d
    BY <1>0, <2>2 DEF Answer, Call, Reply
  <2>3. CASE Serve(k) \/ RefuseRefresh(k) \/ LoseRefresh(k)
    <3>1. \E kind : kind # "429" /\ Answer(k, kind, 0)
      BY <2>3 DEF Serve, RefuseRefresh, LoseRefresh
    <3> QED BY <2>1, <2>2, <3>1
  <2>4. CASE Fault(k)
    <3>1. Answer(k, "net", 0) \/ \E d \in RetryAfters : Answer(k, "429", d)
      BY <2>4 DEF Fault
    <3>2. \A d \in RetryAfters : Bounded(d)
      BY ApiAssumption DEF Bounded
    <3> QED BY <2>1, <2>2, <3>1, <3>2
  <2>5. CASE ServeRefresh(k)
    <3>1. call'[k].pc = "rreply" /\ call'[k].reply.kind = "tokens"
      BY <1>0, <2>5 DEF ServeRefresh, Call, Reply
    <3> QED BY <2>1, <3>1
  <2> QED BY <1>5, <2>3, <2>4, <2>5 DEF Network, Faults
<1>6. Awaited'
  BY <1>0, <1>3, <1>4, <1>5 DEF Awaited, daemon
<1>7. Waits'
  BY <1>0, <1>3, <1>4, <1>5 DEF Waits, daemon, Bounded
<1> QED BY <1>1, <1>2, <1>6, <1>7 DEF Typed

-----------------------------------------------------------------------------
(* Types through the daemon's own steps *)

\* How a goroutine's call looks after the daemon began or ended it.
LEMMA CallBegins ==
  ASSUME call \in [Callers -> Call], NEW k \in Callers
  PROVE  /\ Begin(k) => call'[k] = [Idle EXCEPT !.pc = "gate"] /\ call'[k].pc = "gate"
         /\ Resting(k) => call'[k] = Idle /\ call'[k].pc = "idle"
         /\ Begin(k) \/ Resting(k) => /\ call' \in [Callers -> Call]
                                      /\ \A j \in Callers : j # k => call'[j] = call[j]
                                      /\ call'[k].reply = Reply("none", 0)
                                      /\ call'[k].used = NoToken /\ ~call'[k].refreshed
<1>1. ASSUME Begin(k) PROVE call'[k] = [Idle EXCEPT !.pc = "gate"]
  BY <1>1 DEF Begin
<1>2. ASSUME Resting(k) PROVE call'[k] = Idle
  BY <1>2 DEF Resting
<1>3. ASSUME Begin(k) \/ Resting(k)
      PROVE  call' \in [Callers -> Call] /\ \A j \in Callers : j # k => call'[j] = call[j]
  BY <1>3, CallTypes DEF Begin, Resting
<1> QED BY <1>1, <1>2, <1>3 DEF Idle

\* initSession begins, waits for and ends calls of its goroutine.
LEMMA InitTyped ==
  ASSUME Typed, NEW k \in Callers, InitStart(k) \/ InitInfo(k) \/ InitServers(k)
  PROVE  Typed'
<1> USE DEF client, server, counted
<1>0. /\ call \in [Callers -> Call] /\ call[k].reply.d \in Nat
      /\ Shaped /\ Own /\ Awaited /\ Waits /\ 0 \in 0..Sessions
  BY ApiAssumption DEF Typed, Shaped, Call
<1>1. /\ UNCHANGED <<recent, cooldown, store, server, owed, counted, login, logout>>
      /\ \/ uid' = uid /\ tok' = tok
         \/ uid' = 0 /\ tok' = NoToken
      /\ crossed' \in BOOLEAN
  <2>1. CASE InitStart(k) \/ InitServers(k)
    BY <1>0, <2>1 DEF InitStart, InitServers, Own
  <2>2. CASE InitInfo(k)
    BY <1>0, <2>2 DEF InitInfo, SetSession, Own
  <2> QED BY <2>1, <2>2
<1>2. list' \in BOOLEAN /\ cache' \in {"none", "fresh", "stale"}
  BY <1>0 DEF InitStart, InitInfo, InitServers, Own
<1>3. /\ call' \in [Callers -> Call] /\ \A j \in Callers : j # k => call'[j] = call[j]
      /\ UNCHANGED call \/ call'[k].reply.kind # "429"
  BY <1>0, CallBegins DEF InitStart, InitInfo, InitServers, Reply
<1>4. /\ task' \in [Callers -> Tasks] /\ \A j \in Callers : j # k => task'[j] = task[j]
      /\ call'[k].pc = "idle" <=> task'[k] \in {"none", "locked", "start"}
  <2>1. CASE InitStart(k)
    <3>1. \/ task' = [task EXCEPT ![k] = "none"] /\ UNCHANGED call /\ task[k] = "start"
          \/ task' = [task EXCEPT ![k] = "vpninfo"] /\ Begin(k)
      BY <2>1 DEF InitStart, Return
    <3>2. CASE task' = [task EXCEPT ![k] = "none"] /\ UNCHANGED call /\ task[k] = "start"
      BY <1>0, <3>2 DEF Own, Awaited, Tasks
    <3>3. CASE task' = [task EXCEPT ![k] = "vpninfo"] /\ Begin(k)
      BY <1>0, <3>3, CallBegins DEF Own, Awaited, Tasks
    <3> QED BY <3>1, <3>2, <3>3
  <2>2. CASE InitInfo(k) \/ InitServers(k)
    <3>1. \/ task' = [task EXCEPT ![k] = "none"] /\ Resting(k)
          \/ task' = [task EXCEPT ![k] = "servers"] /\ Begin(k)
      BY <2>2 DEF InitInfo, InitServers, Return
    <3> QED BY <1>0, <3>1, CallBegins DEF Own, Awaited, Tasks
  <2> QED BY <2>1, <2>2
<1>10. login # "none" => task'["login"] = "none"
  <2>1. CASE k = "login"
    BY <1>0, <1>4, <2>1 DEF Awaited, InitStart, InitInfo, InitServers
  <2>2. CASE k # "login"
    BY <1>0, <1>4, <2>2, AccountAssumption DEF Awaited, Initiators
  <2> QED BY <2>1, <2>2
<1>5. from' \in [Callers -> 0..Sessions]
  BY <1>0 DEF InitStart, InitInfo, InitServers, Return, Own, Typed, Shaped
<1>6. backoff' \in Nat /\ next' \in Nat /\ Bounded(backoff') /\ Bounded(next')
  <2>1. CASE UNCHANGED <<backoff, next>>
    BY <1>0, <2>1 DEF Own, Waits
  <2>2. CASE Succeeded
    BY <2>2, AccountAssumption DEF Succeeded, Bounded
  <2>3. CASE \E ra \in Nat : Bounded(ra) /\ Failed(ra)
    BY <1>0, <2>3, FailedBounded
  <2> DEFINE ra == IF call[k].reply.kind = "429" THEN call[k].reply.d ELSE 0
  <2>4. ra \in Nat /\ Bounded(ra)
    BY <1>0, AccountAssumption DEF Waits, Bounded
  <2>5. UNCHANGED <<backoff, next>> \/ Succeeded \/ Failed(ra)
    BY DEF InitStart, InitInfo, InitServers
  <2> HIDE DEF ra
  <2> QED BY <2>1, <2>2, <2>3, <2>4, <2>5
<1>7. Shaped'
  BY <1>0, <1>1, <1>3 DEF Shaped
<1>8. Own'
  BY <1>0, <1>1, <1>2, <1>4, <1>5, <1>6 DEF Own
<1>9. Awaited' /\ Waits'
  BY <1>0, <1>1, <1>3, <1>4, <1>6, <1>10 DEF Awaited, Waits, Bounded
<1> QED BY <1>7, <1>8, <1>9 DEF Typed

\* Signing in and out, and the retry on a network event, touch no call.
LEMMA SessionTyped ==
  ASSUME Typed,
         RetryInit \/ InitLocked \/ Login \/ LoginAnswered \/ LoginFails \/ LoginSaves
         \/ Logout \/ LogoutDeletes
  PROVE  Typed'
<1> USE DEF client, server, counted, apivars
<1>0. /\ call \in [Callers -> Call] /\ Shaped /\ Own /\ Awaited /\ Waits
      /\ 0 \in 0..Sessions /\ "init" \in Callers /\ "login" \in Callers
  BY ApiAssumption, AccountAssumption DEF Typed, Shaped, Initiators
<1>1. /\ UNCHANGED <<call, recent, expired, expiries, rotations, replayed, lost, blank, cache,
                     backoff, next, from>>
      /\ login' \in {"none", "asked", "save"} /\ logout' \in BOOLEAN /\ crossed' \in BOOLEAN
      /\ list' \in BOOLEAN
  BY <1>0 DEF RetryInit, InitLocked, Login, LoginAnswered, LoginFails, LoginSaves, Logout,
              LogoutDeletes, SetSession, Own
<1>2. task' \in [Callers -> Tasks] /\ Awaited'
  <2>1. CASE Login \/ LoginAnswered \/ LoginFails \/ Logout \/ LogoutDeletes
    <3>1. /\ UNCHANGED task
          /\ login' # "none" => login # "none" \/ task["login"] = "none"
      BY <2>1 DEF Login, LoginAnswered, LoginFails, Logout, LogoutDeletes
    <3> QED BY <1>0, <1>1, <3>1 DEF Own, Awaited
  <2>2. CASE RetryInit \/ InitLocked
    BY <1>0, <1>1, <2>2 DEF RetryInit, InitLocked, Own, Awaited, Tasks
  <2>3. CASE LoginSaves
    <3>1. task' = [task EXCEPT !["login"] = "start"] /\ login' = "none"
      BY <2>3 DEF LoginSaves
    <3>2. task["login"] = "none"
      BY <1>0, <2>3 DEF Awaited, LoginSaves
    <3> QED BY <1>0, <1>1, <3>1, <3>2 DEF Own, Awaited, Tasks
  <2> QED BY <2>1, <2>2, <2>3
<1>3. Shaped'
  <2>1. CASE RetryInit \/ InitLocked \/ Login
    BY <1>0, <2>1 DEF RetryInit, InitLocked, Login, Shaped
  <2>2. CASE LoginAnswered
    <3>1. PICK s \in 1..Sessions, short \in BOOLEAN :
             /\ latest' = [latest EXCEPT ![s] = 1]
             /\ dead' = [dead EXCEPT ![s] = FALSE]
             /\ partial' = [partial EXCEPT ![s] = short]
             /\ SetSession(s, [s |-> s, g |-> 1])
      BY <2>2 DEF LoginAnswered
    <3>2. /\ latest' \in [1..Sessions -> Nat] /\ dead' \in [1..Sessions -> BOOLEAN]
          /\ partial' \in [1..Sessions -> BOOLEAN]
      BY <1>0, <3>1 DEF Shaped
    <3>3. uid' \in 0..Sessions /\ tok' \in Some
      BY <3>1, ApiAssumption DEF SetSession, Some
    <3>4. UNCHANGED <<recent, cooldown, call, store, expired, owed, counted>>
      BY <2>2, <3>1 DEF LoginAnswered, SetSession
    <3> QED BY <1>0, <3>2, <3>3, <3>4 DEF Shaped
  <2>3. CASE LoginFails
    <3>1. \/ UNCHANGED <<cooldown, owed, faults>>
          \/ faults' = faults + 1 /\ \E d \in RetryAfters : Limited(d)
      BY <2>3 DEF LoginFails
    <3>2. cooldown' \in Nat /\ owed' \in Nat /\ owed' <= cooldown' /\ faults' \in Nat
      <4>1. CASE UNCHANGED <<cooldown, owed, faults>>
        BY <1>0, <4>1 DEF Shaped
      <4>2. ASSUME NEW d \in RetryAfters, Limited(d), faults' = faults + 1
            PROVE  cooldown' \in Nat /\ owed' \in Nat /\ owed' <= cooldown' /\ faults' \in Nat
        <5>1. d \in Nat
          BY ApiAssumption
        <5>2. Clamped(d) \in Nat
          BY <5>1, ApiAssumption DEF Clamped, smaller
        <5> QED BY <1>0, <4>2, <5>2 DEF Limited, EnterCooldown, larger, Shaped
      <4> QED BY <3>1, <4>1, <4>2
    <3> QED BY <1>0, <2>3, <3>2 DEF LoginFails, Shaped
  <2>4. CASE LoginSaves
    BY <1>0, <2>4 DEF LoginSaves, Shaped
  <2>5. CASE Logout
    BY <1>0, <2>5 DEF Logout, SetSession, Shaped
  <2>6. CASE LogoutDeletes
    BY <1>0, <2>6 DEF LogoutDeletes, NoFile, Shaped
  <2> QED BY <2>1, <2>2, <2>3, <2>4, <2>5, <2>6
<1>4. cooldown' <= MaxCooldown /\ Bounded(cooldown')
  <2>1. CASE UNCHANGED cooldown
    BY <1>0, <2>1 DEF Waits
  <2>2. CASE \E d \in RetryAfters : Limited(d)
    <3>1. \A d \in RetryAfters : d \in Nat /\ Bounded(d)
      BY ApiAssumption DEF Bounded
    <3> QED BY <1>0, <2>2, <3>1, LimitedBounded
  <2>3. UNCHANGED cooldown \/ \E d \in RetryAfters : Limited(d)
    BY DEF RetryInit, InitLocked, Login, LoginAnswered, LoginFails, LoginSaves, Logout,
           LogoutDeletes, SetSession
  <2> QED BY <2>1, <2>2, <2>3
<1>5. Waits'
  BY <1>0, <1>1, <1>4 DEF Waits, Bounded
<1>6. Own'
  BY <1>0, <1>1, <1>2 DEF Own
<1> QED BY <1>2, <1>3, <1>5, <1>6 DEF Typed

\* Time passes, a token expires, the process starts again.
LEMMA RestTyped ==
  ASSUME Typed, ATick \/ Crash \/ Expiry \/ UNCHANGED avars
  PROVE  Typed'
<1> USE DEF client, server, counted
<1>0. /\ call \in [Callers -> Call] /\ Shaped /\ Own /\ Awaited /\ Waits
      /\ 0 \in 0..Sessions /\ "login" \in Callers
  BY ApiAssumption, AccountAssumption DEF Typed, Shaped, Initiators
<1>1. CASE ATick
  <2>1. /\ cooldown' \in Nat /\ owed' \in Nat /\ owed' <= cooldown' /\ cooldown' <= cooldown
        /\ next' \in Nat /\ next' <= next /\ recent' = FALSE
    BY <1>0, <1>1 DEF ATick, Pass, Less, Shaped, Own
  <2>2. ASSUME NEW v \in Nat, NEW w \in Nat, v <= w, Bounded(w) PROVE Bounded(v)
    BY <2>2, ApiAssumption, AccountAssumption DEF Bounded
  <2>3. Bounded(cooldown') /\ Bounded(next') /\ cooldown' <= MaxCooldown
    <3>1. /\ cooldown \in Nat /\ next \in Nat /\ Bounded(cooldown) /\ Bounded(next)
          /\ cooldown <= MaxCooldown /\ MaxCooldown \in Nat
      BY <1>0, ApiAssumption DEF Waits, Shaped, Own
    <3> QED BY <2>1, <2>2, <3>1
  <2>4. /\ UNCHANGED <<uid, tok, call, store, server, counted, task, login, logout, list, backoff,
                       from, crossed>>
        /\ cache' \in {"none", "fresh", "stale"}
    BY <1>0, <1>1 DEF ATick, Own
  <2>5. Shaped'
    BY <1>0, <2>1, <2>4 DEF Shaped
  <2>6. Own' /\ Awaited'
    BY <1>0, <2>1, <2>4 DEF Own, Awaited
  <2>7. Waits'
    BY <1>0, <2>3, <2>4 DEF Waits, Bounded
  <2> QED BY <2>5, <2>6, <2>7 DEF Typed
<1>2. CASE Crash
  <2>1. Shaped'
    BY <1>0, <1>2, ShapedOther DEF Crash
  <2>2. /\ list' \in BOOLEAN /\ backoff' = 0 /\ next' = 0 /\ login' = "none" /\ logout' = FALSE
        /\ task' = [k \in Callers |-> IF k = "init" THEN "start" ELSE "none"]
        /\ from' = [k \in Callers |-> 0] /\ cooldown' = 0
        /\ call' = [k \in Callers |-> Idle] /\ UNCHANGED <<cache, crossed>>
    BY <1>2, AccountAssumption DEF Crash, Reload
  <2>3. Own'
    <3>1. \A k \in Callers : (IF k = "init" THEN "start" ELSE "none") \in Tasks
      BY DEF Tasks
    <3> QED BY <1>0, <2>2, <3>1 DEF Own
  <2>4. Awaited'
    BY <1>0, <2>2 DEF Awaited, Idle
  <2>5. Waits'
    BY <2>2, ApiAssumption, AccountAssumption DEF Waits, Bounded, Idle, Reply
  <2> QED BY <2>1, <2>3, <2>4, <2>5 DEF Typed
<1>3. CASE Expiry
  <2>1. Shaped'
    BY <1>0, <1>3, ShapedOther DEF Expiry
  <2>2. UNCHANGED <<client, call, daemon>>
    BY <1>3 DEF Expiry, Expire
  <2>3. Own' /\ Awaited'
    BY <1>0, <2>2 DEF Own, Awaited, daemon
  <2>4. Waits'
    BY <1>0, <2>2 DEF Waits, Bounded, daemon
  <2> QED BY <2>1, <2>3, <2>4 DEF Typed
<1>4. CASE UNCHANGED avars
  <2>1. Shaped'
    BY <1>0, <1>4 DEF avars, Shaped
  <2>2. Own' /\ Awaited' /\ Waits'
    BY <1>0, <1>4 DEF avars, Own, Awaited, Waits, Bounded
  <2> QED BY <2>1, <2>2 DEF Typed
<1> QED BY <1>1, <1>2, <1>3, <1>4

LEMMA TypedStep == Typed /\ [ANext]_avars => Typed'
<1> SUFFICES ASSUME Typed, [ANext]_avars PROVE Typed'
  OBVIOUS
<1>1. CASE Api
  BY <1>1, ApiTyped DEF Api
<1>2. CASE \E k \in Initiators : InitStart(k) \/ InitInfo(k) \/ InitServers(k)
  BY <1>2, InitTyped, AccountAssumption
<1> QED BY <1>1, <1>2, SessionTyped, RestTyped DEF ANext

LEMMA TypedInvariant == ASpec => []Typed
  BY TypedInit, TypedStep, PTL DEF ASpec

\* The state is well typed, initSession waits for a call exactly while one is
\* under way, and no wait outgrows its limit (noteInitResult).
THEOREM AccountTyped == ASpec => []ATypeOK
<1>1. Typed => ATypeOK
  <2> SUFFICES ASSUME Typed PROVE ATypeOK
    OBVIOUS
  <2>1. /\ uid \in 0..Sessions /\ tok \in Token /\ store \in [uid : 0..Sessions, tok : Token]
    BY ApiAssumption DEF Typed, Shaped, Some, Token, NoToken
  <2>2. recent \in BOOLEAN /\ cooldown \in 0..MaxCooldown /\ owed \in 0..MaxCooldown
    BY ApiAssumption DEF Typed, Shaped, Waits
  <2>3. /\ login \in {"none", "asked", "save"} /\ logout \in BOOLEAN
        /\ list \in BOOLEAN /\ cache \in {"none", "fresh", "stale"}
    BY DEF Typed, Own
  <2>4. \A k \in Initiators :
           /\ task[k] \in {"none", "locked", "start", "vpninfo", "servers"}
           /\ call[k].pc = "idle" <=> task[k] \in {"none", "locked", "start"}
    BY AccountAssumption DEF Typed, Own, Tasks, Awaited
  <2>5. \A w \in {backoff, next} : w <= InitRetryMax \/ \E d \in RetryAfters : w <= d
    BY DEF Typed, Waits, Bounded
  <2> QED BY <2>1, <2>2, <2>3, <2>4, <2>5 DEF ATypeOK
<1> QED BY <1>1, TypedInvariant, PTL

-----------------------------------------------------------------------------
(* What the steps of doRequest do, for the arguments below. *)

LEMMA DoneDoes ==
  ASSUME Shaped, NEW k \in Callers, NEW kind, NEW d, Done(k, kind, d)
  PROVE  /\ \A j \in Callers : j # k => call'[j] = call[j]
         /\ call'[k].used = NoToken /\ call'[k].pc = "done" /\ call'[k].reply.kind = kind
<1>0. call \in [Callers -> Call]
  BY DEF Shaped
<1> QED BY <1>0 DEF Done, Idle, Reply

LEMMA AttemptDoes ==
  ASSUME Shaped, NEW k \in Callers, Attempt(k)
  PROVE  /\ UNCHANGED <<uid, tok, recent, store, server, lost>>
         /\ call[k].pc = "gate" /\ \A j \in Callers : j # k => call'[j] = call[j]
         /\ blank => blank'
         /\ \/ call'[k].pc = "done" /\ call'[k].reply.kind = "429" /\ call'[k].used = NoToken
            \/ /\ call'[k].pc = "send" /\ call'[k].used = tok
               /\ call'[k].refreshed = call[k].refreshed
               /\ tok = NoToken => blank'
<1> USE DEF client
<1>0. call \in [Callers -> Call] /\ cooldown \in Nat /\ blank \in BOOLEAN
  BY DEF Shaped
<1>1. /\ UNCHANGED <<uid, tok, recent, store, server, lost>> /\ call[k].pc = "gate"
      /\ blank' = (blank \/ (cooldown = 0 /\ tok = NoToken))
  BY DEF Attempt
<1>2. CASE cooldown > 0
  <2>1. Done(k, "429", cooldown)
    BY <1>2 DEF Attempt
  <2> QED BY <1>0, <1>1, <2>1, DoneDoes
<1>3. CASE ~(cooldown > 0)
  <2>1. /\ call'[k].pc = "send" /\ call'[k].used = tok
        /\ call'[k].refreshed = call[k].refreshed
        /\ \A j \in Callers : j # k => call'[j] = call[j]
    BY <1>0, <1>3 DEF Attempt, Call
  <2>2. cooldown = 0
    BY <1>0, <1>3
  <2> QED BY <1>0, <1>1, <2>1, <2>2
<1> QED BY <1>2, <1>3

\* max retries or another round
LEMMA RetryDoes ==
  ASSUME Shaped, NEW k \in Callers, Retry(k)
  PROVE  /\ \A j \in Callers : j # k => call'[j] = call[j]
         /\ call'[k].used = NoToken
         /\ \/ call'[k].pc = "done" /\ call'[k].reply.kind = "other"
            \/ call'[k].pc = "gate" /\ call'[k].refreshed = call[k].refreshed
<1>0. call \in [Callers -> Call]
  BY DEF Shaped
<1>1. CASE call[k].attempt = MaxRetries
  BY <1>1, DoneDoes DEF Retry
<1>2. CASE call[k].attempt # MaxRetries
  <2>1. /\ \A j \in Callers : j # k => call'[j] = call[j]
        /\ call'[k] = [Idle EXCEPT !.pc = "gate", !.attempt = call[k].attempt + 1,
                                   !.refreshed = call[k].refreshed]
    BY <1>0, <1>2 DEF Retry
  <2> QED BY <2>1 DEF Idle
<1> QED BY <1>1, <1>2

LEMMA ReceiveDoes ==
  ASSUME Shaped, NEW k \in Callers, Receive(k)
  PROVE  /\ UNCHANGED <<uid, tok, recent, store, server, lost, blank>>
         /\ call[k].pc = "reply" /\ \A j \in Callers : j # k => call'[j] = call[j]
         /\ \/ /\ call'[k].pc = "gate" /\ call'[k].refreshed = call[k].refreshed
               /\ call'[k].used = NoToken
            \/ /\ call'[k].pc = "lock" /\ call'[k].refreshed /\ call[k].reply.kind = "401"
               /\ call'[k].used = call[k].used /\ call'[k].reply.kind = "none"
            \/ /\ call'[k].pc = "done" /\ call'[k].used = NoToken
               /\ call'[k].reply.kind = "auth" =>
                     \/ call[k].reply.kind = "auth"
                     \/ call[k].reply.kind = "401" /\ call[k].refreshed
<1> DEFINE r == call[k].reply
<1>0. call \in [Callers -> Call]
  BY DEF Shaped
<1>1. UNCHANGED <<uid, tok, recent, store, server, lost, blank>> /\ call[k].pc = "reply"
  BY DEF Receive, counted
<1>2. \/ Retry(k)
      \/ call' = [call EXCEPT ![k] = [@ EXCEPT !.pc = "lock", !.refreshed = TRUE,
                                             !.reply = Reply("none", 0)]] /\ r.kind = "401"
      \/ Done(k, "auth", 0) /\ r.kind = "401" /\ call[k].refreshed
      \/ \E d : Done(k, "429", d)
      \/ Done(k, r.kind, 0)
  BY DEF Receive
<1>3. CASE call' = [call EXCEPT ![k] = [@ EXCEPT !.pc = "lock", !.refreshed = TRUE,
                                               !.reply = Reply("none", 0)]]
           /\ r.kind = "401"
  BY <1>0, <1>1, <1>3 DEF Call, Reply
<1>4. CASE Retry(k)
  BY <1>1, <1>4, RetryDoes
<1>5. CASE Done(k, "auth", 0) /\ r.kind = "401" /\ call[k].refreshed
  BY <1>1, <1>5, DoneDoes
<1>6. CASE (\E d : Done(k, "429", d)) \/ Done(k, r.kind, 0)
  BY <1>1, <1>6, DoneDoes
<1> QED BY <1>2, <1>3, <1>4, <1>5, <1>6

LEMMA LockDoes ==
  ASSUME Shaped, NEW k \in Callers, Lock(k)
  PROVE  /\ UNCHANGED <<uid, tok, recent, store, server, lost, blank>>
         /\ call[k].pc = "lock" /\ MutexFree /\ \A j \in Callers : j # k => call'[j] = call[j]
         /\ \/ /\ call'[k].pc = "gate" /\ call'[k].refreshed = call[k].refreshed
               /\ call'[k].used = NoToken
               /\ recent \/ (call[k].used # NoToken /\ call[k].used # tok)
            \/ /\ call'[k].pc = "done" /\ call'[k].used = NoToken
               /\ call'[k].reply.kind \in {"other", "429"}
            \/ /\ call'[k].pc = "rsend" /\ call'[k].used = tok /\ tok # NoToken
               /\ call'[k].refreshed = call[k].refreshed
               /\ call[k].used \in {tok, NoToken}
<1> USE DEF client, counted
<1>0. call \in [Callers -> Call]
  BY DEF Shaped
<1>1. /\ UNCHANGED <<uid, tok, recent, store, server, lost, blank>>
      /\ call[k].pc = "lock" /\ MutexFree
  BY DEF Lock
<1> DEFINE skip == (call[k].used # NoToken /\ tok # call[k].used) \/ recent
<1>2. CASE skip
  BY <1>1, <1>2, RetryDoes DEF Lock
<1>3. CASE ~skip
  <2>1. Refresh(k)
    BY <1>3 DEF Lock
  <2>2. CASE tok = NoToken
    BY <1>1, <2>1, <2>2, DoneDoes DEF Refresh
  <2>3. CASE tok # NoToken /\ cooldown > 0
    BY <1>1, <2>1, <2>3, DoneDoes DEF Refresh
  <2>4. CASE tok # NoToken /\ ~(cooldown > 0)
    <3>1. /\ call'[k].pc = "rsend" /\ call'[k].used = tok
          /\ call'[k].refreshed = call[k].refreshed
          /\ \A j \in Callers : j # k => call'[j] = call[j]
      BY <1>0, <2>1, <2>4 DEF Refresh, Call
    <3> QED BY <1>1, <1>3, <2>4, <3>1
  <2> QED BY <2>2, <2>3, <2>4
<1> QED BY <1>2, <1>3

LEMMA RefreshReceiveDoes ==
  ASSUME Shaped, NEW k \in Callers, RefreshReceive(k)
  PROVE  /\ UNCHANGED <<uid, store, server, lost, blank>>
         /\ call[k].pc = "rreply" /\ \A j \in Callers : j # k => call'[j] = call[j]
         /\ \/ /\ Carries(k) /\ tok' = call[k].used /\ recent' = TRUE
               /\ call'[k].pc = "save" /\ call'[k].used = call[k].used
               /\ call'[k].refreshed = call[k].refreshed
            \/ /\ ~Carries(k) /\ UNCHANGED <<tok, recent>>
               /\ call'[k].pc = "done" /\ call'[k].used = NoToken
               /\ call'[k].reply.kind = "auth" => call[k].reply.kind = "auth"
<1> USE DEF counted
<1> DEFINE r == call[k].reply
<1>0. call \in [Callers -> Call]
  BY DEF Shaped
<1>1. UNCHANGED <<uid, store, server, lost, blank>> /\ call[k].pc = "rreply"
  BY DEF RefreshReceive
<1>2. CASE r.kind = "tokens"
  <2>1. tok' = call[k].used /\ recent' = TRUE /\ call' = [call EXCEPT ![k].pc = "save"]
    BY <1>2 DEF RefreshReceive
  <2>2. /\ call'[k].pc = "save" /\ call'[k].used = call[k].used
        /\ call'[k].refreshed = call[k].refreshed
        /\ \A j \in Callers : j # k => call'[j] = call[j]
    BY <1>0, <2>1 DEF Call
  <2> QED BY <1>1, <1>2, <2>1, <2>2 DEF Carries
<1>3. CASE r.kind # "tokens"
  <2>1. UNCHANGED <<tok, recent>>
    BY <1>3 DEF RefreshReceive
  <2>2. \/ \E d : Done(k, "429", d)
        \/ r.kind = "auth" /\ Done(k, "auth", 0)
        \/ Done(k, "other", 0)
    BY <1>3 DEF RefreshReceive
  <2> QED BY <1>1, <1>3, <2>1, <2>2, DoneDoes DEF Carries
<1> QED BY <1>2, <1>3

LEMMA AnswerDoes ==
  ASSUME Shaped, NEW k \in Callers, NEW kind, NEW d, Answer(k, kind, d)
  PROVE  /\ \A j \in Callers : j # k => call'[j] = call[j]
         /\ call'[k].pc = IF call[k].pc = "send" THEN "reply" ELSE "rreply"
         /\ call'[k].reply.kind = kind /\ call'[k].used = call[k].used
         /\ call'[k].refreshed = call[k].refreshed
<1>0. call \in [Callers -> Call]
  BY DEF Shaped
<1> QED BY <1>0 DEF Answer, Call, Reply

LEMMA ServeRefreshDoes ==
  ASSUME Shaped, NEW k \in Callers, ServeRefresh(k)
  PROVE  /\ UNCHANGED <<uid, tok, recent, store, dead, partial, lost, blank>>
         /\ call[k].pc = "rsend" /\ Current(uid, call[k].used) /\ Rotate(call[k].used)
         /\ \A j \in Callers : j # k => call'[j] = call[j]
         /\ Carries(k)' /\ call'[k].used.s = call[k].used.s
         /\ call'[k].used.g = latest[call[k].used.s] + 1
         /\ call'[k].refreshed = call[k].refreshed
<1>0. call \in [Callers -> Call] /\ call[k] \in Call
  BY DEF Shaped
<1>1. /\ UNCHANGED <<uid, tok, recent, store, dead, partial, lost, blank>>
      /\ call[k].pc = "rsend" /\ Current(uid, call[k].used) /\ Rotate(call[k].used)
  BY DEF ServeRefresh, client
<1>2. call[k].used \in Some
  BY <1>0, <1>1 DEF Call, Refreshing
<1>3. call' = [call EXCEPT ![k] = [@ EXCEPT !.pc = "rreply", !.reply = Reply("tokens", 0),
                                             !.used.g = latest[call[k].used.s] + 1]]
  BY DEF ServeRefresh
<1> QED BY <1>0, <1>1, <1>2, <1>3 DEF Call, Reply, Carries, Some

-----------------------------------------------------------------------------
(* The session file and the client *)

\* The tokens a refresh deals with are those of the client's session.
Handling(k) ==
    /\ call[k].pc \in {"rsend", "rreply"} => tok # NoToken /\ call[k].used.s = tok.s
    /\ call[k].pc \in {"rsend", "save"} => call[k].used = tok
    /\ Carries(k) => lost \/ call[k].used.g = latest[call[k].used.s]

Stored ==
    /\ tok # NoToken /\ login # "save" /\ \A k \in Callers : call[k].pc # "save"
    => partial[tok.s] \/ store = [uid |-> uid, tok |-> tok]

Newest == tok = NoToken \/ tok.g = latest[tok.s] \/ lost \/ \E k \in Callers : Carries(k)

Following ==
    /\ uid = tok.s /\ store.uid = store.tok.s
    /\ logout => tok = NoToken
    /\ \A k \in Callers : Handling(k)
    /\ Stored /\ Newest

Followed == Holders /\ (~crossed => Following)

LEMMA FollowedInit == AInit => Followed
<1> SUFFICES ASSUME AInit PROVE Followed
  OBVIOUS
<1>1. \A k \in Callers : call[k].pc = "idle"
  BY DEF AInit, Idle
<1>2. 1 \in 1..Sessions
  BY ApiAssumption
<1>3. uid = tok.s /\ store.uid = store.tok.s /\ store = [uid |-> uid, tok |-> tok] /\ ~logout
  BY DEF AInit
<1>4. latest[tok.s] = 1 /\ tok.g = 1
  BY <1>2 DEF AInit
<1>5. Stored
  BY <1>3 DEF Stored
<1>6. Newest
  BY <1>4 DEF Newest
<1>7. Holders /\ \A k \in Callers : Handling(k)
  BY <1>1 DEF Holders, Handling, Refreshing, Carries
<1> QED BY <1>3, <1>5, <1>6, <1>7 DEF Followed, Following

\* refreshMu goes from one goroutine to the next.
LEMMA HoldersKept ==
  ASSUME Holders, NEW k \in Callers,
         \A j \in Callers : j # k => call'[j] = call[j],
         call'[k].pc \in Refreshing => call[k].pc \in Refreshing \/ MutexFree
  PROVE  Holders'
  BY DEF Holders, MutexFree

\* A step of one goroutine with no tokens in its hands.
LEMMA FollowedAside ==
  ASSUME Followed, NEW k \in Callers,
         UNCHANGED <<uid, tok, store, latest, partial, lost, login, logout, crossed>>,
         \A j \in Callers : j # k => call'[j] = call[j],
         call'[k].pc \in Refreshing => call[k].pc \in Refreshing \/ MutexFree,
         call[k].pc # "save", call'[k].pc # "save",
         ~Carries(k), ~Carries(k)', Following => Handling(k)'
  PROVE  Followed'
<1>1. Holders'
  BY HoldersKept DEF Followed
<1>2. ASSUME Following PROVE Following'
  <2>1. \A j \in Callers : Handling(j)'
    BY <1>2 DEF Following, Handling, Carries
  <2>2. Stored' /\ Newest'
    BY <1>2 DEF Following, Stored, Newest, Carries
  <2> QED BY <1>2, <2>1, <2>2 DEF Following
<1> QED BY <1>1, <1>2 DEF Followed

\* Tokens brought, saved, rotated.
LEMMA ApiFollowed ==
  ASSUME Shaped, Followed, NEW k \in Callers, Caller(k) \/ Network(k) \/ Faults(k),
         UNCHANGED daemon
  PROVE  Followed'
<1> USE DEF daemon, server, client
<1>1. CASE Attempt(k)
  BY <1>1, AttemptDoes, FollowedAside DEF Handling, Carries, Refreshing
<1>2. CASE Receive(k)
  BY <1>2, ReceiveDoes, FollowedAside DEF Handling, Carries, Refreshing
<1>3. CASE Lock(k)
  <2>1. /\ UNCHANGED <<uid, tok, store, latest, partial, lost>>
        /\ call[k].pc = "lock" /\ MutexFree /\ \A j \in Callers : j # k => call'[j] = call[j]
        /\ \/ call'[k].pc \in {"gate", "done"}
           \/ call'[k].pc = "rsend" /\ call'[k].used = tok /\ tok # NoToken
    BY <1>3, LockDoes
  <2>2. Handling(k)'
    BY <2>1 DEF Handling, Carries
  <2> QED BY <2>1, <2>2, FollowedAside DEF Carries
<1>4. CASE RefreshReceive(k)
  <2>1. CASE ~Carries(k)
    BY <1>4, <2>1, RefreshReceiveDoes, FollowedAside DEF Handling, Carries, Refreshing
  <2>2. CASE Carries(k)
    <3>1. /\ UNCHANGED <<uid, store, latest, partial, lost, login, logout, crossed>>
          /\ call[k].pc = "rreply" /\ \A j \in Callers : j # k => call'[j] = call[j]
          /\ tok' = call[k].used /\ call'[k].pc = "save" /\ call'[k].used = call[k].used
      BY <1>4, <2>2, RefreshReceiveDoes
    <3>2. Holders'
      BY <3>1, HoldersKept DEF Followed, Refreshing
    <3>3. ASSUME Following PROVE Following'
      <4>1. \A j \in Callers : j # k => call[j].pc \notin Refreshing
        BY <3>1 DEF Followed, Holders, Refreshing
      <4>2. tok # NoToken /\ call[k].used.s = tok.s /\ (lost \/ call[k].used.g = latest[call[k].used.s])
        BY <2>2, <3>1, <3>3 DEF Following, Handling
      <4>3. \A j \in Callers : Handling(j)'
        BY <3>1, <4>1 DEF Handling, Carries, Refreshing
      <4>4. Stored' /\ Newest'
        BY <3>1, <4>2 DEF Stored, Newest
      <4>5. ~logout
        BY <3>3, <4>2 DEF Following
      <4> QED BY <3>1, <3>3, <4>2, <4>3, <4>4, <4>5 DEF Following
    <3> QED BY <3>1, <3>2, <3>3 DEF Followed
  <2> QED BY <2>1, <2>2
<1>5. CASE Save(k)
  <2>1. /\ UNCHANGED <<uid, tok, latest, partial, lost, login, logout, crossed>>
        /\ store' = [uid |-> uid, tok |-> call[k].used] /\ call[k].pc = "save"
        /\ \A j \in Callers : j # k => call'[j] = call[j]
        /\ call'[k].pc \in {"gate", "done"}
    BY <1>5, RetryDoes DEF Save, counted
  <2>2. Holders'
    BY <2>1, HoldersKept DEF Followed, Refreshing
  <2>3. ASSUME Following PROVE Following'
    <3>1. call[k].used = tok
      BY <2>1, <2>3 DEF Following, Handling
    <3>2. \A j \in Callers : Handling(j)'
      BY <2>1, <2>3 DEF Following, Handling, Carries
    <3>3. Stored' /\ Newest'
      BY <2>1, <2>3, <3>1 DEF Following, Stored, Newest, Carries
    <3> QED BY <2>1, <2>3, <3>1, <3>2, <3>3 DEF Following
  <2> QED BY <2>1, <2>2, <2>3 DEF Followed
<1>6. CASE Serve(k) \/ Fault(k) \/ RefuseRefresh(k)
  <2>1. /\ UNCHANGED <<uid, tok, store, latest, partial, lost, login, logout, crossed>>
        /\ call[k].pc \in {"send", "rsend"}
        /\ \E kind, d : kind # "tokens" /\ Answer(k, kind, d)
    BY <1>6 DEF Serve, Fault, RefuseRefresh, counted
  <2>2. /\ \A j \in Callers : j # k => call'[j] = call[j]
        /\ call'[k].pc = IF call[k].pc = "send" THEN "reply" ELSE "rreply"
        /\ call'[k].reply.kind # "tokens" /\ call'[k].used = call[k].used
    BY <2>1, AnswerDoes
  <2>3. Following => Handling(k)'
    BY <2>1, <2>2 DEF Following, Handling, Carries
  <2> QED BY <2>1, <2>2, <2>3, FollowedAside DEF Carries, Refreshing
<1>7. CASE ServeRefresh(k) \/ LoseRefresh(k)
  <2>1. /\ UNCHANGED <<uid, tok, store, partial, login, logout, crossed>>
        /\ call[k].pc = "rsend" /\ Rotate(call[k].used)
        /\ \A j \in Callers : j # k => call'[j] = call[j]
        /\ call'[k].pc = "rreply" /\ call'[k].used.s = call[k].used.s
        /\ \/ Carries(k)' /\ call'[k].used.g = latest[call[k].used.s] + 1
           \/ lost'
    <3>1. CASE ServeRefresh(k)
      BY <3>1, ServeRefreshDoes DEF Carries
    <3>2. CASE LoseRefresh(k)
      <4>1. Answer(k, "net", 0) /\ call[k].pc = "rsend" /\ lost'
        BY <3>2 DEF LoseRefresh
      <4> QED BY <3>2, <4>1, AnswerDoes DEF LoseRefresh
    <3> QED BY <1>7, <3>1, <3>2
  <2>2. Holders'
    BY <2>1, HoldersKept DEF Followed, Refreshing
  <2>3. ASSUME Following PROVE Following'
    <3>1. \A j \in Callers : j # k => call[j].pc \notin Refreshing
      BY <2>1 DEF Followed, Holders, Refreshing
    <3>2. call[k].used = tok /\ tok # NoToken
      BY <2>1, <2>3 DEF Following, Handling
    <3>3. latest'[tok.s] = latest[tok.s] + 1
      BY <2>1, <3>2 DEF Rotate, Shaped, Some
    <3>4. \A j \in Callers : Handling(j)'
      BY <2>1, <3>1, <3>2, <3>3 DEF Handling, Carries, Refreshing
    <3>5. Stored'
      BY <2>1, <2>3, <3>1 DEF Following, Stored, Refreshing
    <3>6. Newest'
      BY <2>1 DEF Newest
    <3> QED BY <2>1, <2>3, <3>2, <3>4, <3>5, <3>6 DEF Following
  <2> QED BY <2>1, <2>2, <2>3 DEF Followed
<1> QED BY <1>1, <1>2, <1>3, <1>4, <1>5, <1>6, <1>7 DEF Caller, Network, Faults

\* A client that is signed out, when nothing else is under way.
LEMMA FollowedCleared ==
  ASSUME Followed, SetSession(0, NoToken), UNCHANGED store,
         \A k \in Callers : call'[k].pc \in Refreshing => call'[k] = call[k]
  PROVE  Followed'
<1>1. Holders'
  BY DEF Followed, Holders
<1>2. ASSUME ~crossed' PROVE Following'
  <2>1. /\ ~crossed /\ \A k \in Callers : call[k].pc \notin Refreshing
        /\ uid' = 0 /\ tok' = NoToken /\ store' = store
    BY <1>2 DEF SetSession
  <2>2. \A k \in Callers : Handling(k)'
    BY <2>1 DEF Handling, Carries, Refreshing
  <2> QED BY <2>1, <2>2 DEF Followed, Following, Stored, Newest, NoToken
<1> QED BY <1>1, <1>2 DEF Followed

LEMMA InitFollowed ==
  ASSUME Typed, Followed, NEW k \in Callers, InitStart(k) \/ InitInfo(k) \/ InitServers(k)
  PROVE  Followed'
<1> USE DEF client, server, counted
<1>0. call \in [Callers -> Call] /\ Awaited /\ Own
  BY DEF Typed, Shaped
<1>1. /\ UNCHANGED <<store, latest, partial, lost, login, logout>>
      /\ \/ UNCHANGED <<uid, tok, crossed>>
         \/ SetSession(0, NoToken)
  BY DEF InitStart, InitInfo, InitServers
<1>2. /\ call[k].pc \in {"idle", "done"} /\ call'[k].pc \in {"idle", "gate"}
      /\ \A j \in Callers : j # k => call'[j] = call[j]
  <2>1. CASE InitStart(k)
    <3>1. call[k].pc = "idle"
      BY <1>0, <2>1 DEF InitStart, Awaited
    <3> QED BY <1>0, <2>1, <3>1, CallBegins DEF InitStart
  <2>2. CASE InitInfo(k) \/ InitServers(k)
    BY <1>0, <2>2, CallBegins DEF InitInfo, InitServers
  <2> QED BY <2>1, <2>2
<1>3. CASE SetSession(0, NoToken)
  BY <1>1, <1>2, <1>3, FollowedCleared DEF Refreshing
<1>4. CASE UNCHANGED <<uid, tok, crossed>>
  BY <1>1, <1>2, <1>4, FollowedAside DEF Handling, Carries, Refreshing
<1> QED BY <1>1, <1>3, <1>4

LEMMA SessionFollowed ==
  ASSUME Typed, Followed,
         RetryInit \/ InitLocked \/ Login \/ LoginAnswered \/ LoginFails \/ LoginSaves
         \/ Logout \/ LogoutDeletes
  PROVE  Followed'
<1> USE DEF client, server, counted, apivars
<1>0. UNCHANGED call
  BY DEF RetryInit, InitLocked, Login, LoginAnswered, LoginFails, LoginSaves, Logout, LogoutDeletes
<1>1. Holders'
  BY <1>0 DEF Followed, Holders
<1>2. CASE RetryInit \/ InitLocked \/ Login \/ LoginFails
  <2>1. /\ UNCHANGED <<uid, tok, store, latest, partial, lost, logout, crossed>>
        /\ login' = login \/ login # "save"
    BY <1>2 DEF RetryInit, InitLocked, Login, LoginFails
  <2>2. Following => Following'
    BY <1>0, <2>1 DEF Following, Handling, Stored, Newest, Carries
  <2> QED BY <1>1, <2>1, <2>2 DEF Followed
<1>3. CASE LoginAnswered
  <2>1. PICK s \in 1..Sessions, short \in BOOLEAN :
           /\ latest' = [latest EXCEPT ![s] = 1]
           /\ partial' = [partial EXCEPT ![s] = short]
           /\ SetSession(s, [s |-> s, g |-> 1])
           /\ login' = IF short THEN "none" ELSE "save"
    BY <1>3 DEF LoginAnswered
  <2>2. UNCHANGED <<store, logout>>
    BY <1>3 DEF LoginAnswered
  <2>3. ASSUME ~crossed' PROVE Following'
    <3>1. /\ ~crossed /\ ~logout /\ \A k \in Callers : call[k].pc \notin Refreshing
          /\ uid' = s /\ tok' = [s |-> s, g |-> 1]
      BY <2>1, <2>3 DEF SetSession
    <3>2. \A k \in Callers : Handling(k)'
      BY <1>0, <3>1 DEF Handling, Carries, Refreshing
    <3>3. latest'[s] = 1 /\ partial'[s] = short
      BY <2>1 DEF Typed, Shaped
    <3>4. Stored' /\ Newest'
      BY <2>1, <3>1, <3>3 DEF Stored, Newest
    <3> QED BY <2>2, <3>1, <3>2, <3>4 DEF Followed, Following
  <2> QED BY <1>1, <2>3 DEF Followed
<1>4. CASE LoginSaves
  <2>1. /\ store' = [uid |-> uid, tok |-> tok]
        /\ UNCHANGED <<uid, tok, latest, partial, lost, logout, crossed>>
    BY <1>4 DEF LoginSaves
  <2>2. Following => Following'
    BY <1>0, <2>1 DEF Following, Handling, Stored, Newest, Carries
  <2> QED BY <1>1, <2>1, <2>2 DEF Followed
<1>5. CASE Logout
  <2>1. SetSession(0, NoToken) /\ UNCHANGED store
    BY <1>5 DEF Logout
  <2> QED BY <1>0, <2>1, FollowedCleared
<1>6. CASE LogoutDeletes
  <2>1. /\ store' = NoFile /\ logout /\ logout' = FALSE
        /\ UNCHANGED <<uid, tok, latest, partial, lost, login, crossed>>
    BY <1>6 DEF LogoutDeletes
  <2>2. Following => Following'
    BY <1>0, <2>1 DEF Following, Handling, Stored, Newest, Carries, NoFile, NoToken
  <2> QED BY <1>1, <2>1, <2>2 DEF Followed
<1> QED BY <1>2, <1>3, <1>4, <1>5, <1>6

LEMMA RestFollowed ==
  ASSUME Typed, Followed, ATick \/ Crash \/ Expiry \/ UNCHANGED avars
  PROVE  Followed'
<1> USE DEF client, server, counted
<1>1. CASE ATick \/ Expiry \/ UNCHANGED avars
  <2>1. UNCHANGED <<uid, tok, call, store, latest, partial, lost, login, logout, crossed>>
    BY <1>1 DEF ATick, Expiry, Expire, daemon, avars
  <2>2. Followed' <=> Followed
    BY <2>1 DEF Followed, Holders, Following, Handling, Stored, Newest, Carries
  <2> QED BY <2>2
<1>2. CASE Crash
  <2>1. /\ uid' = store.uid /\ tok' = store.tok /\ login' = "none" /\ logout' = FALSE
        /\ lost' = (lost \/ (store.tok # NoToken /\ store.tok.g # latest[store.tok.s]))
        /\ UNCHANGED <<store, latest, partial, crossed>>
        /\ \A k \in Callers : call'[k].pc = "idle"
    BY <1>2 DEF Crash, Reload, Idle
  <2>2. Holders' /\ \A k \in Callers : Handling(k)'
    BY <2>1 DEF Holders, Handling, Carries, Refreshing
  <2>3. store = [uid |-> store.uid, tok |-> store.tok]
    BY DEF Typed, Shaped
  <2>4. Stored' /\ Newest'
    BY <2>1, <2>3 DEF Stored, Newest
  <2> QED BY <2>1, <2>2, <2>4 DEF Followed, Following
<1> QED BY <1>1, <1>2

LEMMA FollowedStep == Typed /\ Followed /\ [ANext]_avars => Followed'
<1> SUFFICES ASSUME Typed, Followed, [ANext]_avars PROVE Followed'
  OBVIOUS
<1>1. CASE Api
  BY <1>1, ApiFollowed DEF Api, Typed
<1>2. CASE \E k \in Initiators : InitStart(k) \/ InitInfo(k) \/ InitServers(k)
  BY <1>2, InitFollowed, AccountAssumption
<1> QED BY <1>1, <1>2, SessionFollowed, RestFollowed DEF ANext

\* Sign-in, sign-out and refresh, each in two halves and with no lock in common,
\* leave the session file with the client's own, latest tokens, unless one of
\* them came between the halves of another (SetSession, OnTokenRefresh).
THEOREM FileFollowsClient == ASpec => []StoreFollowsClient
<1>1. Followed => StoreFollowsClient
  BY DEF Followed, Following, Stored, Newest, Carries, StoreFollowsClient
<1> QED BY <1>1, FollowedInit, FollowedStep, TypedInvariant, PTL DEF ASpec

-----------------------------------------------------------------------------
(* Why a session may be ended.  As long as the client has, or is about to    *)
(* get, tokens that are good for something, no goroutine that began with     *)
(* this session comes to hear that they are not.                             *)

Valid == Current(uid, tok) \/ \E k \in Callers : Carries(k) /\ Current(uid, call[k].used)

\* Sessions and tokens come from the server.
Started(s) == s # 0 => latest[s] > 0
Issued(t)  == t.s # 0 => latest[t.s] > 0 /\ t.g <= latest[t.s]

Known ==
    /\ Started(uid) /\ Started(store.uid) /\ Issued(tok) /\ Issued(store.tok)
    /\ \A s \in 1..Sessions : latest[s] = 0 => ~expired[s]

Noting == {"send", "reply", "lock"}

\* What a call noted is not newer than what the client has, and what it is about
\* to bring is.
Noted(k) ==
    /\ Issued(call[k].used) /\ Started(from[k])
    /\ call[k].pc = "reply" => call[k].reply.kind \notin {"auth", "tokens"}
    /\ call[k].pc \in Refreshing \cup {"lock"} => call[k].refreshed
    /\ call[k].pc = "rsend" => call[k].used = tok \/ call[k].used.s # uid
    /\ Carries(k) /\ call[k].used.s = uid => tok.s = uid /\ tok.g < call[k].used.g
    /\ call[k].pc \in Noting /\ call[k].used.s = uid /\ tok.s = uid => call[k].used.g <= tok.g
    /\ call[k].pc \in Noting /\ call[k].used = NoToken => blank

\* Tokens that came after those a call knows have not expired; those it was told
\* about have.
Aged(k) ==
    /\ Carries(k) /\ call[k].used.g = latest[call[k].used.s] => ~expired[call[k].used.s]
    /\ Valid /\ call[k].pc \in Noting /\ call[k].used.s = uid /\ call[k].used.g < latest[uid]
          => ~expired[uid]
    /\ Told(k) /\ call[k].used = tok /\ Current(uid, tok) /\ ~blank => expired[uid]

\* A goroutine of initSession whose session is still the client's.
Served(k) ==
    from[k] = uid /\ Valid /\ ~blank =>
        /\ call[k].pc = "done" => call[k].reply.kind # "auth"
        /\ call[k].pc \in Noting => call[k].used.s = uid
        /\ call[k].pc = "rsend" => call[k].used = tok
        /\ call[k].pc \in {"gate", "send", "reply", "save"} /\ call[k].refreshed
              => Current(uid, tok) /\ ~expired[uid]
        /\ call[k].pc = "reply" /\ call[k].refreshed => call[k].reply.kind # "401"
        /\ call[k].pc = "rreply" => call[k].reply.kind # "auth"

Grounded ==
    /\ Known /\ Holders
    /\ recent /\ Valid => ~expired[uid]
    /\ \A k \in Callers : Noted(k) /\ Aged(k) /\ Served(k)

LEMMA GroundedInit == AInit => Grounded
<1> SUFFICES ASSUME AInit PROVE Grounded
  OBVIOUS
<1>1. \A k \in Callers : /\ call[k].pc = "idle" /\ call[k].used = NoToken /\ from[k] = 0
  BY AccountAssumption DEF AInit, Idle
<1>2. 1 \in 1..Sessions
  BY ApiAssumption
<1>3. /\ uid = 1 /\ tok = [s |-> 1, g |-> 1] /\ store = [uid |-> 1, tok |-> tok] /\ latest[1] = 1
      /\ ~recent /\ \A s \in 1..Sessions : ~expired[s]
  BY <1>2 DEF AInit
<1>4. Known
  BY <1>3 DEF Known, Started, Issued
<1>5. Holders /\ \A k \in Callers : Noted(k) /\ Aged(k) /\ Served(k)
  BY <1>1 DEF Holders, Noted, Aged, Served, Issued, Started, Carries, Told, Noting, Refreshing, NoToken
<1> QED BY <1>3, <1>4, <1>5 DEF Grounded

\* Good tokens are those of the client's session.
LEMMA ValidIs ==
  ASSUME Shaped, Grounded, Valid
  PROVE  /\ uid \in 1..Sessions /\ tok.s = uid /\ tok # NoToken /\ tok.g \in Nat
         /\ latest[uid] \in Nat /\ tok.g <= latest[uid] /\ ~dead[uid]
         /\ tok.g = latest[uid] <=> Current(uid, tok)
<1>1. PICK t \in Some \cup {NoToken} : Current(uid, t) /\ (t.s = uid => tok.s = uid)
  <2>1. CASE Current(uid, tok)
    BY <2>1 DEF Shaped
  <2>2. CASE \E k \in Callers : Carries(k) /\ Current(uid, call[k].used)
    <3>1. PICK k \in Callers : Carries(k) /\ Current(uid, call[k].used)
      BY <2>2
    <3>2. call[k].used \in Some \cup {NoToken}
      BY DEF Shaped, Call
    <3> QED BY <3>1, <3>2 DEF Grounded, Noted
  <2> QED BY <2>1, <2>2 DEF Valid
<1>2. t \in Some /\ uid = t.s /\ ~dead[uid]
  BY <1>1 DEF Current
<1>3. uid \in 1..Sessions /\ tok.s = uid
  BY <1>1, <1>2 DEF Some
<1>4. tok \in Some /\ tok # NoToken
  BY <1>3 DEF Shaped, NoToken
<1>5. latest[uid] \in Nat /\ tok.g \in Nat /\ tok.g <= latest[uid]
  BY <1>3, <1>4 DEF Shaped, Some, Grounded, Known, Issued
<1> QED BY <1>2, <1>3, <1>4, <1>5 DEF Current

\* Nothing but new tokens makes good ones out of bad.
LEMMA ValidAside ==
  ASSUME Shaped, NEW k \in Callers,
         UNCHANGED <<uid, tok, latest>>,
         \A s \in 1..Sessions : dead[s] => dead'[s],
         \A j \in Callers : j # k => call'[j] = call[j],
         Carries(k)' => Carries(k) /\ call'[k].used = call[k].used
  PROVE  /\ Valid' => Valid
         /\ Current(uid, tok)' => Current(uid, tok)
         /\ Valid' /\ Current(uid, tok) => Current(uid, tok)'
<1>1. ASSUME NEW u \in 0..Sessions, NEW t \in Some \cup {NoToken}, Current(u, t)'
      PROVE  Current(u, t)
  BY <1>1 DEF Current, Some
<1>2. Current(uid, tok)' => Current(uid, tok)
  BY <1>1 DEF Shaped
<1>3. ASSUME NEW j \in Callers, Carries(j)', Current(uid, call[j].used)'
      PROVE  Valid
  <2>1. Carries(j) /\ call'[j].used = call[j].used
    BY <1>3 DEF Carries
  <2>2. call[j].used \in Some \cup {NoToken} /\ uid \in 0..Sessions
    BY DEF Shaped, Call
  <2>3. Current(uid, call[j].used)
    BY <1>1, <1>3, <2>1, <2>2 DEF Current
  <2> QED BY <2>1, <2>3 DEF Valid
<1>4. Valid' => ~dead'[uid]
  BY DEF Valid, Current
<1> QED BY <1>2, <1>3, <1>4 DEF Valid, Current

\* A step of one goroutine that brings no tokens.  A session may die in it.
LEMMA GroundedAside ==
  ASSUME Shaped, Grounded, NEW k \in Callers,
         UNCHANGED <<uid, tok, recent, latest, expired>>,
         \A s \in 1..Sessions : dead[s] => dead'[s],
         store' = store \/ (Started(store.uid)' /\ Issued(store.tok)'),
         \A j \in Callers : j # k => call'[j] = call[j] /\ from'[j] = from[j],
         call'[k].pc \in Refreshing => call[k].pc \in Refreshing \/ MutexFree,
         blank => blank',
         Carries(k)' => Carries(k) /\ call'[k].used = call[k].used,
         Noted(k)', Aged(k)', Served(k)'
  PROVE  Grounded'
<1>1. Holders'
  BY HoldersKept DEF Grounded
<1>2. Known'
  BY DEF Grounded, Known, Started, Issued
<1>3. /\ Valid' => Valid
      /\ Current(uid, tok)' => Current(uid, tok)
      /\ Valid' /\ Current(uid, tok) => Current(uid, tok)'
  BY ValidAside
<1>4. \A j \in Callers : Noted(j)'
  BY DEF Grounded, Noted, Issued, Started, Carries
<1>5. \A j \in Callers : Aged(j)'
  BY <1>3 DEF Grounded, Aged, Carries, Told
<1>6. \A j \in Callers : Served(j)'
  BY <1>3 DEF Grounded, Served
<1> QED BY <1>1, <1>2, <1>3, <1>4, <1>5, <1>6 DEF Grounded

\* Newer tokens than the client's own, that are good, are just rotated.
LEMMA NewerAreFresh ==
  ASSUME Shaped, Grounded, Valid, ~Current(uid, tok)
  PROVE  ~expired[uid]
<1>1. PICK j \in Callers : Carries(j) /\ Current(uid, call[j].used)
  BY DEF Valid
<1> QED BY <1>1 DEF Grounded, Aged, Current

LEMMA AttemptGrounded ==
  ASSUME Shaped, Grounded, NEW k \in Callers, Attempt(k), UNCHANGED from
  PROVE  Grounded'
<1> USE DEF server
<1>1. /\ UNCHANGED <<uid, tok, recent, store, latest, dead, expired>> /\ (blank => blank')
      /\ call[k].pc = "gate" /\ \A j \in Callers : j # k => call'[j] = call[j]
      /\ \/ call'[k].pc = "done" /\ call'[k].reply.kind = "429" /\ call'[k].used = NoToken
         \/ /\ call'[k].pc = "send" /\ call'[k].used = tok
            /\ call'[k].refreshed = call[k].refreshed
            /\ tok = NoToken => blank'
  BY AttemptDoes
<1>2. ~Carries(k)' /\ ~Told(k)'
  BY <1>1 DEF Carries, Told
<1>3. Valid' => Valid
  BY <1>1, <1>2, ValidAside
<1>4. Noted(k)'
  <2>1. tok.g \in Nat
    BY DEF Shaped, Some, NoToken
  <2> QED BY <1>1, <1>2, <2>1 DEF Grounded, Known, Noted, Issued, Started, NoToken, Noting, Refreshing
<1>5. Aged(k)'
  <2>1. ASSUME Valid, tok.g < latest[uid] PROVE ~expired[uid]
    BY <2>1, ValidIs, NewerAreFresh
  <2> QED BY <1>1, <1>2, <1>3, <2>1 DEF Aged, Noting
<1>6. Served(k)'
  <2>1. Valid => tok.s = uid
    BY ValidIs
  <2>2. Current(uid, tok)' <=> Current(uid, tok)
    BY <1>1 DEF Current
  <2> QED BY <1>1, <1>3, <2>1, <2>2 DEF Grounded, Served, Noting
<1> QED BY <1>1, <1>2, <1>4, <1>5, <1>6, GroundedAside DEF Refreshing

LEMMA ReceiveGrounded ==
  ASSUME Shaped, Grounded, NEW k \in Callers, Receive(k), UNCHANGED from
  PROVE  Grounded'
<1> USE DEF server
<1>1. /\ UNCHANGED <<uid, tok, recent, store, latest, dead, expired, blank>>
      /\ call[k].pc = "reply" /\ \A j \in Callers : j # k => call'[j] = call[j]
      /\ \/ /\ call'[k].pc = "gate" /\ call'[k].refreshed = call[k].refreshed
            /\ call'[k].used = NoToken
         \/ /\ call'[k].pc = "lock" /\ call'[k].refreshed /\ call[k].reply.kind = "401"
            /\ call'[k].used = call[k].used /\ call'[k].reply.kind = "none"
         \/ /\ call'[k].pc = "done" /\ call'[k].used = NoToken
            /\ call'[k].reply.kind = "auth" =>
                  \/ call[k].reply.kind = "auth"
                  \/ call[k].reply.kind = "401" /\ call[k].refreshed
  BY ReceiveDoes
<1>2. Noted(k) /\ Aged(k) /\ Served(k)
  BY DEF Grounded
<1>3. ~Carries(k)'
  BY <1>1 DEF Carries
<1>4. (Valid' => Valid) /\ (Current(uid, tok)' <=> Current(uid, tok))
  <2>1. Valid' => Valid
    BY <1>1, <1>3, ValidAside
  <2> QED BY <1>1, <2>1 DEF Current
<1>5. Noted(k)'
  BY <1>1, <1>2, <1>3 DEF Noted, Issued, Started, NoToken, Noting, Refreshing
<1>6. Aged(k)'
  BY <1>1, <1>2, <1>3, <1>4 DEF Aged, Noting, Told
<1>7. Served(k)'
  BY <1>1, <1>2, <1>4 DEF Noted, Served, Noting
<1> QED BY <1>1, <1>3, <1>5, <1>6, <1>7, GroundedAside DEF Refreshing

LEMMA LockGrounded ==
  ASSUME Shaped, Grounded, NEW k \in Callers, Lock(k), UNCHANGED from
  PROVE  Grounded'
<1> USE DEF server
<1>1. /\ UNCHANGED <<uid, tok, recent, store, latest, dead, expired, blank>>
      /\ call[k].pc = "lock" /\ MutexFree /\ \A j \in Callers : j # k => call'[j] = call[j]
      /\ \/ /\ call'[k].pc = "gate" /\ call'[k].refreshed = call[k].refreshed
            /\ call'[k].used = NoToken
            /\ recent \/ (call[k].used # NoToken /\ call[k].used # tok)
         \/ /\ call'[k].pc = "done" /\ call'[k].used = NoToken
            /\ call'[k].reply.kind \in {"other", "429"}
         \/ /\ call'[k].pc = "rsend" /\ call'[k].used = tok /\ tok # NoToken
            /\ call'[k].refreshed = call[k].refreshed
            /\ call[k].used \in {tok, NoToken}
  BY LockDoes
<1>2. Noted(k) /\ Aged(k) /\ Served(k)
  BY DEF Grounded
<1>3. ~Carries(k)'
  BY <1>1 DEF Carries
<1>4. (Valid' => Valid) /\ (Current(uid, tok)' <=> Current(uid, tok))
  <2>1. Valid' => Valid
    BY <1>1, <1>3, ValidAside
  <2> QED BY <1>1, <2>1 DEF Current
<1>5. Valid => Current(uid, tok)
  BY <1>1 DEF Valid, Carries, MutexFree, Refreshing
<1>6. Noted(k)'
  BY <1>1, <1>2, <1>3 DEF Grounded, Known, Noted, Issued, Started, NoToken, Noting, Refreshing
<1>7. Aged(k)'
  BY <1>1, <1>2, <1>3, <1>4 DEF Noted, Aged, Noting, Told
<1>8. ASSUME from[k] = uid, Valid, ~blank, call[k].used # NoToken, call[k].used # tok
      PROVE  ~expired[uid]
  <2>1. /\ tok.s = uid /\ tok \in Some /\ call[k].used \in Some
        /\ tok.g \in Nat /\ latest[uid] \in Nat /\ tok.g <= latest[uid]
    BY <1>8, ValidIs DEF Shaped, Call
  <2>2. call[k].used.s = uid /\ call[k].used.g <= tok.g
    BY <1>1, <1>2, <1>8, <2>1 DEF Served, Noted, Noting
  <2>3. call[k].used.g # tok.g /\ call[k].used.g \in Nat
    BY <1>8, <2>1, <2>2 DEF Some
  <2>4. call[k].used.g < latest[uid]
    BY <2>1, <2>2, <2>3
  <2> QED BY <1>1, <1>2, <1>8, <2>2, <2>4 DEF Aged, Noting
<1>9. Served(k)'
  BY <1>1, <1>2, <1>4, <1>5, <1>8 DEF Grounded, Served, Noting
<1> QED BY <1>1, <1>3, <1>6, <1>7, <1>9, GroundedAside DEF Refreshing

LEMMA RefreshReceiveGrounded ==
  ASSUME Shaped, Grounded, NEW k \in Callers, RefreshReceive(k), UNCHANGED from
  PROVE  Grounded'
<1> USE DEF server
<1>1. /\ UNCHANGED <<uid, store, latest, dead, expired, blank>>
      /\ call[k].pc = "rreply" /\ \A j \in Callers : j # k => call'[j] = call[j]
      /\ \/ /\ Carries(k) /\ tok' = call[k].used /\ recent' = TRUE
            /\ call'[k].pc = "save" /\ call'[k].used = call[k].used
            /\ call'[k].refreshed = call[k].refreshed
         \/ /\ ~Carries(k) /\ UNCHANGED <<tok, recent>>
            /\ call'[k].pc = "done" /\ call'[k].used = NoToken
            /\ call'[k].reply.kind = "auth" => call[k].reply.kind = "auth"
  BY RefreshReceiveDoes
<1>2. Noted(k) /\ Aged(k) /\ Served(k)
  BY DEF Grounded
<1>3. ~Carries(k)'
  BY <1>1 DEF Carries
<1>4. CASE ~Carries(k)
  <2>1. Valid' => Valid
    BY <1>1, <1>3, <1>4, ValidAside
  <2>2. Noted(k)' /\ Aged(k)'
    BY <1>1, <1>2, <1>3, <1>4 DEF Noted, Aged, Issued, Started, NoToken, Noting, Refreshing, Told
  <2>3. Served(k)'
    BY <1>1, <1>2, <1>4, <2>1 DEF Served, Noting
  <2> QED BY <1>1, <1>3, <1>4, <2>2, <2>3, GroundedAside DEF Refreshing
<1>5. CASE Carries(k)
  <2> DEFINE t == call[k].used
  <2>1. tok' = t /\ recent' /\ call'[k].pc = "save" /\ call'[k].used = t
        /\ call'[k].refreshed = call[k].refreshed
    BY <1>1, <1>5
  <2>2. t \in Some /\ Issued(t)
    BY <1>1, <1>2 DEF Shaped, Call, Refreshing, Noted
  <2>3. \A j \in Callers : j # k => call[j].pc \notin Refreshing
    BY <1>1 DEF Grounded, Holders, Refreshing
  <2>4. ASSUME Valid'
        PROVE  Valid /\ Current(uid, tok)' /\ ~expired[uid] /\ t.s = uid
    <3>1. Current(uid, tok)'
      BY <1>1, <1>3, <2>3, <2>4 DEF Valid, Carries, Refreshing
    <3>2. Current(uid, t)
      BY <1>1, <2>1, <3>1 DEF Current
    <3> QED BY <1>2, <1>5, <3>1, <3>2 DEF Valid, Aged, Current
  <2>5. ASSUME NEW j \in Callers, call[j].pc \in Noting, call[j].used.s = uid, t.s = uid
        PROVE  call[j].used.g < t.g /\ call[j].used.g <= t.g
    <3>1. tok.s = uid /\ tok.g < t.g /\ tok \in Some
      BY <1>2, <1>5, <2>2, <2>5 DEF Noted, Shaped, NoToken, Some
    <3>2. call[j].used.g <= tok.g /\ call[j].used.g \in Nat
      BY <2>5, <3>1 DEF Grounded, Noted, Shaped, Call, Some, NoToken
    <3> QED BY <2>2, <3>1, <3>2 DEF Some
  <2>6. Holders'
    BY <1>1, HoldersKept DEF Grounded, Refreshing
  <2>7. Known' /\ (recent' /\ Valid' => ~expired'[uid'])
    BY <1>1, <2>1, <2>2, <2>4 DEF Grounded, Known, Started, Issued
  <2>8. ASSUME NEW j \in Callers PROVE Noted(j)' /\ Aged(j)' /\ Served(j)'
    <3>1. CASE j = k
      <4>1. Noted(k)'
        BY <1>1, <1>2, <2>1, <1>3 DEF Noted, Issued, Started, Noting, Refreshing
      <4>2. Aged(k)' /\ Served(k)'
        BY <1>1, <1>3, <2>1, <2>4 DEF Aged, Served, Told, Noting
      <4> QED BY <3>1, <4>1, <4>2
    <3>2. CASE j # k
      <4>1. call'[j] = call[j] /\ call[j].pc \notin Refreshing /\ Noted(j) /\ Aged(j) /\ Served(j)
        BY <1>1, <2>3, <3>2 DEF Grounded
      <4>2. Noted(j)'
        BY <1>1, <2>1, <2>5, <4>1 DEF Noted, Issued, Started, Carries, Refreshing
      <4>3. ~(Told(j) /\ t.s = uid /\ call[j].used = t)
        <5>1. t.g \in Nat
          BY <2>2 DEF Some
        <5> QED BY <2>5, <4>1, <5>1 DEF Told, Noting, Refreshing
      <4>4. Aged(j)'
        BY <1>1, <2>1, <2>4, <4>1, <4>3 DEF Aged, Carries, Told, Current, Refreshing
      <4>5. Served(j)'
        BY <1>1, <2>4, <4>1 DEF Served, Refreshing
      <4> QED BY <4>2, <4>4, <4>5
    <3> QED BY <3>1, <3>2
  <2> QED BY <2>6, <2>7, <2>8 DEF Grounded
<1> QED BY <1>4, <1>5

LEMMA SaveGrounded ==
  ASSUME Shaped, Grounded, NEW k \in Callers, Save(k), UNCHANGED from
  PROVE  Grounded'
<1> USE DEF server, client, counted
<1>1. /\ UNCHANGED <<uid, tok, recent, latest, dead, expired, blank>>
      /\ store' = [uid |-> uid, tok |-> call[k].used] /\ call[k].pc = "save"
      /\ \A j \in Callers : j # k => call'[j] = call[j]
      /\ call'[k].used = NoToken
      /\ \/ call'[k].pc = "done" /\ call'[k].reply.kind = "other"
         \/ call'[k].pc = "gate" /\ call'[k].refreshed = call[k].refreshed
  BY RetryDoes DEF Save
<1>2. Noted(k) /\ Served(k) /\ Known
  BY DEF Grounded
<1>3. ~Carries(k)'
  BY <1>1 DEF Carries
<1>4. (Valid' => Valid) /\ (Current(uid, tok)' <=> Current(uid, tok))
  <2>1. Valid' => Valid
    BY <1>1, <1>3, ValidAside
  <2> QED BY <1>1, <2>1 DEF Current
<1>5. Started(store.uid)' /\ Issued(store.tok)'
  BY <1>1, <1>2 DEF Known, Noted, Started, Issued
<1>6. Noted(k)' /\ Aged(k)'
  BY <1>1, <1>2, <1>3 DEF Noted, Aged, Issued, Started, NoToken, Noting, Refreshing, Told
<1>7. Served(k)'
  BY <1>1, <1>2, <1>4 DEF Served, Noting
<1> QED BY <1>1, <1>3, <1>5, <1>6, <1>7, GroundedAside DEF Refreshing

\* The server answers, or the network breaks.
LEMMA ServerGrounded ==
  ASSUME Shaped, Grounded, NEW k \in Callers,
         Serve(k) \/ Fault(k) \/ RefuseRefresh(k), UNCHANGED from
  PROVE  Grounded'
<1> USE DEF server, client, counted
<1>1. PICK kind, d : Answer(k, kind, d) /\ kind # "tokens"
  BY DEF Serve, Fault, RefuseRefresh
<1>2. /\ UNCHANGED <<uid, tok, recent, store, latest, expired, blank>>
      /\ call[k].pc \in {"send", "rsend"} /\ \A j \in Callers : j # k => call'[j] = call[j]
      /\ call'[k].pc = IF call[k].pc = "send" THEN "reply" ELSE "rreply"
      /\ call'[k].reply.kind = kind /\ call'[k].used = call[k].used
      /\ call'[k].refreshed = call[k].refreshed
  BY <1>1, AnswerDoes DEF Serve, Fault, RefuseRefresh
<1>3. \A s \in 1..Sessions : dead[s] => dead'[s]
  BY DEF Serve, Fault, RefuseRefresh, Shaped
<1>4. Noted(k) /\ Aged(k) /\ Served(k)
  BY DEF Grounded
<1>5. ~Carries(k)'
  BY <1>1, <1>2 DEF Carries
<1>6. /\ Valid' => Valid /\ ~dead'[uid]
      /\ Current(uid, tok)' => Current(uid, tok)
      /\ Valid' /\ Current(uid, tok) => Current(uid, tok)'
  <2>1. Valid' => ~dead'[uid]
    BY <1>2 DEF Valid, Current
  <2> QED BY <1>2, <1>3, <1>5, <2>1, ValidAside
<1>7. CASE Serve(k) \/ (Fault(k) /\ call[k].pc = "send")
  <2>1. /\ call[k].pc = "send" /\ kind \notin {"auth", "tokens"}
        /\ kind = "401" => ~Current(uid, tok) \/ expired[tok.s]
    <3>1. CASE Serve(k)
      <4>1. PICK l : Answer(k, l, 0) /\ l \in {"401", "other", "ok"}
                     /\ (l = "401" => ~Current(uid, tok) \/ expired[tok.s])
        BY <3>1 DEF Serve
      <4> QED BY <1>2, <3>1, <4>1, AnswerDoes DEF Serve
    <3>2. CASE Fault(k) /\ call[k].pc = "send"
      <4>1. PICK l, e : Answer(k, l, e) /\ l \in {"429", "net"}
        BY <3>2 DEF Fault
      <4> QED BY <1>2, <3>2, <4>1, AnswerDoes
    <3> QED BY <1>7, <3>1, <3>2
  <2>2. Noted(k)'
    BY <1>2, <1>4, <1>5, <2>1 DEF Noted, Issued, Started, Noting, Refreshing
  <2>3. Aged(k)'
    BY <1>2, <1>4, <1>5, <1>6, <2>1 DEF Aged, Noting, Told, Current
  <2>4. Served(k)'
    BY <1>2, <1>4, <1>6, <2>1 DEF Served, Noting, Current
  <2> QED BY <1>2, <1>3, <1>5, <2>1, <2>2, <2>3, <2>4, GroundedAside DEF Refreshing
<1>8. CASE RefuseRefresh(k) \/ (Fault(k) /\ call[k].pc = "rsend")
  <2>1. call[k].pc = "rsend" /\ call'[k].pc = "rreply"
    BY <1>2, <1>8 DEF RefuseRefresh
  <2>2. Noted(k)'
    BY <1>2, <1>4, <1>5, <2>1 DEF Noted, Issued, Started, Noting, Refreshing
  <2>3. Aged(k)'
    BY <1>5, <2>1 DEF Aged, Noting, Told
  <2>4. Served(k)'
    <3>1. CASE Fault(k)
      <4>1. PICK l, e : Answer(k, l, e) /\ l \in {"429", "net"}
        BY <3>1 DEF Fault
      <4>2. call'[k].reply.kind # "auth"
        BY <4>1, AnswerDoes
      <4> QED BY <2>1, <4>2 DEF Served, Noting
    <3>2. CASE RefuseRefresh(k)
      <4>1. ~Current(uid, call[k].used)
        BY <3>2 DEF RefuseRefresh
      <4>2. \A j \in Callers : ~Carries(j)
        BY <2>1 DEF Grounded, Holders, Refreshing, Carries
      <4>3. ~(from[k] = uid /\ Valid /\ ~blank)
        BY <1>4, <2>1, <4>1, <4>2 DEF Served, Valid
      <4> QED BY <1>2, <1>6, <4>3 DEF Served
    <3> QED BY <1>8, <3>1, <3>2
  <2> QED BY <1>2, <1>3, <1>5, <2>1, <2>2, <2>3, <2>4, GroundedAside DEF Refreshing
<1> QED BY <1>2, <1>7, <1>8

\* The only tokens that can be rotated are those the client has.
LEMMA RotateGrounded ==
  ASSUME Shaped, Own, Grounded, NEW k \in Callers, ServeRefresh(k) \/ LoseRefresh(k),
         UNCHANGED from
  PROVE  Grounded'
<1> USE DEF server, client
<1> DEFINE t == call[k].used
<1>1. /\ UNCHANGED <<uid, tok, recent, store, dead, blank>>
      /\ call[k].pc = "rsend" /\ Current(uid, t) /\ Rotate(t)
      /\ \A j \in Callers : j # k => call'[j] = call[j]
      /\ call'[k].pc = "rreply" /\ call'[k].reply.kind # "auth"
      /\ call'[k].used.s = t.s /\ call'[k].refreshed = call[k].refreshed
      /\ \/ Carries(k)' /\ call'[k].used.g = latest[t.s] + 1
         \/ ~Carries(k)' /\ call'[k].used = t
  <2>1. CASE ServeRefresh(k)
    BY <2>1, ServeRefreshDoes DEF Carries
  <2>2. CASE LoseRefresh(k)
    <3>1. Answer(k, "net", 0) /\ call[k].pc = "rsend"
      BY <2>2 DEF LoseRefresh
    <3> QED BY <2>2, <3>1, AnswerDoes DEF LoseRefresh, Carries
  <2> QED BY <2>1, <2>2
<1>2. Noted(k) /\ Aged(k) /\ Served(k)
  BY DEF Grounded
<1>3. t = tok /\ uid = t.s /\ tok.s = uid /\ tok \in Some /\ tok.g = latest[uid] /\ uid \in 1..Sessions
  <2>1. uid = t.s /\ t.g = latest[uid] /\ t \in Some
    BY <1>1 DEF Current, Shaped, Call, Refreshing
  <2>2. t = tok
    BY <1>1, <1>2, <2>1 DEF Noted
  <2> QED BY <2>1, <2>2 DEF Some
<1>4. /\ latest[uid] \in Nat /\ latest'[uid] = latest[uid] + 1 /\ ~expired'[uid]
      /\ \A s \in 1..Sessions : s # uid => latest'[s] = latest[s] /\ expired'[s] = expired[s]
      /\ \A s \in 1..Sessions : latest[s] \in Nat /\ latest'[s] \in Nat /\ latest[s] <= latest'[s]
  BY <1>1, <1>3 DEF Rotate, Shaped
<1>5. \A j \in Callers : j # k => call[j].pc \notin Refreshing /\ ~Carries(j) /\ ~Carries(j)'
  BY <1>1 DEF Grounded, Holders, Refreshing, Carries
<1>6. Valid /\ ~Current(uid, tok)'
  BY <1>1, <1>3, <1>4 DEF Valid, Current
<1>7. \A s \in 0..Sessions : Started(s) => Started(s)'
  BY <1>4 DEF Started
<1>8. \A u \in Some \cup {NoToken} : Issued(u) => Issued(u)'
  BY <1>4 DEF Issued, Some, NoToken
<1>9. Known'
  <2>1. /\ uid \in 0..Sessions /\ store.uid \in 0..Sessions
        /\ tok \in Some \cup {NoToken} /\ store.tok \in Some \cup {NoToken}
    BY DEF Shaped
  <2>2. Started(uid)' /\ Started(store.uid)' /\ Issued(tok)' /\ Issued(store.tok)'
    BY <1>1, <1>7, <1>8, <2>1 DEF Grounded, Known, Started, Issued
  <2>3. \A s \in 1..Sessions : latest'[s] = 0 => ~expired'[s]
    BY <1>4 DEF Grounded, Known
  <2> QED BY <2>2, <2>3 DEF Known
<1>10. Holders'
  BY <1>1, HoldersKept DEF Grounded, Refreshing
<1>11. ASSUME NEW j \in Callers, j # k PROVE Noted(j)'
  <2>1. call[j].used \in Some \cup {NoToken} /\ Noted(j) /\ call'[j] = call[j]
    BY <1>1, <1>11 DEF Shaped, Call, Grounded
  <2>2. Issued(call[j].used)' /\ Started(from[j])'
    BY <1>4, <1>7, <2>1 DEF Own, Noted, Issued, Started, Some, NoToken
  <2> QED BY <1>1, <1>5, <1>11, <2>1, <2>2 DEF Noted
<1>12. Noted(k)'
  <2>1. Started(from[k])'
    BY <1>2, <1>7 DEF Own, Noted, Started
  <2>2. Issued(call[k].used)'
    BY <1>1, <1>3, <1>4 DEF Issued, Some
  <2>3. Carries(k)' => call'[k].used.s = uid /\ tok.g < call'[k].used.g
    BY <1>1, <1>3, <1>4 DEF Some
  <2> QED BY <1>1, <1>2, <1>3, <2>1, <2>2, <2>3 DEF Noted, Noting, Refreshing
<1>13. ASSUME NEW j \in Callers PROVE Aged(j)'
  <2>1. Carries(j)' => call'[j].used.s = uid
    BY <1>1, <1>3, <1>5
  <2> QED BY <1>1, <1>4, <1>6, <2>1 DEF Aged
<1>14. ASSUME NEW j \in Callers PROVE Served(j)'
  <2>1. CASE j = k
    BY <1>1, <2>1 DEF Served, Noting
  <2>2. CASE j # k
    <3>1. ~blank => expired[uid]
      BY <1>1, <1>2, <1>3 DEF Aged, Told
    <3> QED BY <1>1, <1>5, <1>6, <2>2, <3>1 DEF Grounded, Served, Refreshing
  <2> QED BY <2>1, <2>2
<1> QED BY <1>1, <1>4, <1>9, <1>10, <1>11, <1>12, <1>13, <1>14 DEF Grounded

LEMMA ApiGrounded ==
  ASSUME Typed, Grounded, NEW k \in Callers, Caller(k) \/ Network(k) \/ Faults(k),
         UNCHANGED daemon
  PROVE  Grounded'
<1>1. Shaped /\ Own /\ UNCHANGED from
  BY DEF Typed, daemon
<1>2. CASE Caller(k)
  BY <1>1, <1>2, AttemptGrounded, ReceiveGrounded, LockGrounded, RefreshReceiveGrounded,
     SaveGrounded DEF Caller
<1>3. CASE Serve(k) \/ Fault(k) \/ RefuseRefresh(k)
  BY <1>1, <1>3, ServerGrounded
<1>4. CASE ServeRefresh(k) \/ LoseRefresh(k)
  BY <1>1, <1>4, RotateGrounded
<1> QED BY <1>2, <1>3, <1>4 DEF Network, Faults

\* A client that is signed out has no tokens that could be good.
LEMMA GroundedCleared ==
  ASSUME Grounded, Shaped', uid' = 0, tok' = NoToken,
         UNCHANGED <<store, latest, expired, blank>>,
         \A j \in Callers : \/ call'[j] = call[j]
                            \/ call'[j].pc \in {"idle", "gate"} /\ call'[j].used = NoToken,
         \A j \in Callers : from'[j] \in {0, from[j]}
  PROVE  Grounded'
<1>1. ~Valid'
  <2>1. ASSUME NEW u \in Some \cup {NoToken} PROVE ~Current(0, u)'
    BY <2>1 DEF Current, Some
  <2>2. ASSUME NEW j \in Callers PROVE ~Current(uid, call[j].used)'
    <3>1. call'[j].used \in Some \cup {NoToken}
      BY DEF Shaped, Call
    <3> QED BY <3>1 DEF Current, Some
  <2>3. ~Current(uid, tok)'
    BY DEF Current
  <2> QED BY <2>2, <2>3 DEF Valid
<1>2. Known' /\ Holders'
  BY DEF Grounded, Known, Holders, Started, Issued, NoToken, Refreshing
<1>3. ASSUME NEW j \in Callers PROVE Noted(j)' /\ Aged(j)' /\ Served(j)'
  <2>1. Issued(call[j].used)' /\ Started(from[j])'
    BY DEF Grounded, Noted, Issued, Started, NoToken
  <2>2. call'[j] \in Call
    BY DEF Shaped
  <2>3. call'[j].pc \in Refreshing => call'[j].used.s # uid'
    BY <2>2 DEF Call, Some
  <2>4. call'[j].used.s = uid' => call'[j].used = NoToken
    BY <2>2 DEF Call, Some
  <2>5. Noted(j)'
    BY <2>1, <2>3, <2>4 DEF Grounded, Noted, Noting, Refreshing, Carries, NoToken
  <2>6. Aged(j)'
    BY <1>1 DEF Grounded, Aged, Valid, Carries
  <2> QED BY <1>1, <2>5, <2>6 DEF Served
<1> QED BY <1>1, <1>2, <1>3 DEF Grounded

LEMMA InitGrounded ==
  ASSUME Typed, Typed', Grounded, NEW k \in Callers,
         InitStart(k) \/ InitInfo(k) \/ InitServers(k)
  PROVE  Grounded'
<1> USE DEF client, server, counted
<1>0. call \in [Callers -> Call] /\ Awaited /\ Own /\ Shaped /\ Shaped'
  BY DEF Typed, Shaped
<1>1. /\ UNCHANGED <<recent, store, latest, dead, expired, blank>>
      /\ UNCHANGED <<uid, tok>> \/ SetSession(0, NoToken)
  <2>1. CASE InitInfo(k) /\ call[k].reply.kind = "auth"
    BY <2>1 DEF InitInfo, SetSession
  <2> QED BY <2>1 DEF InitStart, InitInfo, InitServers
<1>2. /\ \A j \in Callers : j # k => call'[j] = call[j] /\ from'[j] = from[j]
      /\ call'[k].pc \in {"idle", "gate"}
      /\ \/ call'[k].used = NoToken /\ ~call'[k].refreshed
         \/ call'[k] = call[k] /\ call[k].pc = "idle"
      /\ from'[k] \in {0, from[k], uid}
      /\ from'[k] \in {0, from[k]} \/ UNCHANGED <<uid, tok>>
  <2>1. CASE InitStart(k)
    <3>1. call[k].pc = "idle"
      BY <1>0, <2>1 DEF InitStart, Awaited
    <3>2. CASE tok = NoToken
      BY <1>0, <2>1, <3>1, <3>2 DEF InitStart, Return, Own
    <3>3. CASE tok # NoToken
      BY <1>0, <2>1, <3>3, CallBegins DEF InitStart, Own
    <3> QED BY <3>2, <3>3
  <2>2. CASE InitInfo(k) \/ InitServers(k)
    BY <1>0, <2>2, CallBegins DEF InitInfo, InitServers, Return, Own
  <2> QED BY <2>1, <2>2
<1>3. CASE SetSession(0, NoToken) /\ from'[k] \in {0, from[k]}
  BY <1>0, <1>1, <1>2, <1>3, GroundedCleared DEF SetSession
<1>4. CASE UNCHANGED <<uid, tok>>
  <2>1. ~Carries(k)' /\ ~Told(k)'
    BY <1>2 DEF Carries, Told
  <2>2. Started(from[k])'
    BY <1>1, <1>2, <1>4 DEF Grounded, Known, Noted, Started
  <2>3. Noted(k)' /\ Aged(k)' /\ Served(k)'
    BY <1>1, <1>2, <1>4, <2>1, <2>2
       DEF Grounded, Noted, Aged, Served, Issued, NoToken, Noting, Refreshing
  <2> QED BY <1>0, <1>1, <1>2, <1>4, <2>1, <2>3, GroundedAside DEF Refreshing
<1> QED BY <1>1, <1>2, <1>3, <1>4

LEMMA SignedInGrounded ==
  ASSUME Typed, Grounded, LoginAnswered
  PROVE  Grounded'
<1> USE DEF client, server, counted
<1>0. Shaped /\ Own
  BY DEF Typed
<1>1. PICK s \in 1..Sessions :
         /\ latest[s] = 0 /\ latest' = [latest EXCEPT ![s] = 1]
         /\ dead' = [dead EXCEPT ![s] = FALSE]
         /\ uid' = s /\ tok' = [s |-> s, g |-> 1]
  BY DEF LoginAnswered, SetSession
<1>2. UNCHANGED <<call, recent, store, expired, blank, from>>
  BY DEF LoginAnswered, SetSession
<1>3. /\ latest'[s] = 1 /\ ~expired[s] /\ s # 0
      /\ \A r \in 1..Sessions : r # s => latest'[r] = latest[r]
  BY <1>0, <1>1 DEF Shaped, Grounded, Known
<1>4. \A r \in 0..Sessions : Started(r) => Started(r)' /\ r # s
  BY <1>1, <1>3 DEF Started
<1>5. \A u \in Some \cup {NoToken} : Issued(u) => Issued(u)' /\ u.s # s
  BY <1>1, <1>3 DEF Issued, Some, NoToken
<1>6. Known'
  <2>1. /\ store.uid \in 0..Sessions /\ store.tok \in Some \cup {NoToken}
        /\ Started(store.uid) /\ Issued(store.tok)
    BY <1>0 DEF Shaped, Grounded, Known
  <2>2. Started(store.uid)' /\ Issued(store.tok)'
    BY <1>2, <1>4, <1>5, <2>1 DEF Started, Issued
  <2>3. Started(uid)' /\ Issued(tok)'
    BY <1>1, <1>3 DEF Started, Issued
  <2>4. \A r \in 1..Sessions : latest'[r] = 0 => ~expired'[r]
    BY <1>2, <1>3 DEF Grounded, Known
  <2> QED BY <2>2, <2>3, <2>4 DEF Known
<1>7. Holders'
  BY <1>2 DEF Grounded, Holders
<1>8. ASSUME NEW j \in Callers PROVE Noted(j)' /\ Aged(j)' /\ Served(j)'
  <2>1. /\ call[j].used \in Some \cup {NoToken} /\ from[j] \in 0..Sessions
        /\ call[j].pc \in Refreshing => call[j].used \in Some
    BY <1>0 DEF Shaped, Call, Own
  <2>2. Issued(call[j].used) /\ Started(from[j])
    BY DEF Grounded, Noted
  <2>3. call[j].used.s # s /\ from[j] # s
    BY <1>4, <1>5, <2>1, <2>2
  <2>4. Issued(call[j].used)' /\ Started(from[j])'
    BY <1>2, <1>4, <1>5, <2>1, <2>2 DEF Issued, Started
  <2>5. Noted(j)'
    BY <1>1, <1>2, <2>3, <2>4 DEF Grounded, Noted, Carries
  <2>6. Carries(j) => latest'[call[j].used.s] = latest[call[j].used.s]
    BY <1>3, <2>1, <2>3 DEF Carries, Refreshing, Some
  <2>7. Aged(j)'
    BY <1>1, <1>2, <2>3, <2>6 DEF Grounded, Aged, Carries, Told
  <2>8. Served(j)'
    BY <1>1, <1>2, <2>3 DEF Served
  <2> QED BY <2>5, <2>7, <2>8
<1> QED BY <1>1, <1>2, <1>3, <1>6, <1>7, <1>8 DEF Grounded

\* The file, the time.
LEMMA GroundedStill ==
  ASSUME Grounded, UNCHANGED <<uid, tok, call, latest, dead, expired, blank, from>>,
         recent' => recent,
         \/ store' = store
         \/ Started(store.uid)' /\ Issued(store.tok)'
  PROVE  Grounded'
<1>1. Valid' <=> Valid
  BY DEF Valid, Carries, Current
<1>2. Known' /\ Holders'
  BY DEF Grounded, Known, Holders, Started, Issued
<1>3. ASSUME NEW j \in Callers PROVE Noted(j)' /\ Aged(j)' /\ Served(j)'
  <2>1. Noted(j) /\ Aged(j) /\ Served(j)
    BY DEF Grounded
  <2>2. Noted(j)'
    BY <2>1 DEF Noted, Issued, Started, Carries
  <2>3. Aged(j)'
    BY <1>1, <2>1 DEF Aged, Carries, Told, Current
  <2>4. Served(j)'
    BY <1>1, <2>1 DEF Served, Current
  <2> QED BY <2>2, <2>3, <2>4
<1> QED BY <1>1, <1>2, <1>3 DEF Grounded

LEMMA SessionGrounded ==
  ASSUME Typed, Typed', Grounded,
         RetryInit \/ InitLocked \/ Login \/ LoginFails \/ LoginSaves \/ Logout \/ LogoutDeletes
         \/ ATick \/ UNCHANGED avars
  PROVE  Grounded'
<1> USE DEF client, server, counted, apivars
<1>1. CASE Logout
  <2>1. /\ uid' = 0 /\ tok' = NoToken
        /\ UNCHANGED <<store, latest, expired, blank, call, from>>
    BY <1>1 DEF Logout, SetSession
  <2> QED BY <2>1, GroundedCleared DEF Typed
<1>2. CASE ~Logout
  <2>1. /\ UNCHANGED <<uid, tok, call, latest, dead, expired, blank, from>>
        /\ recent' => recent
        /\ store' \in {store, [uid |-> uid, tok |-> tok], NoFile}
    BY <1>2 DEF RetryInit, InitLocked, Login, LoginFails, LoginSaves, LogoutDeletes, ATick, Pass,
                avars, Limited, EnterCooldown
  <2>2. \/ store' = store
        \/ Started(store.uid)' /\ Issued(store.tok)'
    BY <2>1 DEF Grounded, Known, Started, Issued, NoFile, NoToken
  <2> QED BY <2>1, <2>2, GroundedStill
<1> QED BY <1>1, <1>2

LEMMA RestGrounded ==
  ASSUME Typed, Grounded, Crash \/ Expiry
  PROVE  Grounded'
<1> USE DEF client, server, counted
<1>0. Shaped
  BY DEF Typed
<1>1. CASE Crash
  <2>1. /\ uid' = store.uid /\ tok' = store.tok /\ ~recent'
        /\ UNCHANGED <<store, latest, expired>>
        /\ \A k \in Callers : call'[k] = Idle /\ from'[k] = 0
    BY <1>1, AccountAssumption DEF Crash, Reload
  <2>2. Known'
    BY <2>1 DEF Grounded, Known, Started, Issued
  <2>3. \A k \in Callers : call'[k].pc = "idle" /\ call'[k].used = NoToken /\ from'[k] = 0
    BY <2>1 DEF Idle
  <2>4. Holders' /\ \A k \in Callers : Noted(k)' /\ Aged(k)' /\ Served(k)'
    BY <2>3 DEF Holders, Noted, Aged, Served, Issued, Started, Carries, Told, Noting,
                Refreshing, NoToken
  <2> QED BY <2>1, <2>2, <2>4 DEF Grounded
<1>2. CASE Expiry
  <2>1. PICK s \in 1..Sessions : Expire(s)
    BY <1>2 DEF Expiry
  <2>2. /\ latest[s] > 0 /\ ~recent /\ expired' = [expired EXCEPT ![s] = TRUE]
        /\ UNCHANGED <<uid, tok, recent, call, store, latest, dead, blank, from>>
        /\ \A k \in Callers : /\ ~call[k].refreshed /\ call[k].reply.kind # "401"
                              /\ call[k].used.s = s => call[k].used.g = latest[s]
    BY <1>2, <2>1 DEF Expire, Expiry, daemon
  <2>3. \A r \in 1..Sessions : expired'[r] = IF r = s THEN TRUE ELSE expired[r]
    BY <1>0, <2>2 DEF Shaped
  <2>4. Valid' <=> Valid
    BY <2>2 DEF Valid, Carries, Current
  <2>5. Known' /\ Holders'
    BY <2>2, <2>3 DEF Grounded, Known, Holders, Started, Issued
  <2>6. ASSUME NEW k \in Callers PROVE Noted(k)' /\ Aged(k)' /\ Served(k)'
    <3>1. Noted(k) /\ Aged(k) /\ Served(k)
      BY DEF Grounded
    <3>2. ~Carries(k) /\ ~Told(k) /\ ~Carries(k)' /\ ~Told(k)'
      BY <2>2, <3>1 DEF Noted, Carries, Told, Refreshing
    <3>3. Noted(k)'
      BY <2>2, <3>1 DEF Noted, Issued, Started, Carries
    <3>4. Aged(k)'
      <4>1. ASSUME Valid, call[k].used.s = uid, call[k].used.g < latest[uid]
            PROVE  expired'[uid] = expired[uid]
        <5>1. uid \in 1..Sessions /\ latest[uid] \in Nat
          BY <1>0, <4>1, ValidIs
        <5>2. uid # s
          BY <2>2, <4>1, <5>1
        <5> QED BY <2>3, <5>1, <5>2
      <4> QED BY <2>2, <2>4, <3>1, <3>2, <4>1 DEF Aged
    <3>5. Served(k)'
      BY <2>2, <2>4, <3>1 DEF Served
    <3> QED BY <3>3, <3>4, <3>5
  <2> QED BY <2>2, <2>5, <2>6 DEF Grounded
<1> QED BY <1>1, <1>2

LEMMA GroundedStep == Typed /\ Typed' /\ Grounded /\ [ANext]_avars => Grounded'
<1> SUFFICES ASSUME Typed, Typed', Grounded, [ANext]_avars PROVE Grounded'
  OBVIOUS
<1>1. CASE Api
  BY <1>1, ApiGrounded DEF Api
<1>2. CASE \E k \in Initiators : InitStart(k) \/ InitInfo(k) \/ InitServers(k)
  BY <1>2, InitGrounded, AccountAssumption
<1> QED BY <1>1, <1>2, SignedInGrounded, SessionGrounded, RestGrounded DEF ANext

\* No timeout, limit or server fault, and no 401 that several goroutines meet at
\* once, ends a session whose tokens are still good for something (initSession).
THEOREM TransientsSpareSession == ASpec => SessionSurvivesTransients
<1>1. ASSUME Typed, Grounded, NEW k \in Initiators, InitInfo(k), tok' # tok
      PROVE  ~Current(uid, tok) \/ from[k] # uid \/ blank
  <2>1. call[k].pc = "done" /\ call[k].reply.kind = "auth"
    BY <1>1 DEF InitInfo, client
  <2>2. k \in Callers
    BY AccountAssumption
  <2> QED BY <1>1, <2>1, <2>2 DEF Grounded, Served, Valid
<1>2. Typed /\ Grounded =>
         [\A k \in Initiators : InitInfo(k) /\ tok' # tok
            => ~Current(uid, tok) \/ from[k] # uid \/ blank]_avars
  BY <1>1
<1>3. ASpec => []Grounded
  BY GroundedInit, GroundedStep, TypedInvariant, PTL DEF ASpec
<1> QED BY <1>2, <1>3, TypedInvariant, PTL DEF SessionSurvivesTransients
=============================================================================
