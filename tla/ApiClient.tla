----------------------------- MODULE ApiClient -----------------------------
(***************************************************************************)
(* The Proton API client (internal/api/client.go): doRequest with its      *)
(* retries, the rate-limit cooldown, and the refresh of single-use tokens  *)
(* under refreshMu.  A caller is a goroutine inside doRequest.  The server *)
(* is external: it hands out sessions, lets access tokens expire, rotates  *)
(* a refresh token once, takes a second use of it for a theft, limits and  *)
(* fails.  Both tokens of a pair come and go together and are one value.   *)
(***************************************************************************)
EXTENDS Naturals, FiniteSets

CONSTANTS
    Callers,
    MaxRetries,        \* as in client.go, smaller
    RetryAfters,       \* Retry-After a 429 may carry; 0 for none or unusable
    DefaultCooldown, MaxCooldown,
    Sessions,          \* bound: sessions the server ever opens
    MaxTroubles        \* bound: expiries of a token, limits, network failures
                       \* and restarts

ASSUME ApiAssumption ==
    /\ MaxRetries \in Nat /\ MaxTroubles \in Nat
    /\ RetryAfters \subseteq Nat /\ Sessions \in Nat \ {0}
    /\ DefaultCooldown \in Nat \ {0} /\ MaxCooldown \in Nat
    /\ DefaultCooldown <= MaxCooldown

VARIABLES
    uid,               \* c.uid: a session, 0 for ""
    tok,               \* c.accessToken and c.refreshToken
    recent,            \* less than minRefreshInterval since lastRefresh
    cooldown,          \* time to rateLimitedUntil
    call,              \* the goroutines in doRequest
    store,             \* the session file OnTokenRefresh writes
    latest,            \* the server: generation of each session's tokens,
    dead, expired,     \* revoked sessions, sessions whose access token expired
    partial,           \* sessions that still lack the second factor
    owed,              \* time the server asked to be left alone, as far as told
    expiries, rotations, faults,
    replayed,          \* the server saw a spent token
    lost,              \* rotated tokens never got home
    blank              \* a call set out without tokens

client  == <<uid, tok, recent, cooldown>>
server  == <<latest, dead, expired, partial>>
counted == <<expiries, rotations, replayed, lost, blank, faults>>

apivars == <<uid, tok, recent, cooldown, call, store, latest, dead, expired, partial,
             owed, expiries, rotations, replayed, lost, blank, faults>>

Token   == [s : 0..Sessions, g : Nat]
NoToken == [s |-> 0, g |-> 0]
NoFile  == [uid |-> 0, tok |-> NoToken]

Reply(kind, d) == [kind |-> kind, d |-> d]

Idle == [pc |-> "idle", used |-> NoToken, refreshed |-> FALSE, attempt |-> 0,
         reply |-> Reply("none", 0)]

Refreshing == {"rsend", "rreply", "save"}       \* holding refreshMu

larger(a, b)  == IF a < b THEN b ELSE a
smaller(a, b) == IF a < b THEN a ELSE b

-----------------------------------------------------------------------------
(* Cooldown *)

Clamped(d) == smaller(IF d = 0 THEN DefaultCooldown ELSE d, MaxCooldown)

\* The last response wins.
EnterCooldown_Mutant(d) == cooldown' = Clamped(d)

\* enterCooldown: a shorter one does not replace a longer one.
EnterCooldown(d) == cooldown' = larger(cooldown, Clamped(d))

\* How a 429 is reported, and what the server may count on from then.
Limited(d) ==
    /\ EnterCooldown(d)
    /\ owed' = larger(owed, Clamped(d))

-----------------------------------------------------------------------------
(* doRequest *)

Begin(k) == call' = [call EXCEPT ![k] = [Idle EXCEPT !.pc = "gate"]]

Done(k, kind, d) == call' = [call EXCEPT ![k] = [Idle EXCEPT !.pc = "done", !.reply = Reply(kind, d)]]

\* The loop goes round, or "max retries exceeded".
Retry(k) ==
    IF call[k].attempt = MaxRetries THEN Done(k, "other", 0)
    ELSE call' = [call EXCEPT ![k] = [Idle EXCEPT !.pc = "gate", !.attempt = call[k].attempt + 1,
                                                  !.refreshed = call[k].refreshed]]

\* The token is noted, then the cooldown is looked at.
Attempt(k) ==
    /\ call[k].pc = "gate"
    /\ IF cooldown > 0 THEN Done(k, "429", cooldown)
       ELSE call' = [call EXCEPT ![k].pc = "send", ![k].used = tok]
    /\ blank' = (blank \/ (cooldown = 0 /\ tok = NoToken))
    /\ UNCHANGED <<client, store, server, owed, expiries, rotations, replayed, lost, faults>>

Receive(k) ==
    LET r == call[k].reply
    IN  /\ call[k].pc = "reply"
        /\ CASE r.kind = "net" -> Retry(k)
             [] r.kind = "401" /\ ~call[k].refreshed ->
                  call' = [call EXCEPT ![k] = [@ EXCEPT !.pc = "lock", !.refreshed = TRUE,
                                                        !.reply = Reply("none", 0)]]
             [] r.kind = "401" /\ call[k].refreshed -> Done(k, "auth", 0)
             [] r.kind = "429" -> Done(k, "429", IF r.d = 0 THEN DefaultCooldown ELSE r.d)
             [] OTHER -> Done(k, r.kind, 0)
        /\ IF r.kind = "429" THEN Limited(r.d) ELSE UNCHANGED <<cooldown, owed>>
        /\ UNCHANGED <<uid, tok, recent, store, server, counted>>

-----------------------------------------------------------------------------
(* refreshTokens *)

\* refreshTokens without refreshMu.
MutexFree_Mutant == TRUE

MutexFree == \A j \in Callers : call[j].pc \notin Refreshing

\* The tokens are read and, past the cooldown, sent off.
Refresh(k) ==
    IF tok = NoToken THEN Done(k, "other", 0)
    ELSE IF cooldown > 0 THEN Done(k, "429", cooldown)
    ELSE call' = [call EXCEPT ![k] = [@ EXCEPT !.pc = "rsend", !.used = tok]]

\* A goroutine that waited for the mutex does not look who had it.
Lock_Mutant(k) ==
    /\ call[k].pc = "lock" /\ MutexFree
    /\ IF recent THEN Retry(k) ELSE Refresh(k)
    /\ UNCHANGED <<client, store, server, owed, counted>>

\* Nothing is refreshed when another goroutine did, or when one just did.
Lock(k) ==
    LET stale == call[k].used # NoToken /\ tok # call[k].used
    IN  /\ call[k].pc = "lock" /\ MutexFree
        /\ IF stale \/ recent THEN Retry(k) ELSE Refresh(k)
        /\ UNCHANGED <<client, store, server, owed, counted>>

\* Whatever tokens there are now, the new ones replace them.
RefreshReceive(k) ==
    LET r == call[k].reply
    IN  /\ call[k].pc = "rreply"
        /\ IF r.kind = "tokens"
           THEN /\ tok' = call[k].used /\ recent' = TRUE
                /\ call' = [call EXCEPT ![k].pc = "save"]
           ELSE /\ CASE r.kind = "429" -> Done(k, "429", IF r.d = 0 THEN DefaultCooldown ELSE r.d)
                     [] r.kind = "auth" -> Done(k, "auth", 0)
                     [] OTHER -> Done(k, "other", 0)
                /\ UNCHANGED <<tok, recent>>
        /\ IF r.kind = "429" THEN Limited(r.d) ELSE UNCHANGED <<cooldown, owed>>
        /\ UNCHANGED <<uid, store, server, counted>>

\* The rotated tokens stay in memory.
Save_Mutant(k) ==
    /\ call[k].pc = "save"
    /\ Retry(k)
    /\ UNCHANGED <<client, store, server, owed, counted>>

\* OnTokenRefresh (cmd/pvpnd/main.go) writes the file under the uid of now.
Save(k) ==
    /\ call[k].pc = "save"
    /\ store' = [uid |-> uid, tok |-> call[k].used]
    /\ Retry(k)
    /\ UNCHANGED <<client, server, owed, counted>>

-----------------------------------------------------------------------------
(* The server, external *)

Current(u, t) == t # NoToken /\ u = t.s /\ ~dead[t.s] /\ t.g = latest[t.s]

Quiet == expiries + faults < MaxTroubles

Answer(k, kind, d) ==
    call' = [call EXCEPT ![k].pc = IF @ = "send" THEN "reply" ELSE "rreply",
                         ![k].reply = Reply(kind, d)]

\* The request leaves with the tokens of this moment.  One that arrives after
\* they were rotated is answered like one whose token had expired.
Serve(k) ==
    /\ call[k].pc = "send"
    /\ Answer(k, IF ~Current(uid, tok) \/ expired[tok.s] THEN "401"
                 ELSE IF partial[tok.s] THEN "other" ELSE "ok", 0)
    /\ UNCHANGED <<client, store, server, owed, counted>>

\* A limit, or a broken connection; a 503 is retried like one.
Fault(k) ==
    /\ call[k].pc \in {"send", "rsend"} /\ Quiet
    /\ faults' = faults + 1
    /\ \/ \E d \in RetryAfters : Answer(k, "429", d)
       \/ Answer(k, "net", 0)
    /\ UNCHANGED <<client, store, server, owed, expiries, rotations, replayed, lost, blank>>

\* Tokens rotate once.
Rotate(t) ==
    /\ latest' = [latest EXCEPT ![t.s] = @ + 1]
    /\ expired' = [expired EXCEPT ![t.s] = FALSE]
    /\ rotations' = rotations + 1

ServeRefresh(k) ==
    LET t == call[k].used
    IN  /\ call[k].pc = "rsend" /\ Current(uid, t)
        /\ Rotate(t)
        /\ call' = [call EXCEPT ![k] = [@ EXCEPT !.pc = "rreply", !.reply = Reply("tokens", 0),
                                                 !.used.g = latest[t.s] + 1]]
        /\ UNCHANGED <<client, store, dead, partial, owed, expiries, replayed, lost, blank, faults>>

\* The tokens were rotated and the answer never came.
LoseRefresh(k) ==
    LET t == call[k].used
    IN  /\ call[k].pc = "rsend" /\ Quiet /\ Current(uid, t)
        /\ Rotate(t)
        /\ Answer(k, "net", 0)
        /\ faults' = faults + 1 /\ lost' = TRUE
        /\ UNCHANGED <<client, store, dead, partial, owed, expiries, replayed, blank>>

\* A spent token, a dead session or the wrong session: code 10013.
RefuseRefresh(k) ==
    LET t == call[k].used
    IN  /\ call[k].pc = "rsend" /\ ~Current(uid, t)
        /\ Answer(k, "auth", 0)
        /\ IF t.g < latest[t.s]
           THEN /\ replayed' = TRUE
                /\ dead' \in {dead, [dead EXCEPT ![t.s] = TRUE]}
           ELSE UNCHANGED <<replayed, dead>>
        /\ UNCHANGED <<client, store, latest, expired, partial, owed, expiries, rotations, lost, blank, faults>>

\* An access token lives for hours: the calls that met the last expiry are over,
\* and so are those that set out with the tokens before it.
Expire(s) ==
    /\ Quiet /\ latest[s] > 0 /\ ~expired[s]
    /\ ~recent
    /\ \A k \in Callers :
          /\ ~call[k].refreshed /\ call[k].reply.kind # "401"
          /\ call[k].used.s = s => call[k].used.g = latest[s]
    /\ expired' = [expired EXCEPT ![s] = TRUE] /\ expiries' = expiries + 1
    /\ UNCHANGED <<client, call, store, latest, dead, partial, owed, rotations, replayed, lost, blank, faults>>

-----------------------------------------------------------------------------
(* The client by itself: callers come and go, time passes, the process is    *)
(* killed and started again.                                                 *)

Less(n) == IF n = 0 THEN 0 ELSE n - 1

Pass == recent' = FALSE /\ cooldown' = Less(cooldown) /\ owed' = Less(owed)

Resting(k) == call' = [call EXCEPT ![k] = Idle]

ApiInit ==
    /\ uid = 1 /\ tok = [s |-> 1, g |-> 1] /\ store = [uid |-> 1, tok |-> [s |-> 1, g |-> 1]]
    /\ recent = FALSE /\ cooldown = 0 /\ owed = 0
    /\ call = [k \in Callers |-> Idle]
    /\ latest = [s \in 1..Sessions |-> IF s = 1 THEN 1 ELSE 0]
    /\ dead = [s \in 1..Sessions |-> FALSE] /\ expired = [s \in 1..Sessions |-> FALSE]
    /\ partial = [s \in 1..Sessions |-> FALSE]
    /\ expiries = 0 /\ rotations = 0 /\ faults = 0
    /\ replayed = FALSE /\ lost = FALSE /\ blank = FALSE

Start(k) ==
    /\ call[k].pc = "idle"
    /\ Begin(k)
    /\ UNCHANGED <<client, store, server, owed, counted>>

End(k) ==
    /\ call[k].pc = "done"
    /\ Resting(k)
    /\ UNCHANGED <<client, store, server, owed, counted>>

Tick ==
    /\ recent \/ cooldown > 0 \/ owed > 0
    /\ Pass
    /\ UNCHANGED <<uid, tok, call, store, server, counted>>

\* A restart forgets a cooldown, and tokens that were not saved.
Reload ==
    /\ Quiet /\ faults' = faults + 1
    /\ uid' = store.uid /\ tok' = store.tok /\ recent' = FALSE /\ cooldown' = 0 /\ owed' = 0
    /\ call' = [k \in Callers |-> Idle]
    /\ lost' = (lost \/ (store.tok # NoToken /\ store.tok.g # latest[store.tok.s]))
    /\ UNCHANGED <<store, server, expiries, rotations, replayed, blank>>

Caller(k) == Attempt(k) \/ Receive(k) \/ Lock(k) \/ RefreshReceive(k) \/ Save(k)

Network(k) == Serve(k) \/ ServeRefresh(k) \/ RefuseRefresh(k)

Faults(k) == Fault(k) \/ LoseRefresh(k)

ApiNext ==
    \/ \E k \in Callers : Start(k) \/ Caller(k) \/ Network(k) \/ Faults(k) \/ End(k)
    \/ \E s \in 1..Sessions : Expire(s)
    \/ Tick \/ Reload

ApiSpec == ApiInit /\ [][ApiNext]_apivars

-----------------------------------------------------------------------------
(* Properties *)

\* However many calls meet a 401 at once, an access token that expired is
\* replaced once: the others find the new one (refreshTokens, "This mutex makes
\* refresh single-flight").  A call that set out without tokens, and met a
\* login, cannot tell and may spend one more.
RefreshOncePerExpiry == blank \/ rotations <= expiries

\* The server never sees a refresh token again that it has rotated, unless the
\* new one was lost on its way: in the network, or with the process before the
\* session file was written (refreshTokens, OnTokenRefresh).
SpentTokenNotReplayed == replayed => lost

\* As soon as one caller has been told to stay away, no other call starts
\* towards the server before the time the server asked for, up to the limit
\* the client sets itself, has passed: not after a shorter request either
\* (doSingleRequest, enterCooldown).
CooldownHonoured ==
    [][\A k \in Callers : /\ call[k].pc = "gate" /\ call'[k].pc = "send" => owed = 0
                          /\ call[k].pc = "lock" /\ call'[k].pc = "rsend" => owed = 0]_apivars
=============================================================================
