------------------------------ MODULE Account ------------------------------
(***************************************************************************)
(* The daemon's account (internal/daemon/daemon.go): loading the session   *)
(* and the server list at start, its paced retries on network events,      *)
(* sign-in and sign-out by IPC, the server cache and the session file, all *)
(* through one API client (ApiClient).  Two goroutines run initSession: the *)
(* one that holds initSessionMu ("init") and the handler of a login.       *)
(* More callers than these two are the matter of ApiClient's own run.      *)
(***************************************************************************)
EXTENDS ApiClient

CONSTANTS
    InitRetryMin, InitRetryMax     \* as in daemon.go, in ticks

Initiators == {"init", "login"}

ASSUME AccountAssumption ==
    /\ Initiators = Callers
    /\ InitRetryMin \in Nat \ {0} /\ InitRetryMax \in Nat /\ InitRetryMin <= InitRetryMax
    /\ DefaultCooldown <= InitRetryMax

VARIABLES
    task,          \* where initSession is, run by "init" and by "login"
    login,         \* cmdLogin up to its initSession
    logout,        \* cmdLogout between its two parts
    list,          \* d.serverList is not empty
    cache,         \* the server cache file: "none", "fresh" or "stale"
    backoff, next, \* d.initBackoff, time to d.initNextAttempt
    from,          \* the uid the running initSession started with
    crossed        \* a session was set while a refresh, the saving of another
                   \* session or the deletion of the file was under way

daemon  == <<task, login, logout, list, cache, backoff, next, from, crossed>>
avars   == <<uid, tok, recent, cooldown, call, store, latest, dead, expired, partial,
             owed, expiries, rotations, replayed, lost, blank, faults, task, login, logout, list,
             cache, backoff, next, from, crossed>>

-----------------------------------------------------------------------------
\* A daemon with a saved session; without one initSession has nothing to do, and
\* that is the state after a logout.
AInit ==
    /\ store = [uid |-> 1, tok |-> [s |-> 1, g |-> 1]]
    /\ uid = store.uid /\ tok = store.tok /\ recent = FALSE /\ cooldown = 0
    /\ call = [k \in Callers |-> Idle]
    /\ latest = [s \in 1..Sessions |-> IF s = 1 THEN 1 ELSE 0]
    /\ dead \in {[s \in 1..Sessions |-> FALSE], [s \in 1..Sessions |-> s = 1]}
    /\ expired = [s \in 1..Sessions |-> FALSE] /\ partial = [s \in 1..Sessions |-> FALSE]
    /\ owed = 0 /\ expiries = 0 /\ rotations = 0 /\ replayed = FALSE /\ lost = FALSE
    /\ blank = FALSE /\ faults = 0
    /\ cache \in {"none", "fresh", "stale"} /\ list = (cache # "none")
    /\ task = [k \in Initiators |-> IF k = "init" THEN "start" ELSE "none"]
    /\ login = "none" /\ logout = FALSE /\ backoff = 0 /\ next = 0
    /\ from = [k \in Initiators |-> 0] /\ crossed = FALSE

-----------------------------------------------------------------------------
(* SetSession and noteInitResult *)

SetSession(u, t) ==
    /\ uid' = u /\ tok' = t
    /\ crossed' = (crossed \/ logout \/ login = "save"
                      \/ \E k \in Callers : call[k].pc \in Refreshing)
    /\ UNCHANGED <<recent, cooldown>>

Succeeded == backoff' = 0 /\ next' = 0

\* The wait doubles for ever.
Failed_Mutant(ra) ==
    LET wait == larger(ra, larger(InitRetryMin, 2 * backoff))
    IN  backoff' = wait /\ next' = wait

\* ra is what the API asked for, 0 if the failure was of another kind.
Failed(ra) ==
    LET wait == larger(ra, larger(InitRetryMin, smaller(2 * backoff, InitRetryMax)))
    IN  backoff' = wait /\ next' = wait

\* initSession returns and whoever ran it goes on: the mutex is released.
Return(k) == task' = [task EXCEPT ![k] = "none"] /\ from' = [from EXCEPT ![k] = 0]

-----------------------------------------------------------------------------
(* initSession *)

\* Without a session there is nothing to do, and that is a success.
InitStart(k) ==
    /\ task[k] = "start"
    /\ IF tok = NoToken
       THEN Return(k) /\ Succeeded /\ UNCHANGED call
       ELSE /\ Begin(k)
            /\ task' = [task EXCEPT ![k] = "vpninfo"] /\ from' = [from EXCEPT ![k] = uid]
            /\ UNCHANGED <<backoff, next>>
    /\ UNCHANGED <<client, store, server, owed, counted, login, logout, list, cache, crossed>>

\* Any failed validation ends the session.
InitInfo_Mutant(k) ==
    LET r == call[k].reply
    IN  /\ task[k] = "vpninfo" /\ call[k].pc = "done"
        /\ IF r.kind = "ok"
           THEN IF cache = "fresh"
                THEN list' = TRUE /\ Return(k) /\ Succeeded /\ Resting(k)
                ELSE /\ Begin(k) /\ task' = [task EXCEPT ![k] = "servers"]
                     /\ UNCHANGED <<list, backoff, next, from>>
           ELSE Return(k) /\ Failed(IF r.kind = "429" THEN r.d ELSE 0) /\ Resting(k) /\ UNCHANGED list
        /\ IF r.kind # "ok" THEN SetSession(0, NoToken) ELSE UNCHANGED <<client, crossed>>
        /\ UNCHANGED <<store, server, owed, counted, login, logout, cache>>

\* GetVPNInfo: a permanent error ends the session, another keeps it; a fresh
\* cache spares the second call.
InitInfo(k) ==
    LET r == call[k].reply
    IN  /\ task[k] = "vpninfo" /\ call[k].pc = "done"
        /\ IF r.kind = "ok"
           THEN IF cache = "fresh"
                THEN list' = TRUE /\ Return(k) /\ Succeeded /\ Resting(k)
                ELSE /\ Begin(k) /\ task' = [task EXCEPT ![k] = "servers"]
                     /\ UNCHANGED <<list, backoff, next, from>>
           ELSE Return(k) /\ Failed(IF r.kind = "429" THEN r.d ELSE 0) /\ Resting(k) /\ UNCHANGED list
        /\ IF r.kind = "auth" THEN SetSession(0, NoToken) ELSE UNCHANGED <<client, crossed>>
        /\ UNCHANGED <<store, server, owed, counted, login, logout, cache>>

\* GetServers: a list that is there already beats a failure.
InitServers(k) ==
    LET r == call[k].reply
    IN  /\ task[k] = "servers" /\ call[k].pc = "done"
        /\ Return(k) /\ Resting(k)
        /\ IF r.kind = "ok" THEN list' = TRUE /\ cache' = "fresh" /\ Succeeded
           ELSE /\ UNCHANGED <<list, cache>>
                /\ IF list THEN Succeeded ELSE Failed(IF r.kind = "429" THEN r.d ELSE 0)
        /\ UNCHANGED <<client, store, server, owed, counted, login, logout, crossed>>

-----------------------------------------------------------------------------
(* retryInitSessionIfStuck, on a network change or a wake-up *)

RetryInit ==
    /\ tok # NoToken /\ ~list
    /\ next = 0 /\ cooldown = 0
    /\ task["init"] = "none"
    /\ task' = [task EXCEPT !["init"] = "locked"]
    /\ UNCHANGED <<apivars, login, logout, list, cache, backoff, next, from, crossed>>

InitLocked ==
    /\ task["init"] = "locked"
    /\ task' = [task EXCEPT !["init"] = IF list THEN "none" ELSE "start"]
    /\ UNCHANGED <<apivars, login, logout, list, cache, backoff, next, from, crossed>>

-----------------------------------------------------------------------------
(* cmdLogin *)

\* The user signs in; the two requests of client.Login stop at the cooldown.
Login ==
    /\ login = "none" /\ task["login"] = "none" /\ cooldown = 0
    /\ \E s \in 1..Sessions : latest[s] = 0
    /\ login' = "asked"
    /\ UNCHANGED <<apivars, task, logout, list, cache, backoff, next, from, crossed>>

\* A new session, whose second factor may be missing.
LoginAnswered ==
    /\ login = "asked"
    /\ \E s \in 1..Sessions, short \in BOOLEAN :
          /\ latest[s] = 0 /\ \A r \in 1..(s - 1) : latest[r] > 0
          /\ latest' = [latest EXCEPT ![s] = 1]
          /\ dead' = [dead EXCEPT ![s] = FALSE]
          /\ partial' = [partial EXCEPT ![s] = short]
          /\ SetSession(s, [s |-> s, g |-> 1])
          /\ login' = IF short THEN "none" ELSE "save"
    /\ UNCHANGED <<call, store, expired, owed, counted, task, logout, list, cache, backoff,
                   next, from>>

LoginFails ==
    /\ login = "asked"
    /\ login' = "none"
    /\ \/ UNCHANGED <<cooldown, owed, faults>>
       \/ /\ Quiet /\ faults' = faults + 1
          /\ \E d \in RetryAfters : Limited(d)
    /\ UNCHANGED <<uid, tok, recent, call, store, server, expiries, rotations, replayed, lost, blank,
                   task, logout, list, cache, backoff, next, from, crossed>>

LoginSaves ==
    /\ login = "save"
    /\ store' = [uid |-> uid, tok |-> tok]
    /\ login' = "none" /\ task' = [task EXCEPT !["login"] = "start"]
    /\ UNCHANGED <<client, call, server, owed, counted, logout, list, cache, backoff, next,
                   from, crossed>>

-----------------------------------------------------------------------------
(* cmdLogout *)

Logout ==
    /\ tok # NoToken /\ ~logout
    /\ SetSession(0, NoToken) /\ list' = FALSE /\ logout' = TRUE
    /\ UNCHANGED <<call, store, server, owed, counted, task, login, cache, backoff, next,
                   from>>

LogoutDeletes ==
    /\ logout
    /\ store' = NoFile /\ logout' = FALSE
    /\ UNCHANGED <<client, call, server, owed, counted, task, login, list, cache, backoff, next,
                   from, crossed>>

-----------------------------------------------------------------------------
(* Time, and the end of the process *)

ATick ==
    /\ recent \/ cooldown > 0 \/ next > 0 \/ owed > 0 \/ cache = "fresh"
    /\ Pass /\ next' = Less(next)
    /\ cache' \in {cache, IF cache = "fresh" THEN "stale" ELSE cache}
    /\ UNCHANGED <<uid, tok, call, store, server, counted, task, login, logout, list, backoff,
                   from, crossed>>

\* The daemon is killed and started again; Run seeds the list from the cache.
Crash ==
    /\ Reload
    /\ list' = (cache # "none") /\ backoff' = 0 /\ next' = 0
    /\ task' = [k \in Initiators |-> IF k = "init" THEN "start" ELSE "none"]
    /\ from' = [k \in Initiators |-> 0] /\ login' = "none" /\ logout' = FALSE
    /\ UNCHANGED <<cache, crossed>>

-----------------------------------------------------------------------------
Api == \E k \in Callers : (Caller(k) \/ Network(k) \/ Faults(k)) /\ UNCHANGED daemon

Expiry == (\E s \in 1..Sessions : Expire(s)) /\ UNCHANGED daemon

ANext ==
    \/ Api \/ Expiry
    \/ \E k \in Initiators : InitStart(k) \/ InitInfo(k) \/ InitServers(k)
    \/ RetryInit \/ InitLocked
    \/ Login \/ LoginAnswered \/ LoginFails \/ LoginSaves \/ Logout \/ LogoutDeletes
    \/ ATick \/ Crash

ASpec == AInit /\ [][ANext]_avars

-----------------------------------------------------------------------------
(* Properties *)

\* Types; initSession waits for a call exactly while one of its goroutine is
\* under way; a wait before the next attempt is never longer than the limit or
\* what the API asked for, however many attempts failed (noteInitResult).
ATypeOK ==
    /\ uid \in 0..Sessions /\ tok \in Token /\ store \in [uid : 0..Sessions, tok : Token]
    /\ recent \in BOOLEAN /\ cooldown \in 0..MaxCooldown /\ owed \in 0..MaxCooldown
    /\ login \in {"none", "asked", "save"} /\ logout \in BOOLEAN
    /\ list \in BOOLEAN /\ cache \in {"none", "fresh", "stale"}
    /\ \A k \in Initiators :
          /\ task[k] \in {"none", "locked", "start", "vpninfo", "servers"}
          /\ call[k].pc = "idle" <=> task[k] \in {"none", "locked", "start"}
    /\ \A w \in {backoff, next} : w <= InitRetryMax \/ \E d \in RetryAfters : w <= d

\* initSession ends a session only when its tokens are good for nothing any
\* more: not for a timeout, a limit or a server fault, and not because several
\* goroutines met the same 401 (initSession, "Transient errors ... should NOT
\* destroy the session").  It may end the session of a login that came while it
\* ran, and of a call that set out without tokens.
SessionSurvivesTransients ==
    [][\A k \in Initiators : InitInfo(k) /\ tok' # tok
          => ~Current(uid, tok) \/ from[k] # uid \/ blank]_avars

\* Whenever no refresh, login or logout is between its two halves, the session
\* file has the very tokens of the client, so that a restart goes on with them;
\* a login that lacks its second factor is not saved.  And they are the latest,
\* never spent ones, but for an answer that is on its way or was lost.  Two of
\* these that overlap may leave anything (SetSession has no lock in common with
\* them).
StoreFollowsClient ==
    (/\ \A k \in Callers : call[k].pc # "save"
     /\ login # "save" /\ ~logout /\ tok # NoToken /\ ~crossed)
        => /\ uid = tok.s /\ (partial[tok.s] \/ store = [uid |-> uid, tok |-> tok])
           /\ tok.g = latest[tok.s] \/ lost \/ \E k \in Callers : call[k].pc = "rreply"
=============================================================================
