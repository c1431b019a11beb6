-------------------------------- MODULE Ipc --------------------------------
(***************************************************************************)
(* ipc.Client (internal/ipc/client.go): one Unix socket that carries the   *)
(* answers to commands and the events the daemon pushes, in one order.     *)
(*                                                                         *)
(* A command is a goroutine in Do: it waits for c.mu, writes the request   *)
(* and keeps the lock until it has an answer.  readLoop is the only        *)
(* reader: it hands an answer to respCh and calls EventHandler itself, so  *)
(* an event holds up everything behind it.  The answer is passed on by     *)
(* the goroutine of the command, which has no order with later events.     *)
(*                                                                         *)
(* At most one command of a kind waits for the lock: a second of the same  *)
(* kind would send the same request again after it.                        *)
(***************************************************************************)
EXTENDS Sequences, FiniteSets

VARIABLES
    waiting,   \* kinds of command whose goroutine waits for c.mu
    doing,     \* the command that holds c.mu, or "none"
    req,       \* the request the daemon has not answered yet, or "none"
    sock,      \* lines from the daemon readLoop has not read yet
    link       \* "up", or "lost" once the daemon's end is gone

ipcVars == <<waiting, doing, req, sock, link>>

Event(v)        == [line |-> "event", kind |-> "state-changed", value |-> v]
Response(k, v)  == [line |-> "response", kind |-> k, value |-> v]
Responds(frame) == frame.line = "response"

InitIpc ==
    /\ waiting = {} /\ doing = "none" /\ req = "none"
    /\ sock = <<>> /\ link = "up"

\* Do takes c.mu and writes the request: the command now waits on respCh.
Send_Mutant(k) ==
    /\ k \in waiting /\ link = "up" /\ req = "none"
    /\ waiting' = waiting \ {k} /\ doing' = k /\ req' = k
    /\ UNCHANGED <<sock, link>>
Send(k) ==
    /\ k \in waiting /\ doing = "none" /\ link = "up"
    /\ waiting' = waiting \ {k} /\ doing' = k /\ req' = k
    /\ UNCHANGED <<sock, link>>

\* Do takes c.mu and cannot write: it returns the error.
SendFails(k) ==
    /\ k \in waiting /\ doing = "none" /\ link = "lost"
    /\ waiting' = waiting \ {k}
    /\ UNCHANGED <<doing, req, sock, link>>

\* readLoop passes a response to the command that holds c.mu.
Receive ==
    /\ sock # <<>> /\ Responds(Head(sock))
    /\ sock' = Tail(sock) /\ doing' = "none"
    /\ UNCHANGED <<waiting, req, link>>

\* readLoop takes an event off the socket.
Pop ==
    /\ sock # <<>> /\ ~Responds(Head(sock))
    /\ sock' = Tail(sock)
    /\ UNCHANGED <<doing, req, link>>

\* readLoop fails with everything read: a nil response unblocks Do.
Eof_Mutant ==
    /\ link = "lost" /\ sock = <<>> /\ doing # "none"
    /\ UNCHANGED ipcVars
Eof ==
    /\ link = "lost" /\ sock = <<>> /\ doing # "none"
    /\ doing' = "none"
    /\ UNCHANGED <<waiting, req, sock, link>>

\* handleClient writes the lines a command produced, the answer last.
Answer(frames) ==
    /\ req # "none" /\ link = "up"
    /\ sock' = sock \o frames
    /\ req' = "none"
    /\ UNCHANGED <<waiting, doing, link>>

\* broadcast writes an event from any goroutine of the daemon.
Push(frames) ==
    /\ sock' = IF link = "up" THEN sock \o frames ELSE sock
    /\ UNCHANGED <<waiting, doing, req, link>>

\* The daemon's process ends and its end of the socket with it.
Lose ==
    /\ link = "up" /\ link' = "lost" /\ req' = "none"
    /\ UNCHANGED <<waiting, doing, sock>>

\* Where in the socket answers are.
Responses == {i \in DOMAIN sock : Responds(sock[i])}
=============================================================================
