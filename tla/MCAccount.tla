----------------------------- MODULE MCAccount -----------------------------
(* The goroutine that restores the session and the handler of a login, a     *)
(* session saved by an earlier process and one more, one trouble.            *)
EXTENDS Account
=============================================================================
