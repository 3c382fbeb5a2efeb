------------------------------ MODULE FmgClient ------------------------------
(***************************************************************************)
(* What a call of the FortiManager client can come to (fmg/client.py).     *)
(* An answer says how the call ended and whether the client holds a        *)
(* session afterwards:                                                     *)
(*   "ok"  data;  "fmg"  an FmgError, which callers catch;                 *)
(*   "raw" any other exception: HTTP status, broken JSON, network.         *)
(* The FortiManager may end a session at any time.                         *)
(***************************************************************************)
EXTENDS Naturals

AuthModes == {"token", "session"}
Attempts == 3       \* rpc: range(3)

Answer(res, open) == [res |-> res, open |-> open]

\* _login: only its own exceptions are FmgErrors, those of the network pass through.
LoginFails == {Answer("fmg", FALSE), Answer("raw", FALSE)}

\* The attempts of rpc, with a session if the mode needs one: each may be the last.  A lost
\* session is renewed on the first one alone; network errors are tried again.
Tried(mode) ==
    LET open == mode = "session"
        Ends(n) == {Answer(res, open) : res \in {"ok", "fmg", "raw"}}
                   \cup (IF open /\ n = 0 THEN LoginFails ELSE {})
    IN UNION {Ends(n) : n \in 0..Attempts - 1}

\* rpc(): without a session the client logs in first.
Rpc(mode, open) == Tried(mode) \cup (IF mode = "session" /\ ~open THEN LoginFails ELSE {})

\* logout() and close(): an FmgError is passed over, an error of the network is not.
Close(open) == {Answer("ok", FALSE)} \cup (IF open THEN {Answer("raw", TRUE)} ELSE {})
==============================================================================
