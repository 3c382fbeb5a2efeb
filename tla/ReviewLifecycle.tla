-------------------------- MODULE ReviewLifecycle --------------------------
(***************************************************************************)
(* What the review of proposals promises to the admins, without handlers,  *)
(* tables or retries: the life of a run of dns_sync_run.  A request to     *)
(* release or discard a run gets a claim on it while it is open; rows take *)
(* effect in iTop under a claim only, a claim closes the run once at most, *)
(* a new list supersedes open ones only, and no run opens again.           *)
(***************************************************************************)
EXTENDS Integers, FiniteSets

CONSTANTS RunId, Addr, Reviewer

VARIABLES state,    \* state[r]: where run r stands
          effect,   \* the rows <<run, address>> that took effect in iTop
          claim     \* the claims <<reviewer, run>> on runs that were open

vars == <<state, effect, claim>>

Closing == {"applied", "partial", "failed", "discarded"}

Init == state = [r \in RunId |-> "none"] /\ effect = {} /\ claim = {}

\* A new list replaces open ones, those it sees.
OpenRun(r) ==
    /\ state[r] = "none"
    /\ \E old \in SUBSET {s \in RunId : state[s] = "open"} :
          state' = [s \in RunId |-> IF s = r THEN "open"
                                    ELSE IF s \in old THEN "superseded" ELSE state[s]]
    /\ UNCHANGED <<effect, claim>>

\* One claim at a time for each reviewer, on an open list.
Claim(x, r) ==
    /\ state[r] = "open" /\ \A c \in claim : c[1] # x
    /\ claim' = claim \cup {<<x, r>>}
    /\ UNCHANGED <<state, effect>>

\* A row of the claimed list is written, open still or not.
Write(x, r, a) ==
    /\ <<x, r>> \in claim
    /\ effect' = effect \cup {<<r, a>>}
    /\ UNCHANGED <<state, claim>>

\* The claimed list is decided, by the last one who does.
Close(x, r, s) ==
    /\ <<x, r>> \in claim
    /\ state' = [state EXCEPT ![r] = s]
    /\ claim' = claim \ {<<x, r>>}
    /\ UNCHANGED effect

\* Claims are given up without a decision.
Drop ==
    /\ claim' \in SUBSET claim
    /\ UNCHANGED <<state, effect>>

Next == \/ \E r \in RunId : OpenRun(r)
        \/ \E x \in Reviewer, r \in RunId :
              \/ Claim(x, r)
              \/ \E a \in Addr : Write(x, r, a)
              \/ \E s \in Closing : Close(x, r, s)
        \/ Drop

Spec == Init /\ [][Next]_vars
=============================================================================
