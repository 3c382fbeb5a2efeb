------------------------------- MODULE Requests -------------------------------
(***************************************************************************)
(* Request handlers that only read: a question, with what the handler      *)
(* finds in the tables it reads (the inventory, LibreNMS, the database),   *)
(* is answered once.  Switches, SwitchTree, NetPlan, Drawings, PlanRequest *)
(* and Ipam extend this module; each adds the actions of its handlers.     *)
(***************************************************************************)

VARIABLES asked, reply

requestVars == <<asked, reply>>

None == [kind |-> "none"]

\* asked = [kind |-> ..., the tables as the handler reads them]; reply likewise.
Pending(kind) == asked.kind = kind /\ reply = None
Give(r) == reply' = r /\ UNCHANGED asked
=============================================================================
