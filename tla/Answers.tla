-------------------------------- MODULE Answers --------------------------------
(***************************************************************************)
(* Everything that answers a question from what it reads, side by side:    *)
(* the specification the theorems about these handlers are stated for.     *)
(* The question is any question; MC_Requests gives TLC some of them.       *)
(***************************************************************************)
EXTENDS Switches, SwitchTree, Services, Sheets, PlanRequest, Ipam

AnswersNext == SwitchesNext \/ Draw \/ ServicesNext \/ SheetsNext \/ PlanRequestNext \/ IpamNext
AnswersSpec == reply = None /\ [][AnswersNext]_requestVars
================================================================================
