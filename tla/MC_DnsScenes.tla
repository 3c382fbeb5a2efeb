---------------------------- MODULE MC_DnsScenes ----------------------------
EXTENDS MC_DnsSync

(***************************************************************************)
(* Two scenes of lists that are made and reviewed at the same time.  Two   *)
(* admins work on two lists while everything answers, or two workers'      *)
(* schedulers and one admin make lists while one of the workers crashes.   *)
(***************************************************************************)
VARIABLE acting   \* the actors of the scene

SceneInit == Init /\ acting \in {TwoAdmins} \cup {{a} \cup TwoWorkers : a \in TwoAdmins}

SceneNext ==
    /\ Next
    /\ \A x \in Actor \ acting : pc'[x] = "idle"
    /\ acting = TwoAdmins => crashes' = 0
    /\ UNCHANGED acting

ScenesSpec == SceneInit /\ [][SceneNext]_<<vars, acting>>
=============================================================================
