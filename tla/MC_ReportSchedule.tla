--------------------------- MODULE MC_ReportSchedule ---------------------------
(* Instances of ReportSchedule for TLC: one step of the clock is a quarter of a week. *)
EXTENDS ReportSchedule

CONSTANTS w1, w2
OneWorker  == {w1}
TwoWorkers == {w1, w2}

TwoDays  == {0, 2}      \* e.g. Friday and, half a week later, Tuesday

\* Local time is fixed, so from the change to winter time on every slot is late by
\* one unit, from the change to summer time on early by one.
Calendar(phases, change, shift) ==
    [p \in phases |-> {s \in -4..16 : (s - p - (IF s >= change THEN shift ELSE 0)) % 4 = 0}]

SummerAndTwoDays  == Calendar(TwoDays, 5, -1)

Holidays == {<<1, 6>>}
(***************************************************************************)
(* Two scenes.  One worker runs over three slots, with changes of the      *)
(* settings and of the clock.  Two workers run over the first two slots    *)
(* with the settings left alone: beyond that a worker that waits for the   *)
(* lock holds windows that are out of date (see the README).               *)
(***************************************************************************)
VARIABLE active   \* the workers of the scene

Mishaps == used.manual + used.delete + used.setting + used.fault + used.crash
MaxMishaps == 3

SceneInit == Init /\ active \in {OneWorker, TwoWorkers}

SceneNext ==
    /\ \/ \E w \in active : Task(w) \/ Crash(w)
       \/ ManualRun
       \/ Delete
       \/ active = OneWorker /\ ChangeSchedule
       \/ (active = OneWorker \/ now < Week) /\ Tick
    /\ Mishaps' <= MaxMishaps
    /\ UNCHANGED active

SceneVars == <<vars, active>>
ScenesSpec ==
    /\ SceneInit /\ [][SceneNext]_SceneVars
    /\ \A w \in Worker : WF_SceneVars(w \in active /\ Task(w) /\ UNCHANGED active)
================================================================================
