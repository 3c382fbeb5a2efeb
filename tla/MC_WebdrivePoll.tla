--------------------------- MODULE MC_WebdrivePoll ---------------------------
(* Instances of WebdrivePoll for TLC. *)
EXTENDS WebdrivePoll

CONSTANTS task, reload, narrow, wide, line, ann, ta, oa

OneTask   == {task}
OneReload == {reload}
None      == {}

\* A plain line, made an event by the second parser only.  One setting finds it by
\* its one query, the other by the second of its two queries.
OneLine     == {line}
TwoSettings == {narrow, wide}
Regrouped == [s \in TwoSettings |-> IF s = wide THEN {OneLine} ELSE {{}, OneLine}]
NewerParser  == [m \in OneLine |-> 2]
PlainLogin   == [m \in OneLine |-> NoUser]
PlainToken   == [m \in OneLine |-> NoToken]
PlainSession == [m \in OneLine |-> NoOpaque]

Users  == {ann}
Tokens == {ta}
Ids    == {oa}

(***************************************************************************)
(* Two scenes.  Besides the restart that brings the newer parser, before   *)
(* which no line is wanted, the task alone meets a failure or a change of  *)
(* the queries at any time, task and reload side by side one as long as    *)
(* the line is not older than a run looks back.                            *)
(***************************************************************************)
VARIABLE acting   \* the runners of the scene

Late == 2

Within ==
    /\ used.setting + used.fault <= 1
    /\ acting = Task \/ now <= Late \/ used.setting + used.fault = 0

SceneVars == <<vars, acting>>

SceneInit == Init /\ acting \in {Task, Runner}

SceneNext ==
    /\ UNCHANGED acting
    /\ Next
    /\ \A x \in Runner \ acting : pc'[x] = "idle"
    /\ Within'

ScenesSpec ==
    /\ SceneInit /\ [][SceneNext]_SceneVars
    /\ WF_SceneVars(Arrive /\ UNCHANGED acting)
    /\ \A x \in Task : WF_SceneVars(Step(x) /\ UNCHANGED acting)
===============================================================================
