--------------------------- MODULE ReportSchedule ---------------------------
(***************************************************************************)
(* The schedule of the weekly report: main._periodic_report, report.period *)
(* (which windows are due), report.build.run and the table weekly_report,  *)
(* with the admins who run, re-run and delete reports by hand.             *)
(*                                                                         *)
(* A report covers a window [start, end).  The content of a report is left *)
(* out: what matters is which windows exist and which the schedule made.   *)
(* Times are integers; `Week` of them make period.WEEK (seven days).       *)
(***************************************************************************)
EXTENDS Integers, FiniteSets

CONSTANTS
    Worker,      \* API workers; each runs one _periodic_report task
    Phase,       \* settings of weekday and time an admin can choose
    Slot,        \* Slot[p]: the instants the calendar gives for setting p (zoneinfo)
    Week,        \* period.WEEK
    MaxCatchup,  \* period.MAX_CATCHUP: 4 in the code
    Retention,   \* retention_days, 0: never purge
    AdHoc,       \* windows an admin asks for by hand, besides re-running reports
    MaxTime,     \* bound: the clock
    MaxManual,   \* bound: manual runs
    MaxDelete,   \* bound: deleted reports
    MaxSetting,  \* bound: changes of the schedule's settings
    MaxFault,    \* bound: runs that fail
    MaxCrash,    \* bound: crashes of a worker process
    Never, NoWorker

ASSUME CalendarAssumption == Slot \in [Phase -> SUBSET Int]
ASSUME WindowAssumption == /\ Week \in Nat \ {0}
                           /\ MaxCatchup \in Nat \ {0}
                           /\ Retention \in Nat
                           /\ AdHoc \subseteq {p \in Int \X Int : p[1] < p[2]}
                           /\ Never \notin Int
ASSUME WorkerAssumption == NoWorker \notin Worker

VARIABLES
    now,      \* the clock
    phase,    \* settings report.weekday and report.time
    enabled,  \* setting report.enabled
    reports,  \* table weekly_report
    lock,     \* holder of the advisory lock REPORT_LOCK
    pc,       \* where the task of each worker stands
    todo,     \* the due windows its run has still to make
    used      \* how much of each bound is used up

vars == <<now, phase, enabled, reports, lock, pc, todo, used>>

----------------------------------------------------------------------------
Report == [start: Int, end: Int, trigger: {"schedule", "manual"}]

Scheduled == {r \in reports : r.trigger = "schedule"}

Smaller(a, b) == IF a <= b THEN a ELSE b
Larger(a, b)  == IF a <= b THEN b ELSE a

\* store.save: one row per window, made again it replaces the row and its trigger.
Saved(win, trigger) ==
    {r \in reports : <<r.start, r.end>> # win}
        \cup {[start |-> win[1], end |-> win[2], trigger |-> trigger]}

----------------------------------------------------------------------------
(* report.period *)

\* last_slot: the youngest scheduled instant that is not in the future.
LastSlot == {s \in Slot[phase] : s <= now /\ \A u \in Slot[phase] : u <= now => u <= s}

\* store.last_scheduled_end: max(period_end) of the scheduled reports.
LastEnd == IF Scheduled = {} THEN {Never}
           ELSE {e \in {r.end : r \in Scheduled} : \A r \in Scheduled : r.end <= e}

\* The windows from `start` on, a week each, the last one cut at the slot.
Weeks(start, slot) ==
    {<<start + k * Week, Smaller(start + (k + 1) * Week, slot)>> :
        k \in {i \in 0..MaxCatchup : start + i * Week < slot}}

DueM(last, slot) == IF last # Never /\ last >= slot THEN {} ELSE {<<slot - Week, slot>>}

\* due: windows to be made now, none when the slot is covered.  A missed run is
\* made up for by windows of its own, MaxCatchup weeks back at most.
Due(last, slot) ==
    IF last = Never THEN {<<slot - Week, slot>>}
    ELSE Weeks(Larger(last, slot - Week * MaxCatchup), slot)

----------------------------------------------------------------------------
Init ==
    /\ now = 0
    /\ phase \in Phase
    /\ enabled = TRUE
    /\ reports = {}
    /\ lock = NoWorker
    /\ pc = [w \in Worker |-> "idle"]
    /\ todo = [w \in Worker |-> {}]
    /\ used = [manual |-> 0, delete |-> 0, setting |-> 0, fault |-> 0, crash |-> 0]

Goto(w, l) == pc' = [pc EXCEPT ![w] = l]
Use(b, max) == used[b] < max /\ used' = [used EXCEPT ![b] = @ + 1]

----------------------------------------------------------------------------
(* main._periodic_report: every five minutes the task looks for due windows *)

Wake(w) ==
    /\ pc[w] = "idle"
    /\ enabled
    /\ \E slot \in LastSlot, last \in LastEnd :
         /\ Due(last, slot) # {}
         /\ todo' = [todo EXCEPT ![w] = Due(last, slot)]
    /\ Goto(w, "lock")
    /\ UNCHANGED <<now, phase, enabled, reports, lock, used>>

\* pg_try_advisory_lock: back to sleep when another worker holds it.
TryLock(w) ==
    /\ pc[w] = "lock"
    /\ IF lock = NoWorker
       THEN lock' = w /\ Goto(w, "build") /\ UNCHANGED todo
       ELSE Goto(w, "idle") /\ todo' = [todo EXCEPT ![w] = {}] /\ UNCHANGED lock
    /\ UNCHANGED <<now, phase, enabled, reports, used>>

NextWindowM(w) == {v \in todo[w] : \A u \in todo[w] : u[1] <= v[1]}

\* The windows are made in the order of time.
NextWindow(w) == {v \in todo[w] : \A u \in todo[w] : v[1] <= u[1]}

\* report_build.run for one window.
Build(w) ==
    /\ pc[w] = "build"
    /\ \E win \in NextWindow(w) :
         /\ reports' = Saved(win, "schedule")
         /\ todo' = [todo EXCEPT ![w] = @ \ {win}]
    /\ UNCHANGED <<now, phase, enabled, lock, pc, used>>

ExpiredM(r) == r.start < now
Expired(r) == Retention > 0 /\ r.end < now - Retention

Purge(w) ==
    /\ pc[w] = "build"
    /\ todo[w] = {}
    /\ reports' = {r \in reports : ~ Expired(r)}
    /\ Goto(w, "unlock")
    /\ UNCHANGED <<now, phase, enabled, lock, todo, used>>

\* An exception in a run or in the purge: `finally` unlocks, the rest is left.
Fail(w) ==
    /\ pc[w] = "build"
    /\ Use("fault", MaxFault)
    /\ todo' = [todo EXCEPT ![w] = {}]
    /\ Goto(w, "unlock")
    /\ UNCHANGED <<now, phase, enabled, reports, lock>>

Unlock(w) ==
    /\ pc[w] = "unlock"
    /\ lock' = NoWorker
    /\ Goto(w, "idle")
    /\ UNCHANGED <<now, phase, enabled, reports, todo, used>>

----------------------------------------------------------------------------
(* routers/report.py, the settings, the clock and crashes *)

\* POST /run for a window of its own or one that has a report already.
ManualRun ==
    /\ Use("manual", MaxManual)
    /\ \E win \in AdHoc \cup {<<r.start, r.end>> : r \in reports} :
         reports' = Saved(win, "manual")
    /\ UNCHANGED <<now, phase, enabled, lock, pc, todo>>

Delete ==
    /\ Use("delete", MaxDelete)
    /\ \E r \in reports : reports' = reports \ {r}
    /\ UNCHANGED <<now, phase, enabled, lock, pc, todo>>

ChangeSchedule ==
    /\ Use("setting", MaxSetting)
    /\ \/ phase' \in Phase \ {phase} /\ UNCHANGED enabled
       \/ enabled' = ~ enabled /\ UNCHANGED phase
    /\ UNCHANGED <<now, reports, lock, pc, todo>>

Tick ==
    /\ now < MaxTime
    /\ now' = now + 1
    /\ UNCHANGED <<phase, enabled, reports, lock, pc, todo, used>>

\* The process dies; its database session ends and with it the advisory lock.
Crash(w) ==
    /\ pc[w] # "idle"
    /\ Use("crash", MaxCrash)
    /\ Goto(w, "idle")
    /\ todo' = [todo EXCEPT ![w] = {}]
    /\ lock' = IF lock = w THEN NoWorker ELSE lock
    /\ UNCHANGED <<now, phase, enabled, reports>>

----------------------------------------------------------------------------
Task(w) == Wake(w) \/ TryLock(w) \/ Build(w) \/ Purge(w) \/ Fail(w) \/ Unlock(w)
Admin   == ManualRun \/ Delete \/ ChangeSchedule

Next ==
    \/ \E w \in Worker : Task(w) \/ Crash(w)
    \/ Admin
    \/ Tick

Spec == Init /\ [][Next]_vars

\* The task is an endless loop whose awaits return; each chapter has a time limit.
FairSpec == Spec /\ \A w \in Worker : WF_vars(Task(w))

----------------------------------------------------------------------------
(* Properties *)

\* The variables hold values of their types; a run never holds an empty window.
TypeOK ==
    /\ now \in Nat
    /\ phase \in Phase
    /\ enabled \in BOOLEAN
    /\ reports \subseteq Report
    /\ lock \in Worker \cup {NoWorker}
    /\ pc \in [Worker -> {"idle", "lock", "build", "unlock"}]
    /\ todo \in [Worker -> SUBSET (Int \X Int)]
    /\ \A w \in Worker : \A win \in todo[w] : win[1] < win[2]

\* The windows of the schedule never overlap, whatever is missed, failed, deleted
\* or re-run by hand and however the settings change (period.py: "keine Überlappung").
Disjoint(a, b) == a[2] <= b[1] \/ b[2] <= a[1]
NoOverlap ==
    \A r, s \in Scheduled :
       r # s => Disjoint(<<r.start, r.end>>, <<s.start, s.end>>)

\* As long as nobody deletes a report there is no gap: every scheduled report but
\* the first begins where another one ends (period.py: "keine Lücke").
NoGap ==
    used.delete = 0 => \A r \in Scheduled :
       (\E s \in Scheduled : s.start < r.start) => \E s \in reports : s.end = r.start

\* The scheduler comes to rest between two slots, in spite of failures, crashes,
\* purges and deletions: at some point the slot is covered and stays so.
Covered == \A s \in LastSlot : \E r \in Scheduled : r.end >= s
Settles == <>[](enabled => Covered)
=============================================================================
