----------------------- MODULE ReportSchedule_proofs -----------------------
(***************************************************************************)
(* Proofs about the schedule of the weekly report, for every calendar,     *)
(* every length of the week and every bound: the variables are well typed, *)
(* and one worker never makes overlapping reports, nor leaves a gap as long*)
(* as MAX_CATCHUP reaches back to the last report.                         *)
(***************************************************************************)
EXTENDS ReportSchedule, TLAPS

----------------------------------------------------------------------------
(* Lemmas about period.due *)

\* The windows from a given start on are not empty, do not overlap and begin
\* at the start at the earliest.
LEMMA WeeksApart ==
    ASSUME NEW start \in Int, NEW slot \in Int
    PROVE  /\ Weeks(start, slot) \subseteq Int \X Int
           /\ \A u \in Weeks(start, slot) : start <= u[1] /\ u[1] < u[2]
           /\ \A u, v \in Weeks(start, slot) : u = v \/ Disjoint(u, v)
<1> DEFINE at(k) == start + k * Week
           win(k) == <<at(k), Smaller(at(k + 1), slot)>>
           K == {i \in 0..MaxCatchup : at(i) < slot}
<1>1. Week \in Nat \ {0} /\ MaxCatchup \in Nat
  BY WindowAssumption
<1>2. \A k \in Nat : at(k) \in Int /\ at(k + 1) = at(k) + Week
  <2> TAKE k \in Nat
  <2>1. k * Week \in Int /\ (k + 1) * Week = k * Week + Week
    BY <1>1
  <2> QED  BY <2>1, <1>1
<1>3. \A i, j \in Nat : i < j => at(i + 1) <= at(j)
  <2> TAKE i \in Nat, j \in Nat
  <2> HAVE i < j
  <2>1. PICK d \in Nat : j = (i + 1) + d
    <3>1. j - (i + 1) \in Nat /\ j = (i + 1) + (j - (i + 1))
      OBVIOUS
    <3> QED  BY <3>1
  <2>2. d * Week \in Nat
    BY <1>1
  <2>3. j * Week = (i + 1) * Week + d * Week
    BY <1>1, <2>1
  <2>4. (i + 1) * Week \in Int
    BY <1>1
  <2> QED  BY <2>2, <2>3, <2>4
<1>4. \A k \in Nat : start <= at(k)
  <2> TAKE k \in Nat
  <2>1. k * Week \in Nat
    BY <1>1
  <2> QED  BY <2>1
<1>5. Weeks(start, slot) = {win(k) : k \in K}
  BY DEF Weeks
<1>6. \A k \in K : k \in Nat /\ at(k) < slot
  BY <1>1
<1> HIDE DEF at
<1>7. \A k \in K : /\ win(k) \in Int \X Int
                   /\ win(k)[1] = at(k) /\ win(k)[2] <= at(k + 1) /\ at(k) < win(k)[2]
  <2> TAKE k \in K
  <2>1. k \in Nat /\ at(k) < slot /\ at(k) \in Int /\ at(k + 1) = at(k) + Week
    BY <1>2, <1>6
  <2> QED  BY <1>1, <2>1 DEF Smaller
<1> HIDE DEF win, K
<1>8. \A i, j \in K : win(i) = win(j) \/ Disjoint(win(i), win(j))
  <2> TAKE i \in K, j \in K
  <2>1. i \in Nat /\ j \in Nat /\ at(i) \in Int /\ at(j) \in Int
        /\ at(i + 1) \in Int /\ at(j + 1) \in Int
    BY <1>2, <1>6
  <2>2. CASE i = j
    BY <2>2
  <2>3. CASE i < j
    <3>1. at(i + 1) <= at(j)
      BY <1>3, <2>1, <2>3
    <3>2. win(i)[2] <= win(j)[1]
      BY <1>7, <2>1, <3>1
    <3> QED  BY <3>2 DEF Disjoint
  <2>4. CASE j < i
    <3>1. at(j + 1) <= at(i)
      BY <1>3, <2>1, <2>4
    <3>2. win(j)[2] <= win(i)[1]
      BY <1>7, <2>1, <3>1
    <3> QED  BY <3>2 DEF Disjoint
  <2> QED  BY <2>1, <2>2, <2>3, <2>4
<1>9. \A u \in Weeks(start, slot) : \E k \in K : u = win(k)
  BY <1>5
<1>10. Weeks(start, slot) \subseteq Int \X Int
  BY <1>7, <1>9
<1>11. \A u \in Weeks(start, slot) : start <= u[1] /\ u[1] < u[2]
  BY <1>4, <1>6, <1>7, <1>9
<1>12. \A u, v \in Weeks(start, slot) : u = v \/ Disjoint(u, v)
  BY <1>8, <1>9
<1> QED  BY <1>10, <1>11, <1>12

\* What is due lies behind the end of the last scheduled report.
LEMMA DueApart ==
    ASSUME NEW last \in Int \cup {Never}, NEW slot \in Int
    PROVE  /\ Due(last, slot) \subseteq Int \X Int
           /\ \A u \in Due(last, slot) : u[1] < u[2]
           /\ last # Never => \A u \in Due(last, slot) : last <= u[1]
           /\ \A u, v \in Due(last, slot) : u = v \/ Disjoint(u, v)
<1> DEFINE start == Larger(last, slot - Week * MaxCatchup)
<1>1. CASE last = Never
  BY <1>1, WindowAssumption DEF Due
<1>2. CASE last # Never
  <2>1. last \in Int /\ Due(last, slot) = Weeks(start, slot)
    BY <1>2 DEF Due
  <2>2. Week * MaxCatchup \in Int
    BY WindowAssumption
  <2>3. start \in Int /\ last <= start
    BY <2>1, <2>2 DEF Larger
  <2> HIDE DEF start
  <2>4. \A u \in Due(last, slot) : last <= u[1]
    BY <2>1, <2>3, WeeksApart
  <2> QED  BY <2>1, <2>3, <2>4, WeeksApart
<1> QED  BY <1>1, <1>2

----------------------------------------------------------------------------
(* Type correctness *)

\* A slot and the end of a report are integers.
LEMMA LastTypes ==
    ASSUME TypeOK
    PROVE  LastSlot \subseteq Int /\ LastEnd \subseteq Int \cup {Never}
<1>1. LastSlot \subseteq Int
  BY CalendarAssumption DEF TypeOK, LastSlot
<1>2. \A r \in Scheduled : r.end \in Int
  BY DEF TypeOK, Scheduled, Report
<1> QED  BY <1>1, <1>2 DEF LastEnd

\* Storing a report leaves a set of reports.
LEMMA SavedType ==
    ASSUME TypeOK, NEW win \in Int \X Int, NEW t \in {"schedule", "manual"}
    PROVE  Saved(win, t) \subseteq Report
  BY DEF TypeOK, Saved, Report

\* Every reachable state is well typed: period.due never yields an empty window.
LEMMA TypeInit == Init => TypeOK
  BY WorkerAssumption DEF Init, TypeOK

\* Every step keeps the variables well typed.
LEMMA TypeStep == TypeOK /\ [Next]_vars => TypeOK'
<1> SUFFICES ASSUME TypeOK, [Next]_vars PROVE TypeOK'
  OBVIOUS
<1> USE DEF Goto
<1>1. ASSUME NEW w \in Worker, Wake(w) PROVE TypeOK'
  <2>1. PICK slot \in LastSlot, last \in LastEnd :
           todo' = [todo EXCEPT ![w] = Due(last, slot)]
    BY <1>1 DEF Wake
  <2>2. slot \in Int /\ last \in Int \cup {Never}
    BY LastTypes
  <2>3. Due(last, slot) \in SUBSET (Int \X Int) /\ \A u \in Due(last, slot) : u[1] < u[2]
    BY <2>2, DueApart
  <2>4. todo' \in [Worker -> SUBSET (Int \X Int)]
    BY <2>1, <2>3 DEF TypeOK
  <2>5. \A v \in Worker : \A win \in todo'[v] : win[1] < win[2]
    BY <2>1, <2>3 DEF TypeOK
  <2> QED  BY <1>1, <2>4, <2>5 DEF Wake, TypeOK
<1>2. ASSUME NEW w \in Worker, TryLock(w) PROVE TypeOK'
  BY <1>2 DEF TryLock, TypeOK
<1>3. ASSUME NEW w \in Worker, Build(w) PROVE TypeOK'
  <2>1. PICK win \in NextWindow(w) :
           reports' = Saved(win, "schedule") /\ todo' = [todo EXCEPT ![w] = @ \ {win}]
    BY <1>3 DEF Build
  <2>2. win \in Int \X Int
    BY DEF NextWindow, TypeOK
  <2>3. reports' \subseteq Report
    BY <2>1, <2>2, SavedType
  <2>4. todo' \in [Worker -> SUBSET (Int \X Int)]
        /\ \A v \in Worker : todo'[v] \subseteq todo[v]
    BY <2>1 DEF TypeOK
  <2> QED  BY <1>3, <2>3, <2>4 DEF Build, TypeOK
<1>4. ASSUME NEW w \in Worker, Purge(w) \/ Fail(w) \/ Unlock(w) \/ Crash(w) PROVE TypeOK'
  BY <1>4 DEF Purge, Fail, Unlock, Crash, TypeOK
<1>5. CASE ManualRun
  <2>1. PICK win \in AdHoc \cup {<<r.start, r.end>> : r \in reports} :
           reports' = Saved(win, "manual")
    BY <1>5 DEF ManualRun
  <2>2. win \in Int \X Int
    BY WindowAssumption DEF TypeOK, Report
  <2>3. reports' \subseteq Report
    BY <2>1, <2>2, SavedType
  <2> QED  BY <1>5, <2>3 DEF ManualRun, TypeOK
<1>6. CASE Delete \/ Tick
  BY <1>6 DEF Delete, Tick, TypeOK
<1>8. CASE ChangeSchedule
  <2>1. phase' \in Phase /\ enabled' \in BOOLEAN
    BY <1>8, Zenon DEF ChangeSchedule, TypeOK
  <2>2. UNCHANGED <<now, reports, lock, pc, todo>>
    BY <1>8 DEF ChangeSchedule
  <2> QED  BY <2>1, <2>2 DEF TypeOK
<1>7. CASE UNCHANGED vars
  BY <1>7 DEF vars, TypeOK
<1> QED  BY <1>1, <1>2, <1>3, <1>4, <1>5, <1>6, <1>7, <1>8 DEF Next, Task, Admin

\* Every reachable state is well typed (main._periodic_report, report.period).
THEOREM TypeCorrect == Spec => []TypeOK
  BY TypeInit, TypeStep, PTL DEF Spec

----------------------------------------------------------------------------
(* No overlap, with one worker *)

\* What a run has still to make is pairwise disjoint and lies behind every
\* report of the schedule.
AheadInv ==
    \A w \in Worker :
       /\ \A u, v \in todo[w] : u = v \/ Disjoint(u, v)
       /\ \A u \in todo[w], r \in Scheduled : r.end <= u[1]

OverlapInv == TypeOK /\ NoOverlap /\ AheadInv

\* A step that adds no scheduled report and no due window keeps the invariant.
LEMMA ShrinkStep ==
    ASSUME OverlapInv, TypeOK', Scheduled' \subseteq Scheduled,
           \A w \in Worker : todo'[w] \subseteq todo[w]
    PROVE  OverlapInv'
<1>1. NoOverlap'
  BY DEF OverlapInv, NoOverlap
<1>2. AheadInv'
  BY DEF OverlapInv, AheadInv
<1> QED  BY <1>1, <1>2 DEF OverlapInv

\* There are no reports at first.
LEMMA OverlapInit == Init => OverlapInv
  BY TypeInit DEF Init, OverlapInv, NoOverlap, AheadInv, Scheduled

\* Every step keeps the windows apart, with one worker.
LEMMA OverlapStep ==
    ASSUME \A v, w \in Worker : v = w
    PROVE  OverlapInv /\ [Next]_vars => OverlapInv'
<1> SUFFICES ASSUME OverlapInv, [Next]_vars PROVE OverlapInv'
  OBVIOUS
<1>t. TypeOK /\ TypeOK'
  BY TypeStep DEF OverlapInv
<1>1. ASSUME NEW w \in Worker, Wake(w) PROVE OverlapInv'
  <2>1. PICK slot \in LastSlot, last \in LastEnd :
           todo' = [todo EXCEPT ![w] = Due(last, slot)]
    BY <1>1 DEF Wake
  <2>2. slot \in Int /\ last \in Int \cup {Never}
    BY <1>t, LastTypes
  <2>3. todo'[w] = Due(last, slot)
    BY <1>t, <2>1 DEF TypeOK
  <2>4. reports' = reports /\ Scheduled' = Scheduled
    BY <1>1 DEF Wake, Scheduled
  <2>5. \A r \in Scheduled : last # Never /\ r.end <= last
    BY <2>2, WindowAssumption DEF LastEnd
  <2>6. \A u \in todo'[w], r \in Scheduled : r.end <= u[1]
    <3> TAKE u \in todo'[w], r \in Scheduled
    <3>1. last \in Int /\ last <= u[1] /\ u[1] \in Int
      BY <2>2, <2>3, <2>5, DueApart
    <3>2. r.end \in Int
      BY <1>t DEF TypeOK, Scheduled, Report
    <3> QED  BY <2>5, <3>1, <3>2
  <2>7. \A u, v \in todo'[w] : u = v \/ Disjoint(u, v)
    BY <2>2, <2>3, DueApart
  <2>8. AheadInv'
    BY <2>4, <2>6, <2>7 DEF AheadInv
  <2>9. NoOverlap'
    BY <2>4 DEF OverlapInv, NoOverlap
  <2> QED  BY <1>t, <2>8, <2>9 DEF OverlapInv
<1>2. ASSUME NEW w \in Worker, Build(w) PROVE OverlapInv'
  <2>1. PICK win \in NextWindow(w) :
           reports' = Saved(win, "schedule") /\ todo' = [todo EXCEPT ![w] = @ \ {win}]
    BY <1>2 DEF Build
  <2> DEFINE new == [start |-> win[1], end |-> win[2], trigger |-> "schedule"]
  <2>2. win \in todo[w] /\ win[1] \in Int /\ win[2] \in Int /\ win[1] < win[2]
    BY <1>t DEF NextWindow, TypeOK
  <2>3. Scheduled' \subseteq Scheduled \cup {new}
    BY <2>1 DEF Scheduled, Saved
  <2>4. todo'[w] = todo[w] \ {win}
    BY <1>t, <2>1 DEF TypeOK
  <2>5. \A r \in Scheduled : r.end <= win[1]
    BY <2>2 DEF OverlapInv, AheadInv
  <2>6. NoOverlap'
    <3> SUFFICES ASSUME NEW r \in Scheduled', NEW s \in Scheduled', r # s
                 PROVE  Disjoint(<<r.start, r.end>>, <<s.start, s.end>>)
      BY DEF NoOverlap
    <3>1. CASE r \in Scheduled /\ s \in Scheduled
      BY <3>1 DEF OverlapInv, NoOverlap
    <3>2. CASE r = new
      <4>1. s \in Scheduled
        BY <2>3, <3>2
      <4> QED  BY <2>5, <3>2, <4>1 DEF Disjoint
    <3>3. CASE s = new
      <4>1. r \in Scheduled
        BY <2>3, <3>3
      <4> QED  BY <2>5, <3>3, <4>1 DEF Disjoint
    <3> QED  BY <2>3, <3>1, <3>2, <3>3
  <2>7. \A u \in todo'[w] : win[2] <= u[1]
    <3> TAKE u \in todo'[w]
    <3>1. u \in todo[w] /\ u # win
      BY <2>4
    <3>2. win[1] <= u[1] /\ u[1] \in Int /\ u[2] \in Int /\ u[1] < u[2]
      BY <1>t, <3>1 DEF NextWindow, TypeOK
    <3>3. win[2] <= u[1] \/ u[2] <= win[1]
      BY <2>2, <3>1 DEF OverlapInv, AheadInv, Disjoint
    <3> QED  BY <2>2, <3>2, <3>3
  <2>8. AheadInv'
    <3> SUFFICES ASSUME NEW v \in Worker
                 PROVE  /\ \A u, x \in todo'[v] : u = x \/ Disjoint(u, x)
                        /\ \A u \in todo'[v], r \in Scheduled' : r.end <= u[1]
      BY DEF AheadInv
    <3>1. v = w
      OBVIOUS
    <3>2. \A u, x \in todo'[w] : u = x \/ Disjoint(u, x)
      BY <2>4 DEF OverlapInv, AheadInv
    <3>3. \A u \in todo'[w], r \in Scheduled' : r.end <= u[1]
      BY <2>3, <2>4, <2>7 DEF OverlapInv, AheadInv
    <3> QED  BY <3>1, <3>2, <3>3
  <2> QED  BY <1>t, <2>6, <2>8 DEF OverlapInv
<1>3. ASSUME NEW w \in Worker, TryLock(w) \/ Purge(w) \/ Fail(w) \/ Unlock(w) \/ Crash(w)
      PROVE OverlapInv'
  <2>1. Scheduled' \subseteq Scheduled
    BY <1>3 DEF TryLock, Purge, Fail, Unlock, Crash, Scheduled
  <2>2. \A v \in Worker : todo'[v] \subseteq todo[v]
    BY <1>3, <1>t DEF TryLock, Purge, Fail, Unlock, Crash, TypeOK
  <2> QED  BY <1>t, <2>1, <2>2, ShrinkStep
<1>4. CASE ManualRun \/ Delete \/ ChangeSchedule \/ Tick
  <2>1. Scheduled' \subseteq Scheduled
    BY <1>4 DEF ManualRun, Delete, ChangeSchedule, Tick, Scheduled, Saved
  <2>2. todo' = todo
    BY <1>4 DEF ManualRun, Delete, ChangeSchedule, Tick
  <2> QED  BY <1>t, <2>1, <2>2, ShrinkStep
<1>5. CASE UNCHANGED vars
  <2>1. Scheduled' = Scheduled /\ todo' = todo
    BY <1>5 DEF vars, Scheduled
  <2> QED  BY <1>t, <2>1, ShrinkStep
<1> QED  BY <1>1, <1>2, <1>3, <1>4, <1>5 DEF Next, Task, Admin

\* A single worker never makes overlapping reports, for every calendar and however
\* admins re-run and delete reports or change the schedule (period.due).
THEOREM OneWorkerNoOverlap ==
    ASSUME \A v, w \in Worker : v = w
    PROVE  Spec => []NoOverlap
<1>1. Init => OverlapInv
  BY OverlapInit
<1>2. OverlapInv /\ [Next]_vars => OverlapInv'
  BY OverlapStep
<1>3. OverlapInv => NoOverlap
  BY DEF OverlapInv
<1> QED  BY <1>1, <1>2, <1>3, PTL DEF Spec

----------------------------------------------------------------------------
(* No gap, with one worker *)

\* Not more than MAX_CATCHUP weeks lie between the last scheduled report and the slot.
InTime == \A slot \in LastSlot, last \in LastEnd : last # Never => slot - Week * MaxCatchup <= last

Budget == [manual: Nat, delete: Nat, setting: Nat, fault: Nat, crash: Nat]

\* A window to be made continues a report or an earlier window of the same run, or it is
\* the first one of all.
Continues(w, u) ==
    \/ \E s \in reports : s.end = u[1]
    \/ \E v \in todo[w] : v[2] = u[1] /\ v[1] < u[1]
    \/ Scheduled = {} /\ todo[w] = {u}

ChainInv ==
    /\ used \in Budget
    /\ \A r \in reports : r.start < r.end
    /\ NoGap
    /\ used.delete = 0 => \A w \in Worker : \A u \in todo[w] : Continues(w, u)

GapInv == OverlapInv /\ ChainInv

\* Within the reach of MAX_CATCHUP what is due continues the last scheduled report, window
\* after window.
LEMMA DueContinues ==
    ASSUME NEW last \in Int, NEW slot \in Int, slot - Week * MaxCatchup <= last
    PROVE  \A u \in Due(last, slot) :
              u[1] = last \/ \E v \in Due(last, slot) : v[2] = u[1] /\ v[1] < u[1]
<1>1. Week \in Nat \ {0} /\ MaxCatchup \in Nat /\ last # Never
  BY WindowAssumption
<1>2. Week * MaxCatchup \in Int
  BY <1>1
<1>3. Larger(last, slot - Week * MaxCatchup) = last
  BY <1>2 DEF Larger
<1>4. Due(last, slot) = Weeks(last, slot)
  BY <1>1, <1>3 DEF Due
<1> DEFINE at(k) == last + k * Week
           K == {i \in 0..MaxCatchup : at(i) < slot}
           win(k) == <<at(k), Smaller(at(k + 1), slot)>>
<1>5. Weeks(last, slot) = {win(k) : k \in K}
  BY DEF Weeks
<1>6. ASSUME NEW k \in K
      PROVE  win(k)[1] = last \/ \E j \in K : win(j)[2] = win(k)[1] /\ win(j)[1] < win(k)[1]
  <2>1. CASE k = 0
    <3>1. 0 * Week = 0
      BY <1>1
    <3> QED  BY <2>1, <3>1
  <2>2. CASE k # 0
    <3>1. k \in Nat /\ k - 1 \in Nat /\ k - 1 \in 0..MaxCatchup /\ (k - 1) + 1 = k
      BY <1>1, <2>2
    <3>2. k * Week \in Int /\ (k - 1) * Week \in Int /\ k * Week = (k - 1) * Week + Week
      BY <1>1, <3>1
    <3>3. at(k) \in Int /\ at(k - 1) \in Int /\ at(k - 1) < at(k) /\ at(k) < slot
      BY <1>1, <3>2
    <3>4. k - 1 \in K
      BY <3>1, <3>3
    <3>5. win(k - 1)[2] = Smaller(at(k), slot)
      BY <3>1
    <3>6. Smaller(at(k), slot) = at(k)
      BY <3>3 DEF Smaller
    <3> QED  BY <3>3, <3>4, <3>5, <3>6
  <2> QED  BY <2>1, <2>2
<1> HIDE DEF win, K
<1> QED  BY <1>4, <1>5, <1>6

\* Making a report again or anew leaves the ends of all reports in place.
LEMMA SavedKeepsEnds ==
    ASSUME NEW win, NEW t, NEW s \in reports
    PROVE  \E q \in Saved(win, t) : q.end = s.end
<1>1. CASE <<s.start, s.end>> = win
  <2>1. [start |-> win[1], end |-> win[2], trigger |-> t] \in Saved(win, t)
    BY DEF Saved
  <2> QED  BY <1>1, <2>1
<1>2. CASE <<s.start, s.end>> # win
  BY <1>2 DEF Saved
<1> QED  BY <1>1, <1>2

\* There are no reports at first, hence no gap.
LEMMA GapInit == Init => GapInv
  BY OverlapInit DEF Init, GapInv, ChainInv, NoGap, Scheduled, Budget

\* Every step that begins in time keeps the chain of windows, with one worker.
LEMMA GapStep ==
    ASSUME \A v, w \in Worker : v = w
    PROVE  GapInv /\ InTime /\ [Next]_vars => GapInv'
<1> SUFFICES ASSUME GapInv, InTime, [Next]_vars PROVE GapInv'
  OBVIOUS
<1>o. OverlapInv /\ TypeOK /\ ChainInv
  BY DEF GapInv, OverlapInv
<1>p. OverlapInv'
  BY <1>o, OverlapStep
<1>t. /\ todo \in [Worker -> SUBSET (Int \X Int)]
      /\ \A w \in Worker : \A u \in todo[w] : u[1] \in Int /\ u[2] \in Int /\ u[1] < u[2]
      /\ \A r \in reports : r.start \in Int /\ r.end \in Int /\ r.start < r.end
  <2>1. \A w \in Worker : \A u \in todo[w] : u \in Int \X Int
    BY <1>o DEF TypeOK
  <2> QED  BY <1>o, <2>1 DEF TypeOK, Report, ChainInv
<1>u. ASSUME NEW w \in Worker, Wake(w) PROVE ChainInv'
  <2>1. PICK slot \in LastSlot, last \in LastEnd :
           todo' = [todo EXCEPT ![w] = Due(last, slot)]
    BY <1>u DEF Wake
  <2>2. slot \in Int /\ last \in Int \cup {Never}
    BY <1>o, LastTypes
  <2>3. todo'[w] = Due(last, slot)
    BY <1>t, <2>1
  <2>4. UNCHANGED <<reports, used>> /\ Scheduled' = Scheduled
    BY <1>u DEF Wake, Scheduled
  <2>5. \A u \in todo'[w] : Continues(w, u)'
    <3>1. CASE last = Never
      <4>1. Scheduled = {}
        <5>1. \A r \in Scheduled : r.end \in Int
          BY <1>t DEF Scheduled
        <5> QED  BY <3>1, <5>1, WindowAssumption DEF LastEnd
      <4>2. todo'[w] = {<<slot - Week, slot>>}
        BY <2>3, <3>1 DEF Due
      <4> QED  BY <2>4, <4>1, <4>2 DEF Continues
    <3>2. CASE last # Never
      <4>1. last \in Int /\ slot - Week * MaxCatchup <= last
        BY <2>2, <3>2 DEF InTime
      <4>2. \E s \in reports : s.end = last
        BY <2>1, <3>2 DEF LastEnd, Scheduled
      <4>3. \A u \in todo'[w] : u[1] = last \/ \E v \in todo'[w] : v[2] = u[1] /\ v[1] < u[1]
        BY <2>2, <2>3, <4>1, DueContinues
      <4> QED  BY <2>4, <4>2, <4>3 DEF Continues
    <3> QED  BY <3>1, <3>2
  <2>6. NoGap'
    BY <1>o, <2>4 DEF ChainInv, NoGap
  <2> QED  BY <1>o, <2>4, <2>5, <2>6 DEF ChainInv
<1>b. ASSUME NEW w \in Worker, Build(w) PROVE ChainInv'
  <2>1. PICK win \in NextWindow(w) :
           reports' = Saved(win, "schedule") /\ todo' = [todo EXCEPT ![w] = @ \ {win}]
    BY <1>b DEF Build
  <2> DEFINE new == [start |-> win[1], end |-> win[2], trigger |-> "schedule"]
  <2>2. /\ win \in todo[w] /\ \A u \in todo[w] : win[1] <= u[1]
        /\ todo'[w] = todo[w] \ {win} /\ used' = used
    BY <1>b, <1>t, <2>1 DEF NextWindow, Build
  <2>3. win[1] \in Int /\ win[2] \in Int /\ win[1] < win[2]
    BY <1>t, <2>2
  <2>4. new \in reports' /\ reports' \subseteq reports \cup {new} /\ Scheduled' \subseteq Scheduled \cup {new}
    BY <2>1 DEF Saved, Scheduled
  <2>5. \A s \in reports : \E q \in reports' : q.end = s.end
    BY <2>1, SavedKeepsEnds
  <2>6. \A r \in reports' : r.start < r.end
    BY <1>o, <2>3, <2>4 DEF ChainInv
  <2>7. \A r \in Scheduled : r.end <= win[1] /\ r.start < win[1]
    <3>1. \A r \in Scheduled : r.end <= win[1]
      BY <1>o, <2>2 DEF OverlapInv, AheadInv
    <3> QED  BY <1>t, <2>3, <3>1 DEF Scheduled
  <2>8. ASSUME used.delete = 0
        PROVE  \A r \in Scheduled' :
                  (\E s \in Scheduled' : s.start < r.start) => \E s \in reports' : s.end = r.start
    <3> SUFFICES ASSUME NEW r \in Scheduled', NEW s \in Scheduled', s.start < r.start
                 PROVE  \E q \in reports' : q.end = r.start
      OBVIOUS
    <3>1. CASE r = new
      <4>1. s \in Scheduled
        BY <2>3, <2>4, <3>1
      <4>2. Continues(w, win)
        BY <1>o, <2>2, <2>8 DEF ChainInv
      <4>3. \E q \in reports : q.end = win[1]
        BY <1>t, <2>2, <2>3, <4>1, <4>2 DEF Continues
      <4> QED  BY <2>5, <3>1, <4>3
    <3>2. CASE r # new
      <4>1. r \in Scheduled
        BY <2>4, <3>2
      <4>2. s \in Scheduled
        <5>1. r.start < win[1] /\ r.start \in Int
          BY <1>t, <2>7, <4>1 DEF Scheduled
        <5> QED  BY <2>3, <2>4, <5>1
      <4>3. \E q \in reports : q.end = r.start
        BY <1>o, <2>8, <4>1, <4>2 DEF ChainInv, NoGap
      <4> QED  BY <2>5, <4>3
    <3> QED  BY <3>1, <3>2
  <2>9. ASSUME used.delete = 0, NEW u \in todo'[w]
        PROVE  Continues(w, u)'
    <3>1. u \in todo[w] /\ u # win
      BY <2>2, <2>9
    <3>2. Continues(w, u)
      BY <1>o, <2>9, <3>1 DEF ChainInv
    <3>3. CASE \E s \in reports : s.end = u[1]
      BY <2>5, <3>3 DEF Continues
    <3>4. CASE \E v \in todo[w] : v[2] = u[1] /\ v[1] < u[1]
      BY <2>2, <2>4, <3>4 DEF Continues
    <3>5. todo[w] # {u}
      BY <2>2, <3>1
    <3> QED  BY <3>2, <3>3, <3>4, <3>5 DEF Continues
  <2> QED  BY <1>o, <2>2, <2>6, <2>8, <2>9 DEF ChainInv, NoGap
<1>r. ASSUME NEW w \in Worker, Purge(w) PROVE ChainInv'
  <2>1. reports' = {r \in reports : ~ Expired(r)} /\ todo[w] = {} /\ UNCHANGED <<todo, used, now>>
    BY <1>r DEF Purge
  <2>2. ASSUME used.delete = 0, NEW r \in Scheduled', NEW s \in Scheduled', s.start < r.start
        PROVE  \E q \in reports' : q.end = r.start
    <3>1. r \in Scheduled /\ s \in Scheduled /\ ~ Expired(s)
      BY <2>1 DEF Scheduled
    <3>2. PICK q \in reports : q.end = r.start
      BY <1>o, <2>2, <3>1 DEF ChainInv, NoGap
    <3>3. s.end <= r.start
      <4>1. r \in reports /\ s \in reports
        BY <3>1 DEF Scheduled
      <4>2. r # s
        BY <1>t, <2>2, <4>1
      <4>3. Disjoint(<<r.start, r.end>>, <<s.start, s.end>>)
        BY <1>o, <3>1, <4>2 DEF OverlapInv, NoOverlap
      <4> QED  BY <1>t, <2>2, <4>1, <4>3 DEF Disjoint
    <3>4. ~ Expired(q)
      <4>1. s.end \in Int /\ q.end \in Int /\ now \in Int /\ s.end <= q.end
        BY <1>o, <1>t, <3>1, <3>2, <3>3 DEF TypeOK, Scheduled
      <4> QED  BY <3>1, <4>1, WindowAssumption DEF Expired
    <3> QED  BY <2>1, <3>2, <3>4
  <2>3. \A v \in Worker : todo'[v] = {}
    BY <2>1
  <2>4. NoGap'
    BY <2>1, <2>2 DEF NoGap
  <2> QED  BY <1>o, <2>1, <2>3, <2>4 DEF ChainInv
<1>m. ASSUME ManualRun PROVE ChainInv'
  <2>1. PICK win \in AdHoc \cup {<<r.start, r.end>> : r \in reports} :
           reports' = Saved(win, "manual")
    BY <1>m DEF ManualRun
  <2>2. win[1] < win[2]
    BY <1>t, WindowAssumption
  <2>3. \A r \in reports' : r.start < r.end
    BY <1>t, <2>1, <2>2 DEF Saved
  <2>4. \A s \in reports : \E q \in reports' : q.end = s.end
    BY <2>1, SavedKeepsEnds
  <2>5. Scheduled' \subseteq Scheduled /\ todo' = todo
    BY <1>m, <2>1 DEF ManualRun, Scheduled, Saved
  <2>6. used' \in Budget /\ used'.delete = used.delete
    BY <1>m, <1>o DEF ManualRun, Use, Budget, ChainInv
  <2>7. NoGap'
    BY <1>o, <2>4, <2>5, <2>6 DEF ChainInv, NoGap
  <2>8. \A w \in Worker : \A u \in todo[w] : Continues(w, u) => Continues(w, u)'
    BY <2>4, <2>5 DEF Continues
  <2>9. used'.delete = 0 => \A w \in Worker : \A u \in todo'[w] : Continues(w, u)'
    BY <1>o, <2>5, <2>6, <2>8 DEF ChainInv
  <2> QED  BY <2>3, <2>6, <2>7, <2>9 DEF ChainInv
<1>d. ASSUME Delete PROVE ChainInv'
  <2>1. used' \in Budget /\ used'.delete # 0
    BY <1>d, <1>o DEF Delete, Use, Budget, ChainInv
  <2>2. reports' \subseteq reports
    BY <1>d DEF Delete
  <2>3. \A r \in reports' : r.start < r.end
    BY <1>t, <2>2
  <2>4. NoGap'
    BY <2>1 DEF NoGap
  <2> QED  BY <2>1, <2>3, <2>4 DEF ChainInv
<1>x. ASSUME UNCHANGED reports, used' \in Budget, used'.delete = used.delete,
             \A w \in Worker : todo'[w] = todo[w] \/ todo'[w] = {}
      PROVE  ChainInv'
  <2>1. Scheduled' = Scheduled
    BY <1>x DEF Scheduled
  <2>2. \A w \in Worker : \A u \in todo'[w] : u \in todo[w] /\ (Continues(w, u) => Continues(w, u)')
    BY <1>x, <2>1 DEF Continues
  <2> QED  BY <1>o, <1>x, <2>1, <2>2 DEF ChainInv, NoGap
<1>1. ASSUME NEW w \in Worker, TryLock(w) \/ Fail(w) \/ Unlock(w) \/ Crash(w) PROVE ChainInv'
  <2>1. UNCHANGED reports /\ \A v \in Worker : todo'[v] = todo[v] \/ todo'[v] = {}
    BY <1>1, <1>t DEF TryLock, Fail, Unlock, Crash
  <2>2. used' \in Budget /\ used'.delete = used.delete
    BY <1>1, <1>o DEF TryLock, Fail, Unlock, Crash, Use, Budget, ChainInv
  <2> QED  BY <1>x, <2>1, <2>2
<1>2. ASSUME ChangeSchedule \/ Tick PROVE ChainInv'
  <2>1. UNCHANGED reports /\ \A w \in Worker : todo'[w] = todo[w] \/ todo'[w] = {}
    BY <1>2 DEF ChangeSchedule, Tick
  <2>2. used' \in Budget /\ used'.delete = used.delete
    BY <1>2, <1>o DEF ChangeSchedule, Tick, Use, Budget, ChainInv
  <2> QED  BY <1>x, <2>1, <2>2
<1>3. ASSUME UNCHANGED vars PROVE ChainInv'
  <2>1. UNCHANGED <<reports, used, todo>> /\ used \in Budget
    BY <1>3, <1>o DEF vars, ChainInv
  <2>2. \A w \in Worker : todo'[w] = todo[w] \/ todo'[w] = {}
    BY <2>1
  <2> QED  BY <1>x, <2>1, <2>2
<1> QED
  BY <1>p, <1>u, <1>b, <1>r, <1>m, <1>d, <1>1, <1>2, <1>3 DEF Next, Task, Admin, GapInv

\* While no report is deleted and the schedule never lies idle for more than MAX_CATCHUP
\* weeks, a single worker leaves no gap: for every calendar, and whatever fails, crashes, is
\* purged, is re-run by hand or changed in the settings (period.py: "keine Lücke").
THEOREM OneWorkerNoGap ==
    ASSUME \A v, w \in Worker : v = w
    PROVE  Spec /\ []InTime => []NoGap
<1>1. Init => GapInv
  BY GapInit
<1>2. GapInv /\ InTime /\ [Next]_vars => GapInv'
  BY GapStep
<1>3. GapInv => NoGap
  BY DEF GapInv, ChainInv
<1> QED  BY <1>1, <1>2, <1>3, PTL DEF Spec
=============================================================================
