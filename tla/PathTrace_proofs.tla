--------------------------- MODULE PathTrace_proofs ---------------------------
(***************************************************************************)
(* What holds of every trace, whatever the inventory and whatever the      *)
(* firewalls answer: the walk is bounded, passes no VDOM twice and ends    *)
(* with a reason, and the verdict rests on live answers.  Nothing is       *)
(* assumed for that of the inventory or of the classification of an        *)
(* egress.  For inventories as the snapshots hold them                     *)
(* (WorldsAssumption) the path moreover goes on to another device only     *)
(* with evidence, is not given up while a home of the destination is       *)
(* known, starts where the source is, and enters every VDOM by an          *)
(* interface of its own.                                                   *)
(***************************************************************************)
EXTENDS PathTrace, SequenceTheorems, WellFoundedInduction, TLAPS

IsSeq(s) == \E S : s \in Seq(S)

(* -------------------------- sequences of anything -------------------------- *)

\* A sequence over anything has its length, and its domain is 1..Len.
LEMMA SeqDomain == ASSUME NEW s, IsSeq(s) PROVE Len(s) \in Nat /\ DOMAIN s = 1..Len(s)
BY DEF IsSeq

\* Append keeps what is there and adds one element at the end.
LEMMA AppendAny ==
    ASSUME NEW s, IsSeq(s), NEW x
    PROVE /\ IsSeq(Append(s, x)) /\ Len(Append(s, x)) = Len(s) + 1
          /\ \A i \in 1..Len(s) : Append(s, x)[i] = s[i]
          /\ Append(s, x)[Len(s) + 1] = x
<1>1. PICK S : s \in Seq(S)  BY DEF IsSeq
<1>2. s \in Seq(S \cup {x})  BY <1>1
<1>3. /\ Append(s, x) \in Seq(S \cup {x}) /\ Len(Append(s, x)) = Len(s) + 1
      /\ \A i \in 1..Len(s) : Append(s, x)[i] = s[i]
      /\ Append(s, x)[Len(s) + 1] = x
  BY <1>2, AppendProperties
<1> QED  BY <1>3 DEF IsSeq

(* --------------------------- the inductive invariant --------------------------- *)

Walking == phase \in {"ingress", "walk", "resolve"}

Sequences == IsSeq(steps) /\ IsSeq(hops)

\* The phases in their order: no hop is judged before the walk is over.
Order ==
    /\ phase \in {"ingress", "walk", "resolve", "judge", "done", "refused"}
    /\ phase \in {"ingress", "refused"} => steps = <<>>
    /\ Walking \/ phase = "refused" => hops = <<>>
    /\ phase \in {"resolve", "judge", "done"} => steps # <<>>
    /\ Len(steps) <= MaxHops /\ Len(hops) <= Len(steps)

\* Every hop but the last one of a finished walk leads on.
LeadsOn(i) == steps[i].class \notin Final
Chain ==
    /\ broken \in {"none", "loop", "max_hops"}
    /\ phase \notin {"judge", "done"} => broken = "none"
    /\ \A i \in DOMAIN steps : Walking \/ broken # "none" \/ i < Len(steps) => LeadsOn(i)
    /\ phase \in {"judge", "done"} =>
          (steps[Len(steps)].class \in Final <=> broken = "none")

\* A verdict of a hop follows from an answer that was possible for it.
JudgedRight ==
    \A i \in DOMAIN hops : /\ hops[i].answer \in PolicyAnswers(steps[i])
                           /\ hops[i].verdict = Judged(steps[i], hops[i].answer)

VerdictRight ==
    /\ phase # "done" => verdict = "none"
    /\ phase = "done" => Len(hops) = Len(steps) /\ verdict = Aggregate

IInv == Sequences /\ Order /\ NoRevisit /\ Chain /\ JudgedRight /\ VerdictRight

\* The empty sequence is a sequence of anything.
LEMMA EmptyAny == IsSeq(<<>>) /\ Len(<<>>) = 0 /\ DOMAIN <<>> = {}
<1>1. <<>> \in Seq({}) /\ Len(<<>>) = 0 /\ DOMAIN <<>> = {}  OBVIOUS
<1> QED  BY <1>1 DEF IsSeq

\* Before the trace there are no hops.
LEMMA InitIInv == Init => IInv
<1> SUFFICES ASSUME Init PROVE IInv  OBVIOUS
<1>1. DOMAIN steps = {} /\ DOMAIN hops = {} /\ Len(steps) = 0 /\ Len(hops) = 0
  BY EmptyAny DEF Init
<1>2. Sequences  BY EmptyAny DEF Init, Sequences
<1>3. Order  BY <1>1, MaxHopsAssumption DEF Init, Order, Walking
<1>4. NoRevisit /\ Chain /\ JudgedRight  BY <1>1 DEF Init, NoRevisit, Chain, JudgedRight
<1>5. VerdictRight  BY DEF Init, VerdictRight
<1> QED  BY <1>2, <1>3, <1>4, <1>5 DEF IInv

\* Adding a hop for a VDOM not yet passed.
LEMMA WalkHopKeeps == IInv /\ WalkHop => IInv'
<1> SUFFICES ASSUME IInv, WalkHop PROVE IInv'  OBVIOUS
<1> USE DEF IInv
<1>1. PICK answer, route, going :
         /\ steps' = Append(steps, Step(answer, route, going))
         /\ \/ going.class \in Final /\ phase' = "judge"
            \/ MustResolve(going) /\ phase' = "resolve"
            \/ going.class \notin Final /\ phase' = "walk"
  BY DEF WalkHop
<1> DEFINE s == Step(answer, route, going)
<1>2. /\ phase = "walk" /\ Len(steps) < MaxHops /\ <<here.dev, here.vdom>> \notin Visited
      /\ hops' = hops /\ verdict' = verdict /\ world' = world /\ broken' = broken
  BY DEF WalkHop, HopsLeft, Revisited
<1>3. IsSeq(steps) /\ Len(steps) \in Nat /\ DOMAIN steps = 1..Len(steps)
  BY SeqDomain DEF Sequences
<1>4. /\ IsSeq(steps') /\ Len(steps') = Len(steps) + 1
      /\ \A i \in 1..Len(steps) : steps'[i] = steps[i]
      /\ steps'[Len(steps) + 1] = s
  BY <1>1, <1>3, AppendAny
<1>5. DOMAIN steps' = 1..Len(steps) + 1 /\ steps' # <<>>
  BY <1>3, <1>4, SeqDomain, EmptyAny
<1>6. s.dev = here.dev /\ s.vdom = here.vdom /\ s.class = going.class
  BY DEF Step
<1>7. hops = <<>> /\ hops' = <<>> /\ DOMAIN hops' = {} /\ Len(hops') = 0
  BY <1>2, EmptyAny DEF Order, Walking
<1>8. Sequences'  BY <1>4, <1>7, EmptyAny DEF Sequences
<1>9. Order'  BY <1>1, <1>2, <1>3, <1>4, <1>5, <1>7, MaxHopsAssumption DEF Order, Walking
<1>10. NoRevisit'
  <2> SUFFICES ASSUME NEW i \in DOMAIN steps', NEW j \in DOMAIN steps',
                      steps'[i].dev = steps'[j].dev, steps'[i].vdom = steps'[j].vdom
               PROVE i = j
    BY DEF NoRevisit
  <2>1. \A k \in DOMAIN steps : ~(steps[k].dev = s.dev /\ steps[k].vdom = s.vdom)
    BY <1>2, <1>6 DEF Visited
  <2>2. CASE i <= Len(steps) /\ j <= Len(steps)
    BY <2>2, <1>3, <1>4, <1>5 DEF NoRevisit
  <2>3. CASE i <= Len(steps) /\ j = Len(steps) + 1
    BY <2>3, <2>1, <1>3, <1>4, <1>5
  <2>4. CASE i = Len(steps) + 1 /\ j <= Len(steps)
    BY <2>4, <2>1, <1>3, <1>4, <1>5
  <2> QED  BY <2>2, <2>3, <2>4, <1>3, <1>5
<1>11. Chain'
  <2>1. PICK n \in Nat : n = Len(steps)  BY <1>3
  <2>2. \A i \in 1..n : LeadsOn(i) /\ LeadsOn(i)'
    BY <1>2, <1>3, <1>4, <2>1 DEF Chain, Walking, LeadsOn
  <2>3. MustResolve(going) => going.class \notin Final  BY DEF MustResolve, Final
  <2>4. (going.class \in Final /\ phase' = "judge") \/ (going.class \notin Final /\ phase' # "judge")
    BY <1>1, <2>3
  <2>5. phase' # "done"  BY <1>1
  <2>6. going.class \notin Final => LeadsOn(n + 1)'  BY <1>4, <1>6, <2>1 DEF LeadsOn
  <2>7. steps'[Len(steps')].class = going.class  BY <1>3, <1>4, <1>6
  <2>8. DOMAIN steps' = 1..(n + 1) /\ Len(steps') = n + 1  BY <1>4, <1>5, <2>1
  <2>9. Walking' => going.class \notin Final  BY <2>4 DEF Walking
  <2>10. broken = "none" /\ broken' = "none"  BY <1>2 DEF Chain
  <2>11. ASSUME NEW i \in DOMAIN steps', Walking' \/ i < Len(steps') PROVE LeadsOn(i)'
    <3>1. CASE i \in 1..n  BY <3>1, <2>2
    <3>2. CASE i = n + 1  BY <3>2, <2>1, <2>6, <2>8, <2>9, <2>11
    <3> QED  BY <3>1, <3>2, <2>1, <2>8
  <2>12. phase' \in {"judge", "done"} => steps'[Len(steps')].class \in Final
    BY <2>4, <2>5, <2>7
  <2> QED  BY <2>10, <2>11, <2>12, SMTT(60) DEF Chain
<1>12. JudgedRight'  BY <1>7 DEF JudgedRight
<1>13. VerdictRight'  BY <1>1, <1>2 DEF VerdictRight
<1> QED  BY <1>8, <1>9, <1>10, <1>11, <1>12, <1>13, SMTT(60)

\* The walk is broken off only before a hop, when all before it lead on.
LEMMA BreakKeeps == IInv /\ (StopAtMax \/ StopAtLoop) => IInv'
<1> SUFFICES ASSUME IInv, StopAtMax \/ StopAtLoop PROVE IInv'  OBVIOUS
<1> USE DEF IInv
<1>1. /\ phase = "walk" /\ phase' = "judge" /\ broken' \in {"loop", "max_hops"}
      /\ world' = world /\ steps' = steps /\ hops' = hops /\ verdict' = verdict
  BY DEF StopAtMax, StopAtLoop
<1>2. IsSeq(steps) /\ Len(steps) \in Nat /\ DOMAIN steps = 1..Len(steps)
  BY SeqDomain DEF Sequences
<1>3. Len(steps) # 0 /\ steps # <<>>
  <2>1. CASE StopAtMax  BY <2>1, <1>2, EmptyAny, MaxHopsAssumption DEF StopAtMax, HopsLeft
  <2>2. CASE StopAtLoop  BY <2>2, <1>2, EmptyAny DEF StopAtLoop, Revisited, Visited
  <2> QED  BY <2>1, <2>2
<1>4. Sequences'  BY <1>1 DEF Sequences
<1>5. Order'  BY <1>1, <1>3 DEF Order, Walking
<1>6. NoRevisit'  BY <1>1 DEF NoRevisit
<1>7. Chain'  BY <1>1, <1>2, <1>3 DEF Chain, Walking, LeadsOn
<1>8. JudgedRight' /\ VerdictRight'
  BY <1>1, EmptyAny DEF JudgedRight, VerdictRight, Order, Walking
<1> QED  BY <1>4, <1>5, <1>6, <1>7, <1>8

\* Neither the start nor the entry of a device touches the hops.
LEMMA EntryKeeps == IInv /\ (FindIngress \/ ResolveEntry) => IInv'
<1> SUFFICES ASSUME IInv, FindIngress \/ ResolveEntry PROVE IInv'  OBVIOUS
<1> USE DEF IInv
<1>1. /\ world' = world /\ steps' = steps /\ broken' = broken /\ hops' = hops
      /\ verdict' = verdict
      /\ \/ phase = "ingress" /\ phase' \in {"walk", "refused"}
         \/ phase = "resolve" /\ phase' = "walk"
  BY DEF FindIngress, ResolveEntry
<1>2. Sequences'  BY <1>1 DEF Sequences
<1>3. Order'  BY <1>1 DEF Order, Walking
<1>4. NoRevisit'  BY <1>1 DEF NoRevisit
<1>5. Chain'  BY <1>1 DEF Chain, Walking, LeadsOn
<1>6. JudgedRight' /\ VerdictRight'
  BY <1>1, EmptyAny DEF JudgedRight, VerdictRight, Order, Walking
<1> QED  BY <1>2, <1>3, <1>4, <1>5, <1>6

\* A verdict is given to the next hop, from its answer.
LEMMA JudgeHopKeeps == IInv /\ JudgeHop => IInv'
<1> SUFFICES ASSUME IInv, JudgeHop PROVE IInv'  OBVIOUS
<1> USE DEF IInv
<1>1. /\ phase = "judge" /\ phase' = phase /\ Len(hops) < Len(steps)
      /\ world' = world /\ steps' = steps /\ broken' = broken /\ verdict' = verdict
  BY DEF JudgeHop
<1>2. /\ IsSeq(steps) /\ Len(steps) \in Nat /\ DOMAIN steps = 1..Len(steps)
      /\ IsSeq(hops) /\ Len(hops) \in Nat /\ DOMAIN hops = 1..Len(hops)
  BY SeqDomain, SMTT(60) DEF Sequences
<1>3. PICK n \in Nat : n = Len(hops)  BY <1>2
<1>4. PICK answer \in PolicyAnswers(steps[n + 1]) :
         hops' = Append(hops, [verdict |-> Judged(steps[n + 1], answer), answer |-> answer,
                               afterDeny |-> DenySeen])
  BY <1>3 DEF JudgeHop
<1>5. /\ IsSeq(hops') /\ Len(hops') = n + 1
      /\ \A i \in 1..n : hops'[i] = hops[i]
      /\ hops'[n + 1].answer = answer /\ hops'[n + 1].verdict = Judged(steps[n + 1], answer)
  BY <1>2, <1>3, <1>4, AppendAny
<1>6. DOMAIN hops' = 1..(n + 1)  BY <1>5, SeqDomain
<1>7. Sequences'  BY <1>1, <1>2, <1>5 DEF Sequences
<1>8. Order'  BY <1>1, <1>2, <1>3, <1>5 DEF Order, Walking
<1>9. NoRevisit' /\ Chain' /\ VerdictRight'
  BY <1>1 DEF NoRevisit, Chain, VerdictRight, Walking, LeadsOn
<1>10. JudgedRight'
  <2>1. \A t : PolicyAnswers(t)' = PolicyAnswers(t)
    BY <1>1 DEF PolicyAnswers, Asked, Known, Inv
  <2>2. \A t, a : Judged(t, a)' = Judged(t, a)
    BY <1>1 DEF Judged, Action, OfDevice, OfGlobal, Inv
  <2>3. \A i \in 1..(n + 1) : /\ hops'[i].answer \in PolicyAnswers(steps[i])
                              /\ hops'[i].verdict = Judged(steps[i], hops'[i].answer)
    BY <1>2, <1>3, <1>5 DEF JudgedRight
  <2> QED  BY <1>1, <1>6, <2>1, <2>2, <2>3 DEF JudgedRight
<1> QED  BY <1>7, <1>8, <1>9, <1>10

\* The verdict of the trace sums up those of the hops.
LEMMA FinishKeeps == IInv /\ Finish => IInv'
<1> SUFFICES ASSUME IInv, Finish PROVE IInv'  OBVIOUS
<1> USE DEF IInv
<1>1. /\ phase = "judge" /\ phase' = "done" /\ Len(hops) = Len(steps)
      /\ world' = world /\ steps' = steps /\ broken' = broken /\ hops' = hops
      /\ verdict' = Aggregate
  BY DEF Finish
<1>2. Sequences'  BY <1>1 DEF Sequences
<1>3. Order'  BY <1>1 DEF Order, Walking
<1>4. NoRevisit'  BY <1>1 DEF NoRevisit
<1>5. Chain'  BY <1>1 DEF Chain, Walking, LeadsOn
<1>6. JudgedRight'
  <2>1. \A t : PolicyAnswers(t)' = PolicyAnswers(t)
    BY <1>1 DEF PolicyAnswers, Asked, Known, Inv
  <2>2. \A t, a : Judged(t, a)' = Judged(t, a)
    BY <1>1 DEF Judged, Action, OfDevice, OfGlobal, Inv
  <2> QED  BY <1>1, <2>1, <2>2 DEF JudgedRight
<1>7. VerdictRight'  BY <1>1 DEF VerdictRight, Aggregate, Stops
<1> QED  BY <1>2, <1>3, <1>4, <1>5, <1>6, <1>7

\* Nothing changes without a step.
LEMMA StutterKeeps == IInv /\ UNCHANGED vars => IInv'
<1> SUFFICES ASSUME IInv, UNCHANGED vars PROVE IInv'  OBVIOUS
<1> USE DEF IInv
<1>1. /\ world' = world /\ phase' = phase /\ steps' = steps /\ broken' = broken
      /\ hops' = hops /\ verdict' = verdict
  BY DEF vars
<1>2. Sequences' /\ Order'  BY <1>1 DEF Sequences, Order, Walking
<1>3. NoRevisit' /\ Chain'  BY <1>1 DEF NoRevisit, Chain, Walking, LeadsOn
<1>4. JudgedRight'
  <2>1. \A t : PolicyAnswers(t)' = PolicyAnswers(t)
    BY <1>1 DEF PolicyAnswers, Asked, Known, Inv
  <2>2. \A t, a : Judged(t, a)' = Judged(t, a)
    BY <1>1 DEF Judged, Action, OfDevice, OfGlobal, Inv
  <2> QED  BY <1>1, <2>1, <2>2 DEF JudgedRight
<1>5. VerdictRight'  BY <1>1 DEF VerdictRight, Aggregate, Stops
<1> QED  BY <1>2, <1>3, <1>4, <1>5

\* IInv is an invariant of every trace.
LEMMA AlwaysIInv == Spec => []IInv
<1>1. IInv /\ [Next]_vars => IInv'
  BY WalkHopKeeps, BreakKeeps, EntryKeeps, JudgeHopKeeps, FinishKeeps, StutterKeeps DEF Next
<1> QED  BY <1>1, InitIInv, PTL DEF Spec

(* --------------------------------- results --------------------------------- *)

\* What the variables hold, and that neither the walk nor the verdicts outgrow max_hops.
THEOREM TypeCorrect == Spec => []TypeOK
<1>1. IInv => TypeOK
  <2> SUFFICES ASSUME IInv PROVE TypeOK  OBVIOUS
  <2> USE DEF IInv
  <2>1. \A i \in DOMAIN hops : hops[i].verdict \in {"ALLOW", "DENY", "UNKNOWN"}
    BY DEF JudgedRight, Judged, Verdict
  <2>2. verdict \in {"none", "ALLOW", "DENY", "DEGRADED"}
    BY DEF VerdictRight, Aggregate
  <2> QED  BY <2>1, <2>2 DEF TypeOK, Order, Chain
<1> QED  BY <1>1, AlwaysIInv, PTL

\* No VDOM is passed twice, and the walk ends at a final hop or was broken off with a
\* warning, never both (_walk_path).
THEOREM WalkRight == Spec => []Walked
<1>1. IInv => Walked
  <2> SUFFICES ASSUME IInv PROVE Walked  OBVIOUS
  <2> USE DEF IInv
  <2>1. IsSeq(steps) /\ Len(steps) \in Nat /\ DOMAIN steps = 1..Len(steps)
    BY SeqDomain DEF Sequences
  <2>2. EndExplained  BY <2>1 DEF EndExplained, Order, Chain, LeadsOn
  <2> QED  BY <2>2 DEF Walked
<1> QED  BY <1>1, AlwaysIInv, PTL

\* ALLOW rests on a live accept at every hop, DENY on a live deny behind live accepts only
\* (run_trace, aggregate_verdict).
THEOREM VerdictIsConfirmed == Spec => []VerdictConfirmed
<1>1. IInv => VerdictConfirmed
  <2> SUFFICES ASSUME IInv PROVE VerdictConfirmed  OBVIOUS
  <2> USE DEF IInv
  <2>1. /\ IsSeq(steps) /\ Len(steps) \in Nat /\ DOMAIN steps = 1..Len(steps)
        /\ IsSeq(hops) /\ Len(hops) \in Nat /\ DOMAIN hops = 1..Len(hops)
    BY SeqDomain DEF Sequences
  <2>2. \A i \in DOMAIN hops : hops[i].answer.answered => Live(i)
    <3> SUFFICES ASSUME NEW i \in DOMAIN hops, hops[i].answer.answered PROVE Live(i)
      OBVIOUS
    <3>1. hops[i].answer \in PolicyAnswers(steps[i])  BY DEF JudgedRight
    <3>2. hops[i].answer # NotAsked  BY DEF NotAsked
    <3>3. Asked(steps[i])  BY <3>1, <3>2 DEF PolicyAnswers
    <3> QED  BY <3>3 DEF Asked, Live
  <2>3. \A i \in DOMAIN hops : hops[i].verdict = "ALLOW" => Accepts(i)
    BY <2>2 DEF JudgedRight, Judged, Verdict, Accepts, Matches
  <2>4. \A i \in DOMAIN hops : hops[i].verdict = "DENY" => Denies(i)
    BY <2>2, SMTT(60) DEF JudgedRight, Judged, Verdict, Denies, Matches
  <2>5. verdict = "ALLOW" => \A i \in DOMAIN steps : Accepts(i)
    BY <2>1, <2>3 DEF VerdictRight, Aggregate, Stops
  <2>6. ASSUME verdict = "DENY"
        PROVE \E i \in DOMAIN steps : Denies(i) /\ \A j \in 1..i - 1 : Accepts(j)
    <3>1. DOMAIN hops = DOMAIN steps /\ verdict = Aggregate
      BY <2>1, <2>6 DEF VerdictRight
    <3>2. PICK i \in Stops : hops[i].verdict = "DENY" /\ \A j \in Stops : i <= j
      BY <2>6, <3>1 DEF Aggregate
    <3>3. \A j \in 1..i - 1 : hops[j].verdict = "ALLOW"
      BY <2>1, <3>2 DEF Stops
    <3> QED  BY <2>1, <2>3, <2>4, <3>1, <3>2, <3>3, SMTT(60) DEF Stops
  <2> QED  BY <2>5, <2>6 DEF VerdictConfirmed
<1> QED  BY <1>1, AlwaysIInv, PTL

(* ----------------------- positions in a list ----------------------- *)

\* A set of naturals that is not empty has a least member.
LEMMA Least ==
    ASSUME NEW S, S \subseteq Nat, S # {}
    PROVE  \E x \in S : \A y \in S : x <= y
<1> DEFINE R == {ss \in Nat \X Nat : ss[1] < ss[2]}
<1>1. IsWellFoundedOn(R, Nat)  BY NatLessThanWellFounded DEF OpToRel
<1>2. PICK x \in S : \A y \in S : ~(<<y, x>> \in R)
  <2> HIDE DEF R
  <2> QED  BY <1>1, WFMin
<1>3. \A y \in S : ~(y < x)  BY <1>2
<1> QED  BY <1>2, <1>3

\* The first of some positions of a list is one of them.
LEMMA MinIn ==
    ASSUME NEW S, S \subseteq Nat, S # {} PROVE Min(S) \in S /\ \A y \in S : Min(S) <= y
BY Least DEF Min

\* A list has positions 1..Len and its elements at them.
LEMMA Listing ==
    ASSUME NEW s, IsList(s)
    PROVE  /\ Len(s) \in Nat /\ DOMAIN s = 1..Len(s) /\ DOMAIN s \subseteq Nat
           /\ \A k \in DOMAIN s : s[k] \in ToSet(s)
<1>1. s \in Seq(ToSet(s))  BY DEF IsList
<1>2. Len(s) \in Nat /\ DOMAIN s = 1..Len(s)  BY <1>1
<1> QED  BY <1>2 DEF ToSet

\* The first of some positions is one of them.
LEMMA FirstIs ==
    ASSUME NEW s, IsList(s), NEW ks, ks \subseteq DOMAIN s, ks # {}
    PROVE  \E k \in ks : First(s, ks) = s[k]
<1>1. ks \subseteq Nat  BY Listing
<1>2. Min(ks) \in ks  BY <1>1, MinIn
<1> QED  BY <1>2 DEF First

(* ------------------- what a classification rests on ------------------- *)

\* The gateway of a route leads to an interface that bears it, over a route that is not
\* the default one and to the one device that can be meant.
LEMMA GatewayShows ==
    ASSUME NEW inv, IsList(inv.intfs), NEW d, NEW v, NEW gw, NEW dflt,
           NEW g, g = ByGateway(inv, d, v, gw, dflt)
    PROVE  /\ g.hit # <<>> => \E k \in DOMAIN inv.intfs :
                /\ g.hit = <<inv.intfs[k]>>
                /\ \/ g.why = "gateway_local" /\ inv.intfs[k].dev = d
                   \/ /\ g.why = "gateway_global" /\ ~dflt
                      /\ \A j \in Bearers(inv, gw) :
                            inv.intfs[j].dev = inv.intfs[k].dev \/ ~Elsewhere(inv.intfs[j], d, v)
           /\ g.hit = <<>> /\ g.why \notin Unproven /\ gw # NoAddr
                => \A j \in Bearers(inv, gw) : ~Elsewhere(inv.intfs[j], d, v)
<1> DEFINE own == {k \in Bearers(inv, gw) : inv.intfs[k].dev = d}
           others == {k \in Bearers(inv, gw) : Elsewhere(inv.intfs[k], d, v)}
           skip(why) == [hit |-> <<>>, why |-> why]
           hit(ks, by) == [hit |-> <<First(inv.intfs, ks)>>, why |-> by]
<1>1. g = CASE gw = NoAddr -> skip("no_gateway")
            [] gw # NoAddr /\ own # {} /\ First(inv.intfs, own).vdom # v -> hit(own, "gateway_local")
            [] OTHER ->
                 IF \E k, j \in others : inv.intfs[k].dev # inv.intfs[j].dev THEN skip("ambiguous")
                 ELSE IF others # {}
                      THEN IF dflt THEN skip("default") ELSE hit(others, "gateway_global")
                 ELSE IF Bearers(inv, gw) = {} THEN skip("unresolved")
                 ELSE skip("own_address")
  BY Zenon DEF ByGateway
<1>2. own \subseteq DOMAIN inv.intfs /\ others \subseteq DOMAIN inv.intfs
  BY DEF Bearers
<1>3. own # {} => \E k \in own : First(inv.intfs, own) = inv.intfs[k]  BY <1>2, FirstIs
<1>4. others # {} => \E k \in others : First(inv.intfs, others) = inv.intfs[k]  BY <1>2, FirstIs
<1>5. \/ g = skip("no_gateway") /\ gw = NoAddr
      \/ g = hit(own, "gateway_local") /\ own # {}
      \/ g = skip("ambiguous")
      \/ g = skip("default")
      \/ /\ g = hit(others, "gateway_global") /\ others # {} /\ ~dflt
         /\ \A k, j \in others : inv.intfs[k].dev = inv.intfs[j].dev
      \/ g = skip("unresolved")
      \/ g = skip("own_address") /\ others = {}
  BY <1>1
<1>6. ASSUME NEW x PROVE <<x>> # <<>>  OBVIOUS
<1>7. \A why : skip(why).hit = <<>> /\ skip(why).why = why  OBVIOUS
<1>8. \A ks, by : hit(ks, by).hit = <<First(inv.intfs, ks)>> /\ hit(ks, by).why = by  OBVIOUS
<1>9. \A j \in Bearers(inv, gw) : j \notin others => ~Elsewhere(inv.intfs[j], d, v)  OBVIOUS
<1>10. \A k \in own : inv.intfs[k].dev = d  OBVIOUS
<1> HIDE DEF own, others, skip, hit
<1>11. CASE g = hit(own, "gateway_local") /\ own # {}
  <2>1. PICK k \in own : First(inv.intfs, own) = inv.intfs[k]  BY <1>11, <1>3
  <2>2. g.hit = <<inv.intfs[k]>> /\ g.why = "gateway_local"  BY <1>8, <1>11, <2>1
  <2>3. k \in DOMAIN inv.intfs /\ inv.intfs[k].dev = d  BY <1>2, <1>10
  <2> QED  BY <2>2, <2>3, <1>6
<1>12. CASE /\ g = hit(others, "gateway_global") /\ others # {} /\ ~dflt
            /\ \A k, j \in others : inv.intfs[k].dev = inv.intfs[j].dev
  <2>1. PICK k \in others : First(inv.intfs, others) = inv.intfs[k]  BY <1>12, <1>4
  <2>2. g.hit = <<inv.intfs[k]>> /\ g.why = "gateway_global"  BY <1>8, <1>12, <2>1
  <2>3. \A j \in Bearers(inv, gw) :
            inv.intfs[j].dev = inv.intfs[k].dev \/ ~Elsewhere(inv.intfs[j], d, v)
    BY <1>9, <1>12
  <2>4. k \in DOMAIN inv.intfs  BY <1>2
  <2> QED  BY <2>2, <2>3, <2>4, <1>6, <1>12
<1>13. CASE g = skip("ambiguous") \/ g = skip("default") \/ g = skip("unresolved")
  BY <1>7, <1>13 DEF Unproven
<1>14. CASE g = skip("no_gateway") /\ gw = NoAddr  BY <1>7, <1>14
<1>15. CASE g = skip("own_address") /\ others = {}  BY <1>7, <1>9, <1>15
<1> QED  BY <1>5, <1>11, <1>12, <1>13, <1>14, <1>15

\* A neighbour on the segment is an interface of the inventory.
LEMMA SegmentShows ==
    ASSUME NEW inv, IsList(inv.intfs), NEW d, NEW v, NEW n, BySegment(inv, d, v, n) # <<>>
    PROVE  \E k \in DOMAIN inv.intfs : BySegment(inv, d, v, n) = <<inv.intfs[k]>>
<1> DEFINE there == Listed(inv, d, n) /\ Interface(inv, d, n).ips # <<>>
           members == IF there THEN InNetwork(inv, Interface(inv, d, n).ips[1]) ELSE {}
           near == {k \in members : inv.intfs[k].dev = d /\ inv.intfs[k].vdom # v}
           far == {k \in members : Elsewhere(inv.intfs[k], d, v)}
<1>1. BySegment(inv, d, v, n) = IF near # {} THEN <<First(inv.intfs, near)>>
                                ELSE IF far # {} THEN <<First(inv.intfs, far)>> ELSE <<>>
  BY Zenon DEF BySegment
<1>2. members \subseteq DOMAIN inv.intfs  BY DEF InNetwork
<1>3. near \subseteq DOMAIN inv.intfs /\ far \subseteq DOMAIN inv.intfs  BY <1>2
<1> HIDE DEF near, far
<1>4. near # {} => \E k \in near : First(inv.intfs, near) = inv.intfs[k]  BY <1>3, FirstIs
<1>5. far # {} => \E k \in far : First(inv.intfs, far) = inv.intfs[k]  BY <1>3, FirstIs
<1> QED  BY <1>1, <1>3, <1>4, <1>5


\* Where the flow goes on: inside the device over a link, to an interface the gateway or
\* the segment shows, or to the owner of the destination; it ends at an uplink only if the
\* owner is this device or unknown.
Onto(inv, going) ==
    /\ going.class \in {"VDOM_LINK", "ROUTED"}
    /\ \E k \in DOMAIN inv.intfs : LET i == inv.intfs[k]
           IN going.dev = i.dev /\ going.vdom = i.vdom /\ going.intf = i.name
ToOwner(inv, owner, going) ==
    /\ going.by = "owner" /\ owner # NoEntry /\ going.dev = owner.dev
    /\ \/ going.class = "ROUTED" /\ going.vdom = NoVdom /\ going.intf = NoIntf
       \/ /\ going.class = "OVERLAY" /\ going.vdom = owner.vdom
          /\ going.intf = RemoteOverlay(inv, owner.dev, owner.vdom)
ToPeer(inv, d, n, going) ==
    /\ going.class = "VDOM_LINK" /\ going.by = "peer" /\ going.dev = d /\ HasPeer(inv, d, n)
    /\ going.vdom = Interface(inv, d, Twin[n]).vdom /\ going.intf = Twin[n]
Shown(inv, d, v, gw, dflt, owner, going) ==
    \/ going.class = "LOCAL"
    \/ going.class = "DEFAULT" /\ (owner = NoEntry \/ owner.dev = d)
    \/ ToOwner(inv, owner, going)
    \/ Onto(inv, going) /\ going.by = "gateway_local" /\ going.dev = d
    \/ /\ Onto(inv, going) /\ going.by = "gateway_global" /\ ~dflt
       /\ \A j \in Bearers(inv, gw) : inv.intfs[j].dev = going.dev \/ ~Elsewhere(inv.intfs[j], d, v)
    \/ /\ Onto(inv, going) /\ going.by = "segment"
       /\ gw # NoAddr => \A j \in Bearers(inv, gw) : ~Elsewhere(inv.intfs[j], d, v)

\* Any next device ClassifyEgress names is shown by the inventory or is the peer of a VDOM link.
LEMMA EgressShows ==
    ASSUME NEW inv, IsList(inv.intfs), NEW d, NEW v, NEW n, NEW gw, NEW dflt, NEW dst,
           NEW going, going = ClassifyEgress(inv, d, v, n, gw, dflt, dst)
    PROVE  Shown(inv, d, v, gw, dflt, LookupOwner(inv, dst), going) \/ ToPeer(inv, d, n, going)
<1> DEFINE owner == LookupOwner(inv, dst)
           next == NextHopViaRouting(inv, d, v, n, gw, dflt)
           overlay == Going("OVERLAY", owner.dev, owner.vdom, RemoteOverlay(inv, owner.dev, owner.vdom), "owner")
           routed == Going(IF next.hit[1].dev = d THEN "VDOM_LINK" ELSE "ROUTED",
                           next.hit[1].dev, next.hit[1].vdom, next.hit[1].name, next.why)
           peer == Going("VDOM_LINK", d, Interface(inv, d, Twin[n]).vdom, Twin[n], "peer")
<1>1. going = CASE IsLocal(inv, d, n, dst) -> Ending("LOCAL")
                [] ~IsLocal(inv, d, n, dst) /\ IsLink(inv, d, n) -> peer
                [] OTHER ->
                     CASE IsOverlay(inv, d, n) ->
                            IF owner = NoEntry \/ (owner.dev = d /\ owner.vdom = v) THEN Ending("DEFAULT")
                            ELSE overlay
                       [] ~IsOverlay(inv, d, n) /\ next.hit # <<>> -> routed
                       [] OTHER -> IF BehindAnother(owner, d)
                                   THEN Going("ROUTED", owner.dev, NoVdom, NoIntf, "owner")
                                   ELSE Ending("DEFAULT")
  BY Zenon DEF ClassifyEgress
<1>2. \/ going = Ending("LOCAL")
      \/ going = peer /\ IsLink(inv, d, n)
      \/ going = Ending("DEFAULT") /\ (owner = NoEntry \/ owner.dev = d)
      \/ going = overlay /\ owner # NoEntry
      \/ going = routed /\ next.hit # <<>>
      \/ going = Going("ROUTED", owner.dev, NoVdom, NoIntf, "owner") /\ owner # NoEntry
  <2> HIDE DEF owner, next, overlay, routed, peer
  <2> QED  BY <1>1 DEF BehindAnother
<1>3. CASE going = Ending("LOCAL")  BY <1>3 DEF Ending, Going, Shown
<1>4. CASE going = peer /\ IsLink(inv, d, n)  BY <1>4 DEF Going, ToPeer, IsLink
<1>5. CASE going = Ending("DEFAULT") /\ (owner = NoEntry \/ owner.dev = d)
  BY <1>5 DEF Ending, Going, Shown
<1>6. CASE \/ going = overlay /\ owner # NoEntry
           \/ going = Going("ROUTED", owner.dev, NoVdom, NoIntf, "owner") /\ owner # NoEntry
  <2> HIDE DEF owner
  <2>1. ToOwner(inv, owner, going)  BY <1>6 DEF Going, ToOwner
  <2> QED  BY <2>1 DEF Shown, owner
<1>7. CASE going = routed /\ next.hit # <<>>
  <2> DEFINE g == ByGateway(inv, d, v, gw, dflt)
  <2>1. next = IF g.hit # <<>> THEN g
               ELSE IF g.why \in Unproven THEN [hit |-> <<>>, why |-> g.why]
               ELSE [hit |-> BySegment(inv, d, v, n), why |-> "segment"]
    BY Zenon DEF NextHopViaRouting
  <2>2. g = ByGateway(inv, d, v, gw, dflt)  OBVIOUS
  <2> HIDE DEF g, next
  <2>3. CASE g.hit # <<>>
    <3>1. next = g  BY <2>1, <2>3
    <3>2. PICK k \in DOMAIN inv.intfs :
              /\ g.hit = <<inv.intfs[k]>>
              /\ \/ g.why = "gateway_local" /\ inv.intfs[k].dev = d
                 \/ /\ g.why = "gateway_global" /\ ~dflt
                    /\ \A j \in Bearers(inv, gw) :
                          inv.intfs[j].dev = inv.intfs[k].dev \/ ~Elsewhere(inv.intfs[j], d, v)
      BY <2>2, <2>3, GatewayShows
    <3>3. next.hit[1] = inv.intfs[k]  BY <3>1, <3>2
    <3>4. /\ going.dev = inv.intfs[k].dev /\ going.vdom = inv.intfs[k].vdom
          /\ going.intf = inv.intfs[k].name /\ going.by = g.why
      BY <1>7, <3>1, <3>3 DEF Going
    <3>5. Onto(inv, going)  BY <1>7, <3>2, <3>4 DEF Onto, Going
    <3> QED  BY <3>2, <3>4, <3>5 DEF Shown
  <2>4. CASE g.hit = <<>>
    <3>1. /\ g.why \notin Unproven /\ next = [hit |-> BySegment(inv, d, v, n), why |-> "segment"]
          /\ BySegment(inv, d, v, n) # <<>>
      BY <1>7, <2>1, <2>4
    <3>2. PICK k \in DOMAIN inv.intfs : BySegment(inv, d, v, n) = <<inv.intfs[k]>>
      BY <3>1, SegmentShows
    <3>3. next.hit[1] = inv.intfs[k] /\ next.why = "segment"  BY <3>1, <3>2
    <3>4. /\ going.dev = inv.intfs[k].dev /\ going.vdom = inv.intfs[k].vdom
          /\ going.intf = inv.intfs[k].name /\ going.by = "segment"
      BY <1>7, <3>3 DEF Going
    <3>5. Onto(inv, going)  BY <1>7, <3>4 DEF Onto, Going
    <3>6. gw # NoAddr => \A j \in Bearers(inv, gw) : ~Elsewhere(inv.intfs[j], d, v)
      BY <2>2, <2>4, <3>1, GatewayShows
    <3> QED  BY <3>4, <3>5, <3>6 DEF Shown
  <2> QED  BY <2>3, <2>4
<1> QED  BY <1>2, <1>3, <1>4, <1>5, <1>6, <1>7

(* --------------------- the flow goes on where it can --------------------- *)

\* What is pending is proven as what was walked: the device that is entered next.
OwnerIs(s) == LookupOwner(Inv, Dst) = NoEntry \/ LookupOwner(Inv, Dst).dev = s.dev
PendingIsProven ==
    phase \in {"walk", "resolve"} /\ steps # <<>> /\ here.dev # steps[Len(steps)].dev
        => Evidence(steps[Len(steps)], here.dev)
UplinksAreLast ==
    \A i \in DOMAIN steps : steps[i].class = "DEFAULT" /\ steps[i].route.found => OwnerIs(steps[i])
NextInv == world \in Worlds /\ ForeignIsProven /\ PendingIsProven /\ UplinksAreLast

\* Before the first hop there is nothing to prove.
LEMMA InitNext == Init => NextInv
<1> SUFFICES ASSUME Init PROVE NextInv  OBVIOUS
<1>1. DOMAIN steps = {} /\ Len(steps) = 0 /\ world \in Worlds /\ steps = <<>>
  BY EmptyAny DEF Init
<1> QED  BY <1>1 DEF NextInv, ForeignIsProven, PendingIsProven, UplinksAreLast

\* A hop goes on with evidence, and no hop follows an uplink.
LEMMA WalkHopNext == IInv /\ NextInv /\ WalkHop => NextInv'
<1> SUFFICES ASSUME IInv, NextInv, WalkHop PROVE NextInv'  OBVIOUS
<1> DEFINE Going0(route) == IF ~route.found THEN Ending("DEFAULT")
                            ELSE ClassifyEgress(Inv, here.dev, here.vdom, route.intf, route.gw,
                                                route.dflt, Dst)
<1>1. PICK answer \in RouteAnswers(here.dev, here.vdom) :
         LET route == Taken(answer, here.dev, here.vdom, Dst)
             going == Going0(route)
         IN /\ steps' = Append(steps, Step(answer, route, going))
            /\ \/ going.class \in Final /\ phase' = "judge" /\ UNCHANGED here
               \/ MustResolve(going) /\ phase' = "resolve"
                  /\ here' = Place(going.dev, going.vdom, going.intf)
               \/ going.class \notin Final /\ ~MustResolve(going) /\ phase' = "walk"
                  /\ here' = Entering(going.dev, going.vdom, going.intf)
  BY Zenon DEF WalkHop
<1> DEFINE route == Taken(answer, here.dev, here.vdom, Dst)
           going == Going0(route)
           s == Step(answer, route, going)
           n == Len(steps)
<1>2. world' = world /\ phase = "walk"  BY DEF WalkHop
<1>3. IsSeq(steps) /\ Len(steps) \in Nat /\ DOMAIN steps = 1..Len(steps)
  BY SeqDomain DEF IInv, Sequences
<1>4. /\ IsSeq(steps') /\ Len(steps') = n + 1 /\ steps'[n + 1] = s
      /\ \A i \in 1..n : steps'[i] = steps[i]
  BY <1>1, <1>3, AppendAny
<1>5. DOMAIN steps' = 1..(n + 1)  BY <1>3, <1>4, SeqDomain
<1>6. /\ s.dev = here.dev /\ s.vdom = here.vdom /\ s.class = going.class /\ s.by = going.by
      /\ s.route = route
  BY DEF Step
<1>7. Inv' = Inv /\ Dst' = Dst  BY <1>2 DEF Inv, Dst
<1>8. \A t, d : Evidence(t, d)' = Evidence(t, d)  BY <1>7 DEF Evidence
<1>9. \A t : OwnerIs(t)' = OwnerIs(t)  BY <1>7 DEF OwnerIs
<1>10. here'.dev = going.dev \/ (going.class \in Final /\ phase' = "judge")
  BY <1>1 DEF Place, Entering
<1>11. IsList(Inv.intfs)  BY WorldsAssumption DEF NextInv, WellFormed, Inv
<1>12. \/ going.class \in Final /\ (going.class = "DEFAULT" /\ route.found => OwnerIs(s))
       \/ going.class \notin Final /\ (going.dev # here.dev => Evidence(s, going.dev))
  <2>1. CASE ~route.found  BY <2>1 DEF Ending, Going, Final
  <2>2. CASE route.found
    <3>1. going = ClassifyEgress(Inv, here.dev, here.vdom, route.intf, route.gw, route.dflt, Dst)
      BY <2>2
    <3> DEFINE owner == LookupOwner(Inv, Dst)
    <3> HIDE DEF going, route, s, owner
    <3>2. \/ Shown(Inv, here.dev, here.vdom, route.gw, route.dflt, LookupOwner(Inv, Dst), going)
          \/ ToPeer(Inv, here.dev, route.intf, going)
      BY <1>11, <3>1, EgressShows
    <3>3. CASE ToPeer(Inv, here.dev, route.intf, going)  BY <3>3 DEF ToPeer, Final
    <3>4. CASE going.class = "LOCAL"  BY <3>4 DEF Final
    <3>5. CASE going.class = "DEFAULT" /\ OwnerIs(s)  BY <3>5 DEF Final
    <3>6. CASE ToOwner(Inv, LookupOwner(Inv, Dst), going)
      BY <3>6, <1>6 DEF ToOwner, Final, Evidence
    <3>7. CASE Onto(Inv, going) /\ going.by = "gateway_local" /\ going.dev = here.dev
      BY <3>7 DEF Onto, Final
    <3>8. CASE /\ Onto(Inv, going) /\ going.by = "gateway_global" /\ ~route.dflt
               /\ \A j \in Bearers(Inv, route.gw) :
                     Inv.intfs[j].dev = going.dev \/ ~Elsewhere(Inv.intfs[j], here.dev, here.vdom)
      BY <3>8, <1>6 DEF Onto, Final, Evidence
    <3>9. CASE /\ Onto(Inv, going) /\ going.by = "segment"
               /\ route.gw # NoAddr
                    => \A j \in Bearers(Inv, route.gw) : ~Elsewhere(Inv.intfs[j], here.dev, here.vdom)
      BY <3>9, <1>6 DEF Onto, Final, Evidence
    <3>10. OwnerIs(s) <=> LookupOwner(Inv, Dst) = NoEntry \/ LookupOwner(Inv, Dst).dev = here.dev
      BY <1>6 DEF OwnerIs
    <3> QED  BY <3>2, <3>3, <3>4, <3>5, <3>6, <3>7, <3>8, <3>9, <3>10 DEF Shown
  <2> QED  BY <2>1, <2>2
<1> HIDE DEF route, going, s, Going0
<1>13. ForeignIsProven'
  <2> SUFFICES ASSUME NEW i \in 1..Len(steps') - 1, steps'[i + 1].dev # steps'[i].dev
               PROVE  Evidence(steps'[i], steps'[i + 1].dev)
    BY <1>8 DEF ForeignIsProven
  <2>1. CASE i < n
    <3>1. i \in 1..Len(steps) - 1 /\ steps'[i] = steps[i] /\ steps'[i + 1] = steps[i + 1]
      BY <1>3, <1>4, <2>1
    <3> QED  BY <3>1 DEF NextInv, ForeignIsProven
  <2>2. CASE i = n
    <3>1. steps'[i] = steps[Len(steps)] /\ steps'[i + 1].dev = here.dev /\ steps # <<>>
      BY <1>3, <1>4, <1>6, <2>2, EmptyAny
    <3> QED  BY <3>1, <1>2 DEF NextInv, PendingIsProven
  <2>3. Len(steps') - 1 = n  BY <1>3, <1>4
  <2>4. i \in 1..n  BY <2>3
  <2>5. n \in Nat  BY <1>3
  <2> HIDE DEF n
  <2>6. i < n \/ i = n  BY <2>4, <2>5
  <2> QED  BY <2>1, <2>2, <2>6
<1>14. PendingIsProven'
  <2> SUFFICES ASSUME phase' \in {"walk", "resolve"}, here'.dev # steps'[Len(steps')].dev
               PROVE  Evidence(steps'[Len(steps')], here'.dev)
    BY <1>8 DEF PendingIsProven
  <2>1. here'.dev = going.dev /\ steps'[Len(steps')] = s  BY <1>4, <1>10
  <2>2. going.class \notin Final
    <3>1. \/ going.class \in Final /\ phase' = "judge"
          \/ MustResolve(going) /\ phase' = "resolve"
          \/ going.class \notin Final /\ phase' = "walk"
      BY <1>1 DEF going, route, s, Going0
    <3> QED  BY <3>1 DEF MustResolve, Final
  <2> QED  BY <1>6, <1>12, <2>1, <2>2
<1>15. UplinksAreLast'
  <2> SUFFICES ASSUME NEW i \in 1..(n + 1), steps'[i].class = "DEFAULT", steps'[i].route.found
               PROVE  OwnerIs(steps'[i])
    BY <1>5, <1>9 DEF UplinksAreLast
  <2>1. CASE i \in 1..n  BY <1>3, <1>4, <2>1 DEF NextInv, UplinksAreLast
  <2>2. CASE i = n + 1  BY <1>4, <1>6, <1>12, <2>2 DEF Final
  <2> QED  BY <1>3, <2>1, <2>2
<1> QED  BY <1>2, <1>13, <1>14, <1>15 DEF NextInv

\* Entering a device leaves it the device that was shown; the rest touches no hop.
LEMMA OthersNext == IInv /\ NextInv /\ [Next]_vars /\ ~WalkHop => NextInv'
<1> SUFFICES ASSUME IInv, NextInv, [Next]_vars, ~WalkHop PROVE NextInv'  OBVIOUS
<1>1. world' = world /\ steps' = steps
  BY DEF Next, vars, FindIngress, StopAtMax, StopAtLoop, ResolveEntry, JudgeHop, Finish
<1>2. \/ here' = here /\ phase' = phase
      \/ phase' \notin {"walk", "resolve"}
      \/ phase = "ingress"
      \/ phase = "resolve" /\ here'.dev = here.dev
  <2>1. CASE FindIngress  BY <2>1 DEF FindIngress
  <2>2. CASE StopAtMax \/ StopAtLoop \/ Finish  BY <2>2 DEF StopAtMax, StopAtLoop, Finish
  <2>3. CASE ResolveEntry  BY <2>3 DEF ResolveEntry, Entering, Place
  <2>4. CASE JudgeHop \/ UNCHANGED vars  BY <2>4 DEF JudgeHop, vars
  <2> QED  BY <2>1, <2>2, <2>3, <2>4 DEF Next
<1>3. Inv' = Inv /\ Dst' = Dst  BY <1>1 DEF Inv, Dst
<1>4. \A t, d : Evidence(t, d)' = Evidence(t, d)  BY <1>3 DEF Evidence
<1>5. \A t : OwnerIs(t)' = OwnerIs(t)  BY <1>3 DEF OwnerIs
<1>6. ForeignIsProven'  BY <1>1, <1>4 DEF NextInv, ForeignIsProven
<1>7. PendingIsProven'
  BY <1>1, <1>2, <1>4 DEF NextInv, PendingIsProven, IInv, Order
<1>8. UplinksAreLast'  BY <1>1, <1>5 DEF NextInv, UplinksAreLast
<1> QED  BY <1>1, <1>6, <1>7, <1>8 DEF NextInv

\* The path goes on to another device only where the gateway, the segment or the owner of
\* the destination shows it, and it is not given up at an uplink while another device is
\* known to be the destination's home (classify_egress).
THEOREM NextIsRight == Spec => []RightNext
<1>1. IInv /\ NextInv /\ [Next]_vars => NextInv'  BY WalkHopNext, OthersNext
<1>2. IInv /\ NextInv => RightNext
  <2> SUFFICES ASSUME IInv, NextInv PROVE NotGivenUp
    BY DEF RightNext, NextInv
  <2>1. IsSeq(steps) /\ Len(steps) \in Nat /\ DOMAIN steps = 1..Len(steps)
    BY SeqDomain DEF IInv, Sequences
  <2>2. phase \in {"judge", "done"} => Len(steps) \in DOMAIN steps
    <3>1. steps # <<>> => Len(steps) # 0
      <4>1. PICK S : steps \in Seq(S)  BY <2>1 DEF IsSeq
      <4> QED  BY <4>1
    <3> QED  BY <2>1, <3>1 DEF IInv, Order
  <2> QED  BY <2>2 DEF NotGivenUp, NextInv, UplinksAreLast, OwnerIs
<1> QED  BY <1>1, <1>2, InitNext, AlwaysIInv, PTL DEF Spec

(* ------------------------- lists one after the other ------------------------- *)

\* What holds of 0 and of m + 1 whenever of m < n holds of n.
LEMMA UpTo ==
    ASSUME NEW n \in Nat, NEW T, 0 \in T, \A m \in 0..n : m \in T /\ m < n => m + 1 \in T
    PROVE  n \in T
<1> DEFINE bad == {m \in 0..n : m \notin T}
<1> SUFFICES ASSUME n \notin T PROVE FALSE
  OBVIOUS
<1>1. PICK m \in bad : \A k \in bad : m <= k
  <2>1. bad \subseteq Nat /\ bad # {}
    OBVIOUS
  <2> HIDE DEF bad
  <2> QED BY <2>1, Least
<1>2. m # 0 /\ m \in 0..n /\ m \notin T
  OBVIOUS
<1>3. m - 1 \in 0..n /\ m - 1 < n /\ m - 1 \notin bad
  BY <1>1, <1>2
<1> QED BY <1>2, <1>3

\* A loop that takes each number from a to b has results.
IsLoop(f, a, b, s0, step) == f[a] = s0 /\ \A n \in (a+1)..b : f[n] = step[<<f[n-1], n>>]
\* A loop over a..b gives a result at each n.
LEMMA Loop ==
    ASSUME NEW a \in Int, NEW b \in Int, a <= b, NEW S, NEW s0 \in S, NEW step \in [S \X (a..b) -> S]
    PROVE  \E f \in [a..b -> S] : IsLoop(f, a, b, s0, step)
<1> DEFINE Runs(m) == \E f \in [a..(a+m) -> S] : f[a] = s0 /\ \A n \in (a+1)..(a+m) : f[n] = step[<<f[n-1], n>>]
           T == {m \in 0..(b-a) : Runs(m)}
<1>1. Runs(0)
  <2>1. [n \in a..a |-> s0] \in [a..a -> S] /\ [n \in a..a |-> s0][a] = s0 /\ (a+1)..a = {} /\ a + 0 = a
    OBVIOUS
  <2> QED BY <2>1
<1>2. ASSUME NEW m \in 0..(b-a), m < b - a, Runs(m) PROVE Runs(m + 1)
  <2>1. PICK f \in [a..(a+m) -> S] : f[a] = s0 /\ \A n \in (a+1)..(a+m) : f[n] = step[<<f[n-1], n>>]
    BY <1>2
  <2>2. f[a+m] \in S /\ a+m+1 \in a..b
    BY <1>2
  <2>3. step[<<f[a+m], a+m+1>>] \in S
    BY <2>2
  <2> DEFINE g == [n \in a..(a+m+1) |-> IF n <= a+m THEN f[n] ELSE step[<<f[a+m], a+m+1>>]]
  <2>4. g \in [a..(a+m+1) -> S]
    <3>1. \A n \in a..(a+m+1) : n <= a+m => n \in a..(a+m)
      OBVIOUS
    <3> QED BY <3>1, <2>3
  <2>5. g[a] = s0
    BY <2>1
  <2>6. ASSUME NEW n \in (a+1)..(a+m+1) PROVE g[n] = step[<<g[n-1], n>>]
    <3>1. CASE n <= a+m
      <4>1. n \in (a+1)..(a+m) /\ g[n] = f[n] /\ g[n-1] = f[n-1]
        BY <3>1
      <4> QED BY <4>1, <2>1
    <3>2. CASE n = a+m+1
      <4>1. g[n] = step[<<f[a+m], a+m+1>>] /\ g[n-1] = f[a+m]
        BY <3>2
      <4> QED BY <4>1, <3>2
    <3> QED BY <3>1, <3>2
  <2> HIDE DEF g
  <2>7. a + (m + 1) = a+m+1
    OBVIOUS
  <2> QED BY <2>4, <2>5, <2>6, <2>7
<1> HIDE DEF Runs
<1>3. b - a \in T
  <2>1. 0 \in T /\ b - a \in Nat /\ \A m \in 0..(b-a) : m \in T /\ m < b - a => m + 1 \in T
    BY <1>1, <1>2
  <2> HIDE DEF T
  <2> QED BY <2>1, UpTo
<1>4. Runs(b - a) /\ a + (b - a) = b
  BY <1>3
<1> QED BY <1>4 DEF Runs, IsLoop

\* A function over 1..n is a list of length n.
LEMMA ListOf ==
    ASSUME NEW n \in Nat, NEW S, NEW f \in [1..n -> S]
    PROVE  f \in Seq(S) /\ Len(f) = n /\ DOMAIN f = 1..n
OBVIOUS

\* A sequence of anything is a list of its elements.
LEMMA SeqIsList == ASSUME NEW S, NEW s \in Seq(S) PROVE IsList(s)
<1>1. DOMAIN s = 1..Len(s) /\ Len(s) \in Nat  OBVIOUS
<1>2. s \in [1..Len(s) -> ToSet(s)]  BY <1>1 DEF ToSet
<1> QED  BY <1>1, <1>2, ListOf DEF IsList

\* Two lists joined have the elements of both.
LEMMA ToSetJoin ==
    ASSUME NEW S, NEW s \in Seq(S), NEW t \in Seq(S)
    PROVE  s \o t \in Seq(S) /\ ToSet(s \o t) = ToSet(s) \cup ToSet(t)
<1>1. /\ s \o t \in Seq(S) /\ Len(s \o t) = Len(s) + Len(t)
      /\ \A i \in 1..Len(s) + Len(t) : (s \o t)[i] = IF i <= Len(s) THEN s[i] ELSE t[i - Len(s)]
  BY ConcatProperties
<1>2. /\ DOMAIN s = 1..Len(s) /\ DOMAIN t = 1..Len(t) /\ DOMAIN (s \o t) = 1..Len(s) + Len(t)
      /\ Len(s) \in Nat /\ Len(t) \in Nat
  BY <1>1
<1>3. \A i \in DOMAIN s : i \in DOMAIN (s \o t) /\ (s \o t)[i] = s[i]  BY <1>1, <1>2
<1>4. \A i \in DOMAIN t : Len(s) + i \in DOMAIN (s \o t) /\ (s \o t)[Len(s) + i] = t[i]
  BY <1>1, <1>2
<1>5. \A i \in DOMAIN (s \o t) : (s \o t)[i] \in ToSet(s) \cup ToSet(t)
  <2> TAKE i \in DOMAIN (s \o t)
  <2>1. CASE i <= Len(s)  BY <1>1, <1>2, <2>1 DEF ToSet
  <2>2. CASE i > Len(s)
    <3>1. i - Len(s) \in DOMAIN t /\ (s \o t)[i] = t[i - Len(s)]  BY <1>1, <1>2, <2>2
    <3> QED  BY <3>1 DEF ToSet
  <2> QED  BY <1>2, <2>1, <2>2
<1>6. ToSet(s) \subseteq ToSet(s \o t)  BY <1>3 DEF ToSet
<1>7. ToSet(t) \subseteq ToSet(s \o t)  BY <1>4 DEF ToSet
<1>8. ToSet(s \o t) \subseteq ToSet(s) \cup ToSet(t)  BY <1>5 DEF ToSet
<1> QED  BY <1>1, <1>6, <1>7, <1>8

\* Lists one after the other hold what any of them holds.
LEMMA ConcatHolds ==
    ASSUME NEW S, NEW s \in Seq(Seq(S))
    PROVE  /\ Concat(s) \in Seq(S)
           /\ \A x : x \in ToSet(Concat(s)) <=> \E k \in DOMAIN s : x \in ToSet(s[k])
<1> DEFINE n == Len(s)
           step == [z \in Seq(S) \X (0..n) |-> IF z[2] = 0 THEN <<>> ELSE z[1] \o s[z[2]]]
           Held(f) == f = [k \in 0..n |-> IF k = 0 THEN <<>> ELSE f[k - 1] \o s[k]]
           f == CHOOSE f : Held(f)
<1>1. n \in Nat /\ DOMAIN s = 1..n /\ \A k \in 1..n : s[k] \in Seq(S)  OBVIOUS
<1>2. Concat(s) = f[n]  BY Zenon DEF Concat
<1>3. Held(f)
  <2>1. <<>> \in Seq(S)  OBVIOUS
  <2>2. step \in [Seq(S) \X (0..n) -> Seq(S)]
    <3>1. \A z \in Seq(S) \X (0..n) : z[2] # 0 => z[1] \o s[z[2]] \in Seq(S)
      BY <1>1, ConcatProperties
    <3> QED  BY <2>1, <3>1
  <2> HIDE DEF step, n
  <2>3. PICK g \in [0..n -> Seq(S)] : IsLoop(g, 0, n, <<>>, step)
    <3>1. 0 \in Int /\ n \in Int /\ 0 <= n  BY <1>1
    <3> QED  BY <2>1, <2>2, <3>1, Loop
  <2>4. g[0] = <<>> /\ \A k \in 1..n : g[k] = step[<<g[k - 1], k>>]  BY <2>3 DEF IsLoop
  <2>5. \A k \in 1..n : g[k] = g[k - 1] \o s[k]
    <3> TAKE k \in 1..n
    <3>1. <<g[k - 1], k>> \in Seq(S) \X (0..n) /\ k # 0  BY <1>1
    <3> QED  BY <2>4, <3>1 DEF step
  <2>6. Held(g)
    <3>1. \A k \in 0..n : g[k] = IF k = 0 THEN <<>> ELSE g[k - 1] \o s[k]
      <4> TAKE k \in 0..n
      <4>1. k # 0 => k \in 1..n  BY <1>1
      <4> QED  BY <2>4, <2>5, <4>1
    <3>2. g = [k \in 0..n |-> g[k]]  OBVIOUS
    <3> QED  BY <3>1, <3>2
  <2> HIDE DEF Held
  <2> QED  BY <2>6
<1> HIDE DEF f
<1>4. f[0] = <<>> /\ \A k \in 1..n : f[k] = f[k - 1] \o s[k]
  <2>1. f = [k \in 0..n |-> IF k = 0 THEN <<>> ELSE f[k - 1] \o s[k]]  BY <1>3
  <2>2. 0 \in 0..n /\ \A k \in 1..n : k \in 0..n /\ k # 0  BY <1>1
  <2> HIDE DEF n
  <2>3. \A k \in 0..n : f[k] = IF k = 0 THEN <<>> ELSE f[k - 1] \o s[k]  BY <2>1, Zenon
  <2> QED  BY <2>2, <2>3
<1> DEFINE Good(m) == /\ f[m] \in Seq(S)
                      /\ \A x : x \in ToSet(f[m]) <=> \E k \in 1..m : x \in ToSet(s[k])
           T == {m \in 0..n : Good(m)}
<1> HIDE DEF n
<1>5. Good(0)  BY <1>4 DEF ToSet
<1>6. ASSUME NEW m \in 0..n, m < n, Good(m) PROVE Good(m + 1)
  <2>1. m + 1 \in 1..n /\ f[m + 1] = f[m] \o s[m + 1] /\ s[m + 1] \in Seq(S)
    <3>1. m + 1 \in 1..n /\ (m + 1) - 1 = m  BY <1>1, <1>6
    <3> QED  BY <1>1, <1>4, <3>1
  <2>2. f[m + 1] \in Seq(S) /\ ToSet(f[m + 1]) = ToSet(f[m]) \cup ToSet(s[m + 1])
    BY <1>6, <2>1, ToSetJoin
  <2>3. \A k : k \in 1..(m + 1) <=> k \in 1..m \/ k = m + 1  OBVIOUS
  <2> QED  BY <1>6, <2>2, <2>3
<1> HIDE DEF Good
<1>7. Good(n)
  <2>1. 0 \in T /\ \A m \in 0..n : m \in T /\ m < n => m + 1 \in T  BY <1>1, <1>5, <1>6
  <2> HIDE DEF T
  <2>2. n \in T  BY <1>1, <2>1, UpTo
  <2> QED  BY <2>2 DEF T
<1> QED  BY <1>1, <1>2, <1>7 DEF Good

(* --------------------------- what the tables hold --------------------------- *)

\* The networks of a VDOM are those of its interfaces that are up.
Holds(i, x) == \E m \in DOMAIN i.ips : x = <<i.ips[m], i.name>>
\* connected_networks: the networks of the interfaces of a VDOM that are up, no others.
LEMMA NetsHold ==
    ASSUME NEW inv, WellFormed(inv), NEW d, NEW v
    PROVE  /\ IsList(ConnectedNetworks(inv, d, v))
           /\ \A x : x \in ToSet(ConnectedNetworks(inv, d, v)) <=>
                 \E i \in ToSet(inv.intfs) : i.dev = d /\ i.vdom = v /\ i.up /\ Holds(i, x)
<1> DEFINE all == {<<i.ips[m], i.name>> : i \in ToSet(inv.intfs), m \in UNION {DOMAIN j.ips : j \in ToSet(inv.intfs)}}
           netsOf(i) == IF i.dev = d /\ i.vdom = v /\ i.up THEN [m \in DOMAIN i.ips |-> <<i.ips[m], i.name>>]
                        ELSE <<>>
           s == [k \in DOMAIN inv.intfs |-> netsOf(inv.intfs[k])]
<1>1. ConnectedNetworks(inv, d, v) = Concat(s)  BY Zenon DEF ConnectedNetworks
<1>2. IsList(inv.intfs) /\ \A i \in ToSet(inv.intfs) : IsList(i.ips)
  BY DEF WellFormed, IntfFits
<1>3. Len(inv.intfs) \in Nat /\ DOMAIN inv.intfs = 1..Len(inv.intfs)
      /\ \A k \in DOMAIN inv.intfs : inv.intfs[k] \in ToSet(inv.intfs)
  BY <1>2, Listing
<1>4. ASSUME NEW i \in ToSet(inv.intfs) PROVE netsOf(i) \in Seq(all)
  <2>1. Len(i.ips) \in Nat /\ DOMAIN i.ips = 1..Len(i.ips)  BY <1>2, Listing
  <2>2. \A m \in DOMAIN i.ips : <<i.ips[m], i.name>> \in all  OBVIOUS
  <2> HIDE DEF all
  <2>3. [m \in DOMAIN i.ips |-> <<i.ips[m], i.name>>] \in Seq(all)
    BY <2>1, <2>2, ListOf
  <2> QED  BY <2>3
<1> HIDE DEF all, netsOf
<1>5. s \in Seq(Seq(all)) /\ DOMAIN s = DOMAIN inv.intfs
  BY <1>3, <1>4, ListOf
<1>6. \A k \in DOMAIN inv.intfs : s[k] = netsOf(inv.intfs[k])  OBVIOUS
<1>7. ASSUME NEW i, NEW x
      PROVE  x \in ToSet(netsOf(i)) <=> i.dev = d /\ i.vdom = v /\ i.up /\ Holds(i, x)
  <2>1. CASE i.dev = d /\ i.vdom = v /\ i.up
    <3>1. netsOf(i) = [m \in DOMAIN i.ips |-> <<i.ips[m], i.name>>]  BY <2>1 DEF netsOf
    <3> QED  BY <2>1, <3>1 DEF ToSet, Holds
  <2>2. CASE ~(i.dev = d /\ i.vdom = v /\ i.up)
    <3>1. netsOf(i) = <<>>  BY <2>2, Zenon DEF netsOf
    <3>2. ToSet(netsOf(i)) = {}  BY <3>1 DEF ToSet
    <3> QED  BY <2>2, <3>2
  <2> QED  BY <2>1, <2>2
<1> HIDE DEF s
<1>8. /\ Concat(s) \in Seq(all)
      /\ \A x : x \in ToSet(Concat(s)) <=> \E k \in DOMAIN s : x \in ToSet(s[k])
  BY <1>5, ConcatHolds
<1>9. \A x : x \in ToSet(Concat(s)) <=> \E k \in DOMAIN inv.intfs :
         inv.intfs[k].dev = d /\ inv.intfs[k].vdom = v /\ inv.intfs[k].up /\ Holds(inv.intfs[k], x)
  BY <1>5, <1>6, <1>7, <1>8, ZenonT(60)
<1>10. IsList(Concat(s))  BY <1>8, SeqIsList
<1> QED  BY <1>1, <1>9, <1>10 DEF ToSet

\* Its static routes are the routes listed for it.
LEMMA RoutesHold ==
    ASSUME NEW inv, WellFormed(inv), NEW d, NEW v
    PROVE  /\ IsList(StaticRoutes(inv, d, v))
           /\ \A r : r \in ToSet(StaticRoutes(inv, d, v)) <=>
                 r \in ToSet(inv.routes) /\ r.dev = d /\ r.vdom = v
<1> DEFINE all == ToSet(inv.routes)
           routesOf(r) == IF r.dev = d /\ r.vdom = v THEN <<r>> ELSE <<>>
           s == [k \in DOMAIN inv.routes |-> routesOf(inv.routes[k])]
<1>1. StaticRoutes(inv, d, v) = Concat(s)  BY Zenon DEF StaticRoutes
<1>2. Len(inv.routes) \in Nat /\ DOMAIN inv.routes = 1..Len(inv.routes)
      /\ \A k \in DOMAIN inv.routes : inv.routes[k] \in all
  BY Listing DEF WellFormed
<1>3. \A r : r \in all <=> \E k \in DOMAIN inv.routes : r = inv.routes[k]  BY DEF ToSet
<1> HIDE DEF all
<1>4. ASSUME NEW r \in all PROVE routesOf(r) \in Seq(all)  OBVIOUS
<1>5. ASSUME NEW r, NEW x PROVE x \in ToSet(routesOf(r)) <=> x = r /\ r.dev = d /\ r.vdom = v
  BY DEF ToSet
<1> HIDE DEF routesOf
<1>6. s \in Seq(Seq(all)) /\ DOMAIN s = DOMAIN inv.routes  BY <1>2, <1>4, ListOf
<1>7. \A k \in DOMAIN inv.routes : s[k] = routesOf(inv.routes[k])  OBVIOUS
<1> HIDE DEF s
<1>8. /\ Concat(s) \in Seq(all)
      /\ \A x : x \in ToSet(Concat(s)) <=> \E k \in DOMAIN s : x \in ToSet(s[k])
  BY <1>6, ConcatHolds
<1>9. IsList(Concat(s))  BY <1>8, SeqIsList
<1>10. ASSUME NEW r PROVE r \in ToSet(Concat(s)) <=> r \in all /\ r.dev = d /\ r.vdom = v
  BY <1>3, <1>5, <1>6, <1>7, <1>8
<1> QED  BY <1>1, <1>9, <1>10 DEF all

\* The entries of the prefix table: networks of interfaces that are up, static routes,
\* site overrides.
Connected(i, m) == Entry(i.ips[m], "connected", i.dev, i.vdom, i.name)
OfIntf(inv, e) == \E i \in ToSet(inv.intfs) : i.up /\ \E m \in DOMAIN i.ips : e = Connected(i, m)
OfRoute(inv, e) == \E r \in ToSet(inv.routes) : e = Entry(r.net, "static", r.dev, r.vdom, r.intf)
OfSite(inv, e) == \E o \in ToSet(inv.sites) : e = Entry(o.net, "override", o.dev, o.vdom, NoIntf)
Entries(inv) ==
    {e \in {Connected(i, m) : i \in ToSet(inv.intfs), m \in UNION {DOMAIN j.ips : j \in ToSet(inv.intfs)}} :
        OfIntf(inv, e)}
    \cup {Entry(r.net, "static", r.dev, r.vdom, r.intf) : r \in ToSet(inv.routes)}
    \cup {Entry(o.net, "override", o.dev, o.vdom, NoIntf) : o \in ToSet(inv.sites)}

\* An entry of the prefix table is from an interface, a route or a site.
LEMMA EntriesAre ==
    ASSUME NEW inv, NEW e PROVE e \in Entries(inv) <=> OfIntf(inv, e) \/ OfRoute(inv, e) \/ OfSite(inv, e)
<1>1. OfIntf(inv, e) =>
        e \in {Connected(i, m) : i \in ToSet(inv.intfs), m \in UNION {DOMAIN j.ips : j \in ToSet(inv.intfs)}}
  BY DEF OfIntf
<1> QED  BY <1>1 DEF Entries, OfRoute, OfSite

\* The entries of a VDOM, its connected networks among them.
LEMMA OfVdomHolds ==
    ASSUME NEW inv, WellFormed(inv), NEW d, NEW v
    PROVE  /\ OfVdom(inv, d, v) \in Seq(Entries(inv))
           /\ \A i \in ToSet(inv.intfs) : \A m \in DOMAIN i.ips :
                 i.dev = d /\ i.vdom = v /\ i.up => Connected(i, m) \in ToSet(OfVdom(inv, d, v))
<1> DEFINE nets == ConnectedNetworks(inv, d, v)
           routes == StaticRoutes(inv, d, v)
           A == [k \in DOMAIN nets |-> Entry(nets[k][1], "connected", d, v, nets[k][2])]
           B == [k \in DOMAIN routes |-> Entry(routes[k].net, "static", d, v, routes[k].intf)]
<1>1. OfVdom(inv, d, v) = A \o B  BY Zenon DEF OfVdom
<1>2. /\ IsList(nets)
      /\ \A x : x \in ToSet(nets) <=>
            \E i \in ToSet(inv.intfs) : i.dev = d /\ i.vdom = v /\ i.up /\ Holds(i, x)
  BY NetsHold
<1>3. IsList(routes) /\ \A r : r \in ToSet(routes) <=> r \in ToSet(inv.routes) /\ r.dev = d /\ r.vdom = v
  BY RoutesHold
<1> HIDE DEF nets, routes
<1>4. /\ Len(nets) \in Nat /\ DOMAIN nets = 1..Len(nets)
      /\ Len(routes) \in Nat /\ DOMAIN routes = 1..Len(routes)
      /\ \A k \in DOMAIN nets : nets[k] \in ToSet(nets)
      /\ \A k \in DOMAIN routes : routes[k] \in ToSet(routes)
  BY <1>2, <1>3, Listing
<1>5. ASSUME NEW k \in DOMAIN nets PROVE A[k] \in Entries(inv)
  <2>1. PICK i \in ToSet(inv.intfs) : i.dev = d /\ i.vdom = v /\ i.up /\ Holds(i, nets[k])
    BY <1>2, <1>4
  <2>2. PICK m \in DOMAIN i.ips : nets[k] = <<i.ips[m], i.name>>  BY <2>1 DEF Holds
  <2>3. A[k] = Connected(i, m)  BY <2>1, <2>2 DEF Connected
  <2>4. OfIntf(inv, A[k])  BY <2>1, <2>3 DEF OfIntf
  <2> QED  BY <2>4, EntriesAre
<1>6. ASSUME NEW k \in DOMAIN routes PROVE B[k] \in Entries(inv)
  <2>1. routes[k] \in ToSet(inv.routes) /\ routes[k].dev = d /\ routes[k].vdom = v  BY <1>3, <1>4
  <2>2. B[k] = Entry(routes[k].net, "static", routes[k].dev, routes[k].vdom, routes[k].intf)
    BY <2>1
  <2>3. OfRoute(inv, B[k])  BY <2>1, <2>2 DEF OfRoute
  <2> QED  BY <2>3, EntriesAre
<1>7. A \in Seq(Entries(inv)) /\ B \in Seq(Entries(inv))
  <2>1. A \in [1..Len(nets) -> Entries(inv)]  BY <1>4, <1>5
  <2>2. B \in [1..Len(routes) -> Entries(inv)]  BY <1>4, <1>6
  <2> QED  BY <1>4, <2>1, <2>2, ListOf
<1>8. A \o B \in Seq(Entries(inv)) /\ ToSet(A \o B) = ToSet(A) \cup ToSet(B)
  BY <1>7, ToSetJoin
<1>9. ASSUME NEW i \in ToSet(inv.intfs), NEW m \in DOMAIN i.ips, i.dev = d, i.vdom = v, i.up
      PROVE  Connected(i, m) \in ToSet(A)
  <2>1. Holds(i, <<i.ips[m], i.name>>)  BY DEF Holds
  <2>2. <<i.ips[m], i.name>> \in ToSet(nets)  BY <1>2, <1>9, <2>1
  <2>3. PICK k \in DOMAIN nets : nets[k] = <<i.ips[m], i.name>>  BY <2>2 DEF ToSet
  <2>4. A[k] = Connected(i, m) /\ k \in DOMAIN A  BY <1>9, <2>3 DEF Connected
  <2> QED  BY <2>4 DEF ToSet
<1> QED  BY <1>1, <1>8, <1>9

\* The entries of a device, its connected networks among them.
LEMMA EntriesOfHolds ==
    ASSUME NEW inv, WellFormed(inv), NEW d \in ToSet(inv.devices)
    PROVE  /\ EntriesOf(inv, d) \in Seq(Entries(inv))
           /\ \A i \in ToSet(inv.intfs) : \A m \in DOMAIN i.ips :
                 i.dev = d /\ i.up => Connected(i, m) \in ToSet(EntriesOf(inv, d))
<1> DEFINE vs == inv.vdoms[d]
           s == [k \in DOMAIN vs |-> OfVdom(inv, d, vs[k])]
<1>1. EntriesOf(inv, d) = Concat(s)  BY Zenon DEF EntriesOf
<1>2. IsList(vs)  BY DEF WellFormed
<1> HIDE DEF vs
<1>3. Len(vs) \in Nat /\ DOMAIN vs = 1..Len(vs)  BY <1>2, Listing
<1>4. \A k \in DOMAIN vs : OfVdom(inv, d, vs[k]) \in Seq(Entries(inv))  BY OfVdomHolds
<1>5. s \in Seq(Seq(Entries(inv))) /\ DOMAIN s = DOMAIN vs  BY <1>3, <1>4, ListOf
<1>6. /\ Concat(s) \in Seq(Entries(inv))
      /\ \A x : x \in ToSet(Concat(s)) <=> \E k \in DOMAIN s : x \in ToSet(s[k])
  BY <1>5, ConcatHolds
<1>7. ASSUME NEW i \in ToSet(inv.intfs), NEW m \in DOMAIN i.ips, i.dev = d, i.up
      PROVE  Connected(i, m) \in ToSet(Concat(s))
  <2>1. i.vdom \in ToSet(vs)  BY <1>7 DEF WellFormed, IntfFits, vs
  <2>2. PICK k \in DOMAIN vs : i.vdom = vs[k]  BY <2>1 DEF ToSet
  <2>3. Connected(i, m) \in ToSet(OfVdom(inv, d, vs[k]))  BY <1>7, <2>2, OfVdomHolds
  <2>4. s[k] = OfVdom(inv, d, vs[k]) /\ k \in DOMAIN s  BY <1>5
  <2> QED  BY <1>6, <2>3, <2>4
<1> QED  BY <1>1, <1>6, <1>7

\* The table holds every network that is directly connected, and nothing else but routes
\* and overrides; default routes it does not hold.
LEMMA TableHolds ==
    ASSUME NEW inv, WellFormed(inv)
    PROVE  /\ IsList(inv.prefixes)
           /\ \A e \in ToSet(inv.prefixes) : e \in Entries(inv) /\ e.net.len \in 0..Bits
           /\ \A i \in ToSet(inv.intfs) : \A m \in DOMAIN i.ips :
                 i.up => Connected(i, m) \in ToSet(inv.prefixes)
<1> DEFINE s == [k \in DOMAIN inv.devices |-> EntriesOf(inv, inv.devices[k])]
           all == Overrides(inv) \o Concat(s)
           added == [k \in DOMAIN all |-> IF all[k].net.len > 0 THEN <<all[k]>> ELSE <<>>]
<1>1. inv.prefixes = Concat(added)
  <2>1. inv.prefixes = PrefixTable(inv)  BY DEF WellFormed
  <2>2. PrefixTable(inv) = Added(all)  BY Zenon DEF PrefixTable
  <2> HIDE DEF all
  <2>3. Added(all) = Concat(added)  BY Zenon DEF Added
  <2> QED  BY <2>1, <2>2, <2>3
<1>2. IsList(inv.devices) /\ IsList(inv.sites)  BY DEF WellFormed
<1>3. /\ Len(inv.devices) \in Nat /\ DOMAIN inv.devices = 1..Len(inv.devices)
      /\ Len(inv.sites) \in Nat /\ DOMAIN inv.sites = 1..Len(inv.sites)
      /\ \A k \in DOMAIN inv.devices : inv.devices[k] \in ToSet(inv.devices)
      /\ \A k \in DOMAIN inv.sites : inv.sites[k] \in ToSet(inv.sites)
  BY <1>2, Listing
<1>4. \A k \in DOMAIN inv.devices : EntriesOf(inv, inv.devices[k]) \in Seq(Entries(inv))
  BY <1>3, EntriesOfHolds
<1>5. s \in Seq(Seq(Entries(inv))) /\ DOMAIN s = DOMAIN inv.devices  BY <1>3, <1>4, ListOf
<1>6. \A k \in DOMAIN inv.devices : s[k] = EntriesOf(inv, inv.devices[k])  OBVIOUS
<1> HIDE DEF s
<1>7. /\ Concat(s) \in Seq(Entries(inv))
      /\ \A x : x \in ToSet(Concat(s)) <=> \E k \in DOMAIN s : x \in ToSet(s[k])
  BY <1>5, ConcatHolds
<1>8. Overrides(inv) \in Seq(Entries(inv))
  <2>1. ASSUME NEW k \in DOMAIN inv.sites
        PROVE  Entry(inv.sites[k].net, "override", inv.sites[k].dev, inv.sites[k].vdom, NoIntf) \in Entries(inv)
    BY <1>3 DEF Entries
  <2> QED  BY <1>3, <2>1, ListOf DEF Overrides
<1>9. all \in Seq(Entries(inv)) /\ ToSet(all) = ToSet(Overrides(inv)) \cup ToSet(Concat(s))
  BY <1>7, <1>8, ToSetJoin
<1> HIDE DEF all
<1>10. Len(all) \in Nat /\ DOMAIN all = 1..Len(all) /\ \A k \in DOMAIN all : all[k] \in Entries(inv)
  BY <1>9
<1>11. /\ added \in Seq(Seq(Entries(inv))) /\ DOMAIN added = DOMAIN all
       /\ \A k \in DOMAIN all : added[k] = IF all[k].net.len > 0 THEN <<all[k]>> ELSE <<>>
  <2>1. \A k \in DOMAIN all : (IF all[k].net.len > 0 THEN <<all[k]>> ELSE <<>>) \in Seq(Entries(inv))
    BY <1>10
  <2> QED  BY <1>10, <2>1, ListOf
<1> HIDE DEF added
<1>12. /\ Concat(added) \in Seq(Entries(inv))
       /\ \A x : x \in ToSet(Concat(added)) <=> \E k \in DOMAIN added : x \in ToSet(added[k])
  BY <1>11, ConcatHolds
<1>13. IsList(inv.prefixes)  BY <1>1, <1>12, SeqIsList
<1>14. ASSUME NEW e \in ToSet(inv.prefixes) PROVE e \in Entries(inv) /\ e.net.len \in 0..Bits
  <2>1. e \in Entries(inv)
    <3>1. Concat(added) \in Seq(Entries(inv)) /\ e \in ToSet(Concat(added))  BY <1>1, <1>12
    <3>2. PICK k \in DOMAIN Concat(added) : e = Concat(added)[k]  BY <3>1 DEF ToSet
    <3> QED  BY <3>1, <3>2
  <2>2. CASE OfIntf(inv, e)
    <3>1. PICK i \in ToSet(inv.intfs) : \E m \in DOMAIN i.ips : e = Connected(i, m)
      BY <2>2 DEF OfIntf
    <3>2. e.net.len \in 1..Bits  BY <3>1 DEF Connected, Entry, WellFormed, IntfFits
    <3> QED  BY <2>1, <3>2, BitsAssumption
  <2>3. CASE OfRoute(inv, e)  BY <2>1, <2>3 DEF OfRoute, Entry, WellFormed
  <2>4. CASE OfSite(inv, e)  BY <2>1, <2>4 DEF OfSite, Entry, WellFormed
  <2> QED  BY <2>1, <2>2, <2>3, <2>4, EntriesAre
<1>15. ASSUME NEW i \in ToSet(inv.intfs), NEW m \in DOMAIN i.ips, i.up
       PROVE  Connected(i, m) \in ToSet(inv.prefixes)
  <2> DEFINE e == Connected(i, m)
  <2>1. i.dev \in ToSet(inv.devices) /\ e.net.len \in 1..Bits
    BY DEF WellFormed, IntfFits, Connected, Entry
  <2> HIDE DEF e
  <2>2. PICK j \in DOMAIN inv.devices : i.dev = inv.devices[j]  BY <2>1 DEF ToSet
  <2>3. e \in ToSet(EntriesOf(inv, inv.devices[j]))  BY <1>15, <2>1, <2>2, EntriesOfHolds DEF e
  <2>4. e \in ToSet(Concat(s))  BY <1>5, <1>6, <1>7, <2>3
  <2>5. PICK k \in DOMAIN all : e = all[k]  BY <1>9, <2>4 DEF ToSet
  <2>6. added[k] = <<e>>  BY <1>11, <2>1, <2>5, BitsAssumption
  <2>7. e \in ToSet(added[k])  BY <2>6 DEF ToSet
  <2>8. e \in ToSet(Concat(added))  BY <1>11, <1>12, <2>5, <2>7
  <2> QED  BY <1>1, <2>8 DEF e
<1> QED  BY <1>13, <1>14, <1>15

(* ------------------------------ where an address is at home ------------------------------ *)

\* The stable sort has a first entry: the least by length and source, then by position.
Weight(e) == 3 * (Bits - e.net.len) + Priority[e.source]
\* The foremost of some entries is one of them.
LEMMA ForemostIs ==
    ASSUME NEW entries, NEW ks, ks \subseteq DOMAIN entries, ks \subseteq Nat, ks # {},
           \A k \in ks : entries[k].net.len \in 0..Bits /\ entries[k].source \in {"override", "connected", "static"}
    PROVE  \E k \in ks : Foremost(entries, ks) = entries[k]
<1> DEFINE w == [k \in ks |-> Weight(entries[k])]
           First1(k) == \A j \in ks : Before(entries[k], entries[j]) \/ (~Before(entries[j], entries[k]) /\ k <= j)
<1>1. \A k \in ks : Priority[entries[k].source] \in 0..2  BY DEF Priority
<1>2. \A k \in ks : w[k] \in Nat  BY <1>1, BitsAssumption DEF Weight
<1>3. ASSUME NEW k \in ks, NEW j \in ks PROVE Before(entries[k], entries[j]) <=> w[k] < w[j]
  <2>1. PICK a \in 0..Bits, b \in 0..Bits : a = entries[k].net.len /\ b = entries[j].net.len
    OBVIOUS
  <2>2. PICK p \in 0..2, r \in 0..2 : p = Priority[entries[k].source] /\ r = Priority[entries[j].source]
    BY <1>1
  <2>3. w[k] = 3 * (Bits - a) + p /\ w[j] = 3 * (Bits - b) + r  BY <2>1, <2>2 DEF Weight
  <2>4. Before(entries[k], entries[j]) <=> (a > b \/ (a = b /\ p < r))  BY <2>1, <2>2 DEF Before
  <2>5. (a > b \/ (a = b /\ p < r)) <=> 3 * (Bits - a) + p < 3 * (Bits - b) + r  BY BitsAssumption
  <2> QED  BY <2>3, <2>4, <2>5
<1> HIDE DEF w
<1>4. PICK x \in {w[k] : k \in ks} : \A y \in {w[k] : k \in ks} : x <= y
  <2>1. {w[k] : k \in ks} \subseteq Nat /\ {w[k] : k \in ks} # {}  BY <1>2
  <2> QED  BY <2>1, Least
<1>5. PICK k \in {j \in ks : w[j] = x} : \A j \in {j \in ks : w[j] = x} : k <= j
  <2>1. {j \in ks : w[j] = x} \subseteq Nat /\ {j \in ks : w[j] = x} # {}  BY <1>4
  <2> QED  BY <2>1, Least
<1>6. First1(k)
  <2> SUFFICES ASSUME NEW j \in ks
               PROVE Before(entries[k], entries[j]) \/ (~Before(entries[j], entries[k]) /\ k <= j)
    BY <1>5
  <2>1. w[k] = x /\ x <= w[j] /\ w[k] \in Nat /\ w[j] \in Nat  BY <1>2, <1>4, <1>5
  <2>2. CASE w[k] < w[j]  BY <1>3, <1>5, <2>2
  <2>3. CASE w[k] = w[j]
    <3>1. k <= j  BY <1>5, <2>1, <2>3
    <3>2. ~Before(entries[j], entries[k])  BY <1>3, <1>5, <2>1, <2>3
    <3> QED  BY <3>1, <3>2
  <2> QED  BY <2>1, <2>2, <2>3
<1>7. Foremost(entries, ks) = entries[CHOOSE i \in ks : First1(i)]  BY Zenon DEF Foremost
<1> HIDE DEF First1
<1>8. (CHOOSE i \in ks : First1(i)) \in ks  BY <1>5, <1>6
<1> QED  BY <1>7, <1>8

\* The source of an entry says where it is from.
LEMMA SourcesAre ==
    ASSUME NEW inv, NEW e \in Entries(inv)
    PROVE  /\ e.source \in {"override", "connected", "static"}
           /\ e.source = "connected" => OfIntf(inv, e)
           /\ e.source = "override" => OfSite(inv, e)
<1>1. CASE OfIntf(inv, e)  BY <1>1 DEF OfIntf, Connected, Entry
<1>2. CASE OfRoute(inv, e)  BY <1>2 DEF OfRoute, Entry
<1>3. CASE OfSite(inv, e)  BY <1>3 DEF OfSite, Entry
<1> QED  BY <1>1, <1>2, <1>3, EntriesAre

\* The owner of an address is one of the entries that hold it, and one of the connected
\* networks and overrides if any of them does.
LEMMA OwnerHolds ==
    ASSUME NEW inv, WellFormed(inv), NEW a, LookupOwner(inv, a) # NoEntry
    PROVE  /\ LookupOwner(inv, a) \in Entries(inv)
           /\ InNet(a, LookupOwner(inv, a).net)
           /\ (\E e \in ToSet(inv.prefixes) : Owned(e) /\ InNet(a, e.net))
                => Owned(LookupOwner(inv, a))
<1> DEFINE matches == {k \in DOMAIN inv.prefixes : InNet(a, inv.prefixes[k].net)}
           owned == {k \in matches : Owned(inv.prefixes[k])}
           ks == IF owned = {} THEN matches ELSE owned
<1>1. LookupOwner(inv, a) = Foremost(inv.prefixes, ks)  BY Zenon DEF LookupOwner
<1>2. /\ IsList(inv.prefixes)
      /\ \A e \in ToSet(inv.prefixes) : e \in Entries(inv) /\ e.net.len \in 0..Bits
  BY TableHolds
<1>3. DOMAIN inv.prefixes \subseteq Nat /\ \A k \in DOMAIN inv.prefixes : inv.prefixes[k] \in ToSet(inv.prefixes)
  BY <1>2, Listing
<1>4. ks \subseteq matches /\ matches \subseteq DOMAIN inv.prefixes  OBVIOUS
<1>5. \A k \in matches : InNet(a, inv.prefixes[k].net)  OBVIOUS
<1>6. (\E e \in ToSet(inv.prefixes) : Owned(e) /\ InNet(a, e.net)) => \A k \in ks : Owned(inv.prefixes[k])
  <2>1. (\E e \in ToSet(inv.prefixes) : Owned(e) /\ InNet(a, e.net)) => owned # {}
    BY DEF ToSet
  <2> QED  BY <2>1
<1> HIDE DEF ks, matches
<1>7. ks # {}  BY <1>1 DEF Foremost
<1>8. PICK k \in ks : Foremost(inv.prefixes, ks) = inv.prefixes[k]
  <2>1. \A k \in ks : /\ inv.prefixes[k].net.len \in 0..Bits
                      /\ inv.prefixes[k].source \in {"override", "connected", "static"}
    BY <1>2, <1>3, <1>4, SourcesAre
  <2>2. ks \subseteq DOMAIN inv.prefixes /\ ks \subseteq Nat  BY <1>3, <1>4
  <2> QED  BY <1>7, <2>1, <2>2, ForemostIs
<1>9. inv.prefixes[k] \in Entries(inv)  BY <1>2, <1>3, <1>4
<1> QED  BY <1>1, <1>4, <1>5, <1>6, <1>8, <1>9

(* --------------------------- doors that fit their VDOM --------------------------- *)

\* A device has one interface of a name.
LEMMA IntfIs ==
    ASSUME NEW inv, WellFormed(inv), NEW i \in ToSet(inv.intfs)
    PROVE  Interface(inv, i.dev, i.name) = i /\ i.vdom # NoVdom /\ i.name \notin {NoIntf, AnyIntf}
<1>1. i \in Records(inv, i.dev, i.name)  BY DEF Records
<1>2. \A j \in Records(inv, i.dev, i.name) : j = i
  BY DEF Records, WellFormed, IntfFits
<1>3. Interface(inv, i.dev, i.name) = i  BY <1>1, <1>2 DEF Interface
<1> QED  BY <1>3 DEF WellFormed, IntfFits

\* An interface is one of its own VDOM.
LEMMA OwnFits ==
    ASSUME NEW inv, WellFormed(inv), NEW i \in ToSet(inv.intfs)
    PROVE  Fits(inv, i.dev, i.vdom, i.name)
BY IntfIs DEF Fits

\* No interface is called as the absence of one, or "any".
LEMMA Unlisted ==
    ASSUME NEW inv, WellFormed(inv), NEW d PROVE ~Listed(inv, d, NoIntf) /\ ~Listed(inv, d, AnyIntf)
BY DEF Listed, Records, WellFormed, IntfFits

\* Whatever network, route or owner an interface is read from, it is one of the VDOM.
LEMMA NetFits ==
    ASSUME NEW inv, WellFormed(inv), NEW d, NEW v, NEW x \in ToSet(ConnectedNetworks(inv, d, v))
    PROVE  Fits(inv, d, v, x[2])
<1>1. PICK i \in ToSet(inv.intfs) : i.dev = d /\ i.vdom = v /\ Holds(i, x)  BY NetsHold
<1>2. x[2] = i.name  BY <1>1 DEF Holds
<1> QED  BY <1>1, <1>2, OwnFits

\* A static route leaves by an interface of its VDOM.
LEMMA RouteFits ==
    ASSUME NEW inv, WellFormed(inv), NEW d, NEW v, NEW r \in ToSet(StaticRoutes(inv, d, v))
    PROVE  Fits(inv, d, v, r.intf) /\ r.net.len \in 0..Bits
BY RoutesHold DEF WellFormed

\* So does what the prefix table says of a network.
LEMMA EntryFits ==
    ASSUME NEW inv, WellFormed(inv), NEW e \in Entries(inv) PROVE Fits(inv, e.dev, e.vdom, e.intf)
<1>1. CASE OfIntf(inv, e)
  <2>1. PICK i \in ToSet(inv.intfs) : \E m \in DOMAIN i.ips : e = Connected(i, m)  BY <1>1 DEF OfIntf
  <2>2. e.dev = i.dev /\ e.vdom = i.vdom /\ e.intf = i.name  BY <2>1 DEF Connected, Entry
  <2> QED  BY <2>2, OwnFits
<1>2. CASE OfRoute(inv, e)
  <2>1. PICK r \in ToSet(inv.routes) : e = Entry(r.net, "static", r.dev, r.vdom, r.intf)
    BY <1>2 DEF OfRoute
  <2>2. e.dev = r.dev /\ e.vdom = r.vdom /\ e.intf = r.intf  BY <2>1 DEF Entry
  <2> QED  BY <2>2 DEF WellFormed
<1>3. CASE OfSite(inv, e)
  <2>1. e.intf = NoIntf  BY <1>3 DEF OfSite, Entry
  <2> QED  BY <2>1, Unlisted DEF Fits
<1> QED  BY <1>1, <1>2, <1>3, EntriesAre

\* The longest of some networks, and the last of them, is one of them.
LEMMA LongestIs ==
    ASSUME NEW n \in Nat, NEW ks, ks \subseteq 1..n, ks # {}, NEW net, \A k \in ks : net[k].len \in 0..Bits
    PROVE  /\ Longest(ks, net) \subseteq ks /\ Longest(ks, net) # {}
           /\ Max(Longest(ks, net)) \in ks
<1> DEFINE rest == {Bits - net[k].len : k \in ks}
<1>1. rest \subseteq Nat /\ rest # {}  BY BitsAssumption
<1>2. PICK k \in ks : \A y \in rest : Bits - net[k].len <= y  BY <1>1, Least
<1>3. \A j \in ks : net[j].len <= net[k].len
  <2> TAKE j \in ks
  <2>1. Bits - net[k].len <= Bits - net[j].len  BY <1>2
  <2>2. net[j].len \in Int /\ net[k].len \in Int  OBVIOUS
  <2> QED  BY <2>1, <2>2, BitsAssumption
<1>4. Longest(ks, net) # {} /\ Longest(ks, net) \subseteq ks  BY <1>3 DEF Longest
<1> DEFINE far == {n - j : j \in Longest(ks, net)}
<1>5. far \subseteq Nat /\ far # {}
  <2>1. \A j \in Longest(ks, net) : j \in 1..n  BY <1>4
  <2>2. \A j \in Longest(ks, net) : n - j \in Nat  BY <2>1
  <2> QED  BY <1>4, <2>2
<1>6. PICK m \in Longest(ks, net) : \A y \in far : n - m <= y  BY <1>5, Least
<1>7. \A j \in Longest(ks, net) : m >= j
  <2> TAKE j \in Longest(ks, net)
  <2>1. n - m <= n - j /\ m \in 1..n /\ j \in 1..n  BY <1>4, <1>6
  <2> QED  BY <2>1
<1>8. Max(Longest(ks, net)) \in Longest(ks, net)  BY <1>7 DEF Max
<1> QED  BY <1>4, <1>8

\* A route looked up in the inventory leaves by an interface of the VDOM it was looked up in.
LEMMA CachedFits ==
    ASSUME NEW inv, WellFormed(inv), NEW d, NEW v, NEW a, CachedRoute(inv, d, v, a).found
    PROVE  Fits(inv, d, v, CachedRoute(inv, d, v, a).intf)
<1> DEFINE nets == ConnectedNetworks(inv, d, v)
           routes == StaticRoutes(inv, d, v)
           connected == {k \in DOMAIN nets : InNet(a, nets[k][1])}
           static == {k \in DOMAIN routes : /\ InNet(a, routes[k].net) /\ routes[k].intf # NoIntf
                                            /\ \A j \in connected : routes[k].net.len > nets[j][1].len}
           net == nets[Max(Longest(connected, [k \in DOMAIN nets |-> nets[k][1]]))]
           route == First(routes, Longest(static, [k \in DOMAIN routes |-> routes[k].net]))
<1>1. CachedRoute(inv, d, v, a) =
         IF static # {} THEN Route(route.intf, route.gw, route.net.len = 0, FALSE)
         ELSE IF connected # {} THEN Route(net[2], NoAddr, net[1].len = 0, FALSE)
         ELSE NoRoute
  BY Zenon DEF CachedRoute
<1>2. IsList(nets) /\ IsList(routes)  BY NetsHold, RoutesHold
<1>3. \A x \in ToSet(nets) : Fits(inv, d, v, x[2]) /\ x[1].len \in 0..Bits
  <2> SUFFICES ASSUME NEW x \in ToSet(nets) PROVE Fits(inv, d, v, x[2]) /\ x[1].len \in 0..Bits
    OBVIOUS
  <2>1. PICK i \in ToSet(inv.intfs) : Holds(i, x)  BY NetsHold
  <2>2. x[1].len \in 1..Bits  BY <2>1 DEF Holds, WellFormed, IntfFits
  <2> QED  BY <2>2, NetFits, BitsAssumption
<1>4. \A r \in ToSet(routes) : Fits(inv, d, v, r.intf) /\ r.net.len \in 0..Bits  BY RouteFits
<1>5. connected \subseteq DOMAIN nets /\ static \subseteq DOMAIN routes  OBVIOUS
<1> HIDE DEF nets, routes, connected, static
<1>6. /\ Len(nets) \in Nat /\ DOMAIN nets = 1..Len(nets) /\ \A k \in DOMAIN nets : nets[k] \in ToSet(nets)
      /\ Len(routes) \in Nat /\ DOMAIN routes = 1..Len(routes)
      /\ \A k \in DOMAIN routes : routes[k] \in ToSet(routes)
  BY <1>2, Listing
<1>7. CASE static # {}
  <2> DEFINE f == [k \in DOMAIN routes |-> routes[k].net]
  <2>1. \A k \in static : f[k].len \in 0..Bits  BY <1>4, <1>5, <1>6
  <2>2. static \subseteq 1..Len(routes)  BY <1>5, <1>6
  <2> HIDE DEF f
  <2>3. Longest(static, f) \subseteq static /\ Longest(static, f) # {}
    BY <1>6, <1>7, <2>1, <2>2, LongestIs
  <2>4. Longest(static, f) \subseteq DOMAIN routes  BY <1>5, <2>3
  <2>5. PICK k \in Longest(static, f) : First(routes, Longest(static, f)) = routes[k]
    BY <1>2, <2>3, <2>4, FirstIs
  <2>6. route = routes[k]  BY <2>5 DEF f
  <2>7. Fits(inv, d, v, route.intf)  BY <1>4, <1>6, <2>4, <2>6
  <2> QED  BY <1>1, <1>7, <2>7 DEF Route
<1>8. CASE static = {} /\ connected # {}
  <2> DEFINE f == [k \in DOMAIN nets |-> nets[k][1]]
  <2>1. \A k \in connected : f[k].len \in 0..Bits  BY <1>3, <1>5, <1>6
  <2>2. connected \subseteq 1..Len(nets)  BY <1>5, <1>6
  <2> HIDE DEF f
  <2>3. Max(Longest(connected, f)) \in connected
    BY <1>6, <1>8, <2>1, <2>2, LongestIs
  <2>4. net \in ToSet(nets)  BY <1>5, <1>6, <2>3 DEF f
  <2>5. Fits(inv, d, v, net[2])  BY <1>3, <2>4
  <2> QED  BY <1>1, <1>8, <2>5 DEF Route
<1>9. CASE static = {} /\ connected = {}
  <2>1. CachedRoute(inv, d, v, a) = NoRoute  BY <1>1, <1>9
  <2> QED  BY <2>1 DEF NoRoute
<1> QED  BY <1>7, <1>8, <1>9

\* The overlay a remote device is entered by is an interface of the VDOM, if there is one.
LEMMA RemoteFits ==
    ASSUME NEW inv, WellFormed(inv), NEW d, NEW v
    PROVE  \/ RemoteOverlay(inv, d, v) = NoIntf
           \/ \E i \in ToSet(inv.intfs) : i.dev = d /\ i.vdom = v /\ i.name = RemoteOverlay(inv, d, v)
<1> DEFINE own == {j \in ToSet(inv.intfs) : j.dev = d /\ j.vdom = v /\ IsOverlay(inv, d, j.name)}
           names == {i.name : i \in own}
           Ahead(n) == \A m \in names : Rank[n] <= Rank[m]
<1>1. RemoteOverlay(inv, d, v) = IF names = {} THEN NoIntf ELSE CHOOSE n \in names : Ahead(n)
  BY Zenon DEF RemoteOverlay
<1>2. CASE names # {}
  <2>1. \A n \in names : Rank[n] \in Nat  BY DEF WellFormed, IntfFits
  <2> DEFINE ranks == {Rank[n] : n \in names}
  <2> HIDE DEF names
  <2>2. ranks \subseteq Nat /\ ranks # {}  BY <1>2, <2>1
  <2>3. PICK n \in names : \A y \in ranks : Rank[n] <= y  BY <2>2, Least
  <2>4. Ahead(n)  BY <2>3
  <2> HIDE DEF Ahead
  <2>5. RemoteOverlay(inv, d, v) \in names  BY <1>1, <1>2, <2>4
  <2> QED  BY <2>5 DEF names
<1> QED  BY <1>1, <1>2

\* Entering a VDOM by an interface that fits it, whatever is left open.
LEMMA EnteringFits ==
    ASSUME NEW inv, WellFormed(inv), NEW d, NEW v, NEW n, v # NoVdom, Fits(inv, d, v, n),
           NEW e, e = Entering(d, v, n)
    PROVE  Fits(inv, e.dev, e.vdom, e.intf)
<1>1. e.dev = d /\ e.vdom = v /\ e.intf = IF n = NoIntf THEN AnyIntf ELSE n
  BY DEF Entering, Place
<1> QED  BY <1>1, Unlisted DEF Fits

\* A device entered by no known interface is entered by "any".
LEMMA OpenFits ==
    ASSUME NEW inv, WellFormed(inv), NEW d, NEW v, NEW e, e = Entering(d, v, NoIntf)
    PROVE  Fits(inv, e.dev, e.vdom, e.intf)
<1>1. e.dev = d /\ e.intf = AnyIntf  BY DEF Entering, Place
<1> QED  BY <1>1, Unlisted DEF Fits

\* The VDOMs whose routes back are looked up have names.
LEMMA TriedHasNames ==
    ASSUME NEW inv, WellFormed(inv), NEW d
    PROVE  IsList(Tried(inv, d, Root)) /\ NoVdom \notin ToSet(Tried(inv, d, Root))
<1>1. ASSUME NEW x, x # NoVdom PROVE IsList(<<x>>) /\ NoVdom \notin ToSet(<<x>>)
  <2>1. <<x>> \in Seq({x}) /\ DOMAIN <<x>> = {1} /\ <<x>>[1] = x  OBVIOUS
  <2> QED  BY <1>1, <2>1, SeqIsList DEF ToSet
<1>2. IsList(VdomsOf(inv, d)) /\ NoVdom \notin ToSet(VdomsOf(inv, d))
  <2>1. <<>> \in Seq({}) /\ DOMAIN <<>> = {}  OBVIOUS
  <2>2. IsList(<<>>) /\ ToSet(<<>>) = {}  BY <2>1, SeqIsList DEF ToSet
  <2>3. CASE d \in ToSet(inv.devices)  BY <2>3 DEF VdomsOf, WellFormed
  <2>4. CASE d \notin ToSet(inv.devices)  BY <2>2, <2>4 DEF VdomsOf
  <2> QED  BY <2>3, <2>4
<1>3. CASE Signal(inv, d) # NoVdom  BY <1>1, <1>3 DEF Tried
<1>4. CASE Signal(inv, d) = NoVdom /\ VdomsOf(inv, d) # <<>>  BY <1>2, <1>4 DEF Tried
<1>5. CASE Signal(inv, d) = NoVdom /\ VdomsOf(inv, d) = <<>>
  BY <1>1, <1>5, WorldsAssumption DEF Tried
<1> QED  BY <1>3, <1>4, <1>5

\* The VDOM a device is entered in has the interface it is entered by.
LEMMA ResolvedFits ==
    ASSUME NEW inv, WellFormed(inv), NEW d, NEW back,
           \A v \in ToSet(Tried(inv, d, Root)) : back[v].found => Fits(inv, d, v, back[v].intf),
           NEW entry, entry = ResolveIngress(inv, d, Root, back),
           NEW e, e = Entering(d, entry.vdom, entry.intf)
    PROVE  Fits(inv, e.dev, e.vdom, e.intf)
<1> DEFINE tried == Tried(inv, d, Root)
           routed == {k \in DOMAIN tried : back[tried[k]].found}
           real == {k \in routed : ~IsVdomLink(inv, d, back[tried[k]].intf)}
           by(v) == [vdom |-> v, intf |-> back[v].intf]
<1>1. entry = CASE real # {} -> by(First(tried, real))
                [] real = {} /\ routed # {} -> by(First(tried, routed))
                [] OTHER -> [vdom |-> Signal(inv, d), intf |-> NoIntf]
  BY Zenon DEF ResolveIngress
<1>2. IsList(tried) /\ NoVdom \notin ToSet(tried)  BY TriedHasNames
<1>3. real \subseteq routed /\ routed \subseteq DOMAIN tried
      /\ \A k \in routed : back[tried[k]].found
  OBVIOUS
<1>4. \A v \in ToSet(tried) : back[v].found => Fits(inv, d, v, back[v].intf)  OBVIOUS
<1> HIDE DEF tried, routed, real
<1>5. \A k \in DOMAIN tried : tried[k] \in ToSet(tried)  BY <1>2, Listing
<1>6. ASSUME NEW ks, ks \subseteq routed, ks # {}, entry = by(First(tried, ks))
      PROVE  Fits(inv, e.dev, e.vdom, e.intf)
  <2>1. PICK k \in ks : First(tried, ks) = tried[k]  BY <1>2, <1>3, <1>6, FirstIs
  <2>2. entry.vdom = tried[k] /\ entry.intf = back[tried[k]].intf  BY <1>6, <2>1
  <2>3. tried[k] # NoVdom /\ Fits(inv, d, tried[k], back[tried[k]].intf)
    BY <1>2, <1>3, <1>4, <1>5, <1>6
  <2> QED  BY <2>2, <2>3, EnteringFits
<1>7. CASE real # {}  BY <1>1, <1>3, <1>6, <1>7
<1>8. CASE real = {} /\ routed # {}  BY <1>1, <1>6, <1>8
<1>9. CASE real = {} /\ routed = {}
  <2>1. entry = [vdom |-> Signal(inv, d), intf |-> NoIntf]  BY <1>1, <1>9
  <2>2. entry.intf = NoIntf  BY <2>1
  <2> QED  BY <2>2, OpenFits
<1> QED  BY <1>7, <1>8, <1>9

(* ------------------------- every device by the right door ------------------------- *)

\* The door of the next hop fits already, and the first one is where the source is at home.
AtSource(d, v) == Somewhere(Src) => Home(d, v, Src) \/ Override(d, v, Src)
DoorInv ==
    /\ world \in Worlds
    /\ EntryBelongs /\ StartsAtHome
    /\ phase = "walk" => Fits(Inv, here.dev, here.vdom, here.intf)
    /\ phase = "walk" /\ steps = <<>> => AtSource(here.dev, here.vdom)

\* The inventory of a trace is one of a snapshot.
LEMMA InvFormed == ASSUME world \in Worlds PROVE WellFormed(Inv)
BY WorldsAssumption DEF Inv

\* A trace has entered nothing at first.
LEMMA InitDoor == Init => DoorInv
<1> SUFFICES ASSUME Init PROVE DoorInv  OBVIOUS
<1>1. DOMAIN steps = {} /\ steps = <<>> /\ world \in Worlds /\ phase = "ingress"
  BY EmptyAny DEF Init
<1> QED  BY <1>1 DEF DoorInv, EntryBelongs, StartsAtHome

\* The interface a trace starts at is one of the VDOM it starts in.
LEMMA SourceFits ==
    ASSUME world \in Worlds, NEW e \in Entries(Inv), SourceIntf(e) # NoIntf
    PROVE  Fits(Inv, e.dev, e.vdom, SourceIntf(e))
<1> DEFINE nets == ConnectedNetworks(Inv, e.dev, e.vdom)
           own == {k \in DOMAIN nets : InNet(Src, nets[k][1])}
<1>1. SourceIntf(e) = IF e.intf # NoIntf THEN e.intf
                      ELSE IF own = {} THEN NoIntf ELSE First(nets, own)[2]
  BY Zenon DEF SourceIntf
<1>2. WellFormed(Inv)  BY InvFormed
<1>3. CASE e.intf # NoIntf  BY <1>1, <1>2, <1>3, EntryFits
<1>4. CASE e.intf = NoIntf
  <2>1. own \subseteq DOMAIN nets  OBVIOUS
  <2>2. IsList(nets)  BY <1>2, NetsHold
  <2>3. \A x \in ToSet(nets) : Fits(Inv, e.dev, e.vdom, x[2])  BY <1>2, NetFits
  <2> HIDE DEF nets, own
  <2>4. SourceIntf(e) = First(nets, own)[2] /\ own # {}  BY <1>1, <1>4
  <2>5. PICK k \in own : First(nets, own) = nets[k]  BY <2>1, <2>2, <2>4, FirstIs
  <2>6. nets[k] \in ToSet(nets)  BY <2>1, <2>2, Listing
  <2> QED  BY <2>3, <2>4, <2>5, <2>6
<1> QED  BY <1>3, <1>4

\* The owner of the source has it on a connected network, unless a site says otherwise.
LEMMA OwnerIsHome ==
    ASSUME world \in Worlds, NEW e, e = LookupOwner(Inv, Src), e # NoEntry
    PROVE  e \in Entries(Inv) /\ AtSource(e.dev, e.vdom)
<1>1. WellFormed(Inv)  BY InvFormed
<1>2. /\ e \in Entries(Inv) /\ InNet(Src, e.net)
      /\ (\E f \in ToSet(Inv.prefixes) : Owned(f) /\ InNet(Src, f.net)) => Owned(e)
  BY <1>1, OwnerHolds
<1>3. ASSUME Somewhere(Src) PROVE Owned(e)
  <2>1. PICK i \in ToSet(Inv.intfs) : i.up /\ \E m \in DOMAIN i.ips : InNet(Src, i.ips[m])
    BY <1>3 DEF Somewhere, Home
  <2>2. PICK m \in DOMAIN i.ips : InNet(Src, i.ips[m])  BY <2>1
  <2>3. Connected(i, m) \in ToSet(Inv.prefixes)  BY <1>1, <2>1, TableHolds
  <2>4. Owned(Connected(i, m)) /\ Connected(i, m).net = i.ips[m]  BY DEF Owned, Connected, Entry
  <2>5. InNet(Src, Connected(i, m).net)  BY <2>2, <2>4
  <2> QED  BY <1>2, <2>3, <2>4, <2>5
<1>4. ASSUME Owned(e) PROVE Home(e.dev, e.vdom, Src) \/ Override(e.dev, e.vdom, Src)
  <2>1. OfIntf(Inv, e) \/ OfSite(Inv, e)  BY <1>2, <1>4, SourcesAre DEF Owned
  <2>2. CASE OfIntf(Inv, e)
    <3>1. PICK i \in ToSet(Inv.intfs) : i.up /\ \E m \in DOMAIN i.ips : e = Connected(i, m)
      BY <2>2 DEF OfIntf
    <3>2. PICK m \in DOMAIN i.ips : e = Connected(i, m)  BY <3>1
    <3>3. e.dev = i.dev /\ e.vdom = i.vdom /\ e.net = i.ips[m]  BY <3>2 DEF Connected, Entry
    <3>4. InNet(Src, i.ips[m])  BY <1>2, <3>3
    <3> QED  BY <3>1, <3>3, <3>4 DEF Home
  <2>3. CASE OfSite(Inv, e)
    <3>1. PICK o \in ToSet(Inv.sites) : e = Entry(o.net, "override", o.dev, o.vdom, NoIntf)
      BY <2>3 DEF OfSite
    <3>2. e.dev = o.dev /\ e.vdom = o.vdom /\ e.net = o.net  BY <3>1 DEF Entry
    <3> QED  BY <1>2, <3>2 DEF Override
  <2> QED  BY <2>1, <2>2, <2>3
<1> QED  BY <1>2, <1>3, <1>4 DEF AtSource

\* The first device is entered where the source is.
LEMMA FindDoor == DoorInv /\ IInv /\ FindIngress => DoorInv'
<1> SUFFICES ASSUME DoorInv, IInv, FindIngress PROVE DoorInv'  OBVIOUS
<1> DEFINE e == LookupOwner(Inv, Src)
<1>1. /\ phase = "ingress" /\ world' = world /\ steps' = steps
      /\ \/ phase' = "refused"
         \/ /\ phase' = "walk" /\ here' = Place(e.dev, e.vdom, SourceIntf(e))
            /\ e # NoEntry /\ SourceIntf(e) # NoIntf
  BY DEF FindIngress
<1>2. Inv' = Inv /\ Src' = Src  BY <1>1 DEF Inv, Src
<1>3. EntryBelongs' /\ StartsAtHome'
  BY <1>1, <1>2 DEF DoorInv, EntryBelongs, StartsAtHome, Somewhere, Home, Override
<1>4. CASE phase' = "refused"  BY <1>1, <1>3, <1>4 DEF DoorInv
<1>5. CASE phase' # "refused"
  <2>1. world \in Worlds  BY DEF DoorInv
  <2>2. e \in Entries(Inv) /\ AtSource(e.dev, e.vdom)  BY <1>1, <1>5, <2>1, OwnerIsHome
  <2>3. Fits(Inv, e.dev, e.vdom, SourceIntf(e))  BY <1>1, <1>5, <2>1, <2>2, SourceFits
  <2> HIDE DEF e
  <2>4. here'.dev = e.dev /\ here'.vdom = e.vdom /\ here'.intf = SourceIntf(e)
    BY <1>1, <1>5 DEF Place
  <2>5. Fits(Inv', here'.dev, here'.vdom, here'.intf)  BY <1>2, <2>3, <2>4
  <2>6. AtSource(here.dev, here.vdom)'
    BY <1>2, <2>2, <2>4 DEF AtSource, Somewhere, Home, Override
  <2> QED  BY <1>1, <1>3, <2>1, <2>5, <2>6 DEF DoorInv
<1> QED  BY <1>4, <1>5

\* Wherever a hop leads on, the next VDOM is entered by an interface of its own.
LEMMA NextFits ==
    ASSUME NEW inv, WellFormed(inv), NEW d, NEW v, NEW n, NEW gw, NEW dflt, NEW dst,
           NEW going, going = ClassifyEgress(inv, d, v, n, gw, dflt, dst),
           going.class \notin Final, ~MustResolve(going),
           NEW e, e = Entering(going.dev, going.vdom, going.intf)
    PROVE  Fits(inv, e.dev, e.vdom, e.intf)
<1> DEFINE owner == LookupOwner(inv, dst)
<1>1. IsList(inv.intfs)  BY DEF WellFormed
<1>2. Shown(inv, d, v, gw, dflt, owner, going) \/ ToPeer(inv, d, n, going)  BY <1>1, EgressShows
<1> HIDE DEF owner
<1>3. ToPeer(inv, d, n, going) \/ ToOwner(inv, owner, going) \/ Onto(inv, going)
  BY <1>2 DEF Shown, Final
<1>4. ASSUME NEW i \in ToSet(inv.intfs), going.dev = i.dev, going.vdom = i.vdom, going.intf = i.name
      PROVE  Fits(inv, e.dev, e.vdom, e.intf)
  <2>1. going.vdom # NoVdom  BY <1>4, IntfIs
  <2>2. Fits(inv, going.dev, going.vdom, going.intf)  BY <1>4, OwnFits
  <2> QED  BY <2>1, <2>2, EnteringFits
<1>5. CASE ToPeer(inv, d, n, going)
  <2> DEFINE peer == Interface(inv, d, Twin[n])
  <2>1. Records(inv, d, Twin[n]) # {}  BY <1>5 DEF ToPeer, HasPeer, Listed
  <2>2. peer \in Records(inv, d, Twin[n])  BY <2>1 DEF Interface
  <2>3. peer \in ToSet(inv.intfs) /\ peer.dev = d /\ peer.name = Twin[n]  BY <2>2 DEF Records
  <2>4. going.dev = d /\ going.vdom = peer.vdom /\ going.intf = Twin[n]  BY <1>5 DEF ToPeer
  <2> QED  BY <1>4, <2>3, <2>4
<1>6. CASE Onto(inv, going)
  <2>1. PICK k \in DOMAIN inv.intfs :
           /\ going.dev = inv.intfs[k].dev /\ going.vdom = inv.intfs[k].vdom
           /\ going.intf = inv.intfs[k].name
    BY <1>6 DEF Onto
  <2>2. inv.intfs[k] \in ToSet(inv.intfs)  BY <1>1, Listing
  <2> QED  BY <1>4, <2>1, <2>2
<1>7. CASE ToOwner(inv, owner, going)
  <2>1. CASE going.class = "ROUTED" /\ going.vdom = NoVdom  BY <2>1 DEF MustResolve
  <2>2. CASE going.vdom = owner.vdom /\ going.intf = RemoteOverlay(inv, owner.dev, owner.vdom)
    <3>1. going.dev = owner.dev  BY <1>7 DEF ToOwner
    <3>2. CASE going.intf = NoIntf  BY <3>2, OpenFits
    <3>3. CASE going.intf # NoIntf
      <4>1. PICK i \in ToSet(inv.intfs) :
               i.dev = owner.dev /\ i.vdom = owner.vdom /\ i.name = going.intf
        BY <2>2, <3>3, RemoteFits
      <4> QED  BY <1>4, <2>2, <3>1, <4>1
    <3> QED  BY <3>2, <3>3
  <2> QED  BY <1>7, <2>1, <2>2 DEF ToOwner
<1> QED  BY <1>3, <1>5, <1>6, <1>7

\* A hop hands over to the next device by an interface of its VDOM.
LEMMA WalkHopDoor == DoorInv /\ IInv /\ WalkHop => DoorInv'
<1> SUFFICES ASSUME DoorInv, IInv, WalkHop PROVE DoorInv'  OBVIOUS
<1> DEFINE Leads(route) == IF ~route.found THEN Ending("DEFAULT")
                           ELSE ClassifyEgress(Inv, here.dev, here.vdom, route.intf, route.gw,
                                               route.dflt, Dst)
<1>1. PICK answer \in RouteAnswers(here.dev, here.vdom) :
         LET route == Taken(answer, here.dev, here.vdom, Dst)
             going == Leads(route)
         IN /\ steps' = Append(steps, Step(answer, route, going))
            /\ \/ going.class \in Final /\ phase' = "judge" /\ UNCHANGED here
               \/ MustResolve(going) /\ phase' = "resolve"
                  /\ here' = Place(going.dev, going.vdom, going.intf)
               \/ going.class \notin Final /\ ~MustResolve(going) /\ phase' = "walk"
                  /\ here' = Entering(going.dev, going.vdom, going.intf)
  BY Zenon DEF WalkHop
<1> DEFINE route == Taken(answer, here.dev, here.vdom, Dst)
           going == Leads(route)
           s == Step(answer, route, going)
           n == Len(steps)
<1>2. world' = world /\ phase = "walk" /\ world \in Worlds  BY DEF WalkHop, DoorInv
<1>3. IsSeq(steps) /\ Len(steps) \in Nat /\ DOMAIN steps = 1..Len(steps)
  BY SeqDomain DEF IInv, Sequences
<1>4. /\ IsSeq(steps') /\ Len(steps') = n + 1 /\ steps'[n + 1] = s
      /\ \A i \in 1..n : steps'[i] = steps[i]
  BY <1>1, <1>3, AppendAny
<1>5. DOMAIN steps' = 1..(n + 1)  BY <1>3, <1>4, SeqDomain
<1>6. s.dev = here.dev /\ s.vdom = here.vdom /\ s.srcintf = here.intf  BY DEF Step
<1>7. Inv' = Inv /\ Src' = Src  BY <1>2 DEF Inv, Src
<1>8. phase' = "walk" => /\ going.class \notin Final /\ ~MustResolve(going)
                         /\ here' = Entering(going.dev, going.vdom, going.intf)
  BY <1>1
<1>9. WellFormed(Inv)  BY <1>2, InvFormed
<1>10. phase' = "walk" => Fits(Inv, here'.dev, here'.vdom, here'.intf)
  <2> SUFFICES ASSUME phase' = "walk" PROVE Fits(Inv, here'.dev, here'.vdom, here'.intf)
    OBVIOUS
  <2>1. route.found  BY <1>8 DEF Ending, Going, Final
  <2>2. going = ClassifyEgress(Inv, here.dev, here.vdom, route.intf, route.gw, route.dflt, Dst)
    BY <2>1
  <2> HIDE DEF going, route
  <2> QED  BY <1>8, <1>9, <2>2, NextFits
<1> HIDE DEF s, going, route, Leads
<1>11. Fits(Inv, here.dev, here.vdom, here.intf)  BY <1>2 DEF DoorInv
<1>12. EntryBelongs'
  <2> SUFFICES ASSUME NEW i \in 1..(n + 1)
               PROVE  Fits(Inv, steps'[i].dev, steps'[i].vdom, steps'[i].srcintf)
    BY <1>5, <1>7 DEF EntryBelongs, Fits
  <2>1. n \in Nat  BY <1>3
  <2>2. CASE i \in 1..n  BY <1>3, <1>4, <2>2 DEF DoorInv, EntryBelongs, Fits
  <2>3. CASE i = n + 1  BY <1>4, <1>6, <1>11, <2>3
  <2> HIDE DEF n
  <2> QED  BY <2>1, <2>2, <2>3
<1>13. steps' # <<>>  BY <1>3, <1>4, EmptyAny
<1>14. StartsAtHome'
  <2>1. \A d, v : AtSource(d, v)' <=> AtSource(d, v)
    BY <1>7 DEF AtSource, Somewhere, Home, Override
  <2>2. AtSource(steps'[1].dev, steps'[1].vdom)
    <3>1. CASE steps = <<>>
      <4>1. n = 0  BY <3>1, EmptyAny
      <4>2. steps'[1] = s  BY <1>4, <4>1
      <4> QED  BY <1>2, <1>6, <3>1, <4>2 DEF DoorInv
    <3>2. CASE steps # <<>>
      <4>1. n # 0
        <5>1. PICK S : steps \in Seq(S)  BY <1>3 DEF IsSeq
        <5> QED  BY <3>2, <5>1
      <4>2. steps'[1] = steps[1]  BY <1>3, <1>4, <4>1
      <4> QED  BY <3>2, <4>2 DEF DoorInv, StartsAtHome, AtSource
    <3> QED  BY <3>1, <3>2
  <2>3. AtSource(steps[1].dev, steps[1].vdom)'  BY <2>1, <2>2, <1>7 DEF AtSource, Somewhere, Home, Override
  <2> QED  BY <2>3 DEF StartsAtHome, AtSource
<1>15. (phase = "walk" => Fits(Inv, here.dev, here.vdom, here.intf))'  BY <1>7, <1>10
<1> QED  BY <1>2, <1>12, <1>13, <1>14, <1>15 DEF DoorInv

\* A route back that is found leaves by an interface of the VDOM, live or cached.
LEMMA BackFits ==
    ASSUME world \in Worlds, NEW d, NEW v, NEW a, NEW answer \in RouteAnswers(d, v),
           Taken(answer, d, v, a).found
    PROVE  Fits(Inv, d, v, Taken(answer, d, v, a).intf)
<1>1. CASE ~answer.route.found
  <2>1. Taken(answer, d, v, a) = CachedRoute(Inv, d, v, a)  BY <1>1 DEF Taken
  <2> QED  BY <2>1, InvFormed, CachedFits
<1>2. CASE answer.route.found
  <2>1. Taken(answer, d, v, a) = answer.route  BY <1>2 DEF Taken
  <2>2. ~NoRoute.found  BY DEF NoRoute
  <2>3. \A r, x : Answer(r, x).route = r  BY DEF Answer
  <2>4. answer.route \in LiveRoutes(d, v)
    <3>1. \/ \E x : answer = Answer(NoRoute, x)
          \/ \E r \in LiveRoutes(d, v) : answer = Answer(r, FALSE)
      BY DEF RouteAnswers
    <3>2. CASE \E x : answer = Answer(NoRoute, x)
      <4>1. answer.route = NoRoute  BY <2>3, <3>2
      <4> QED  BY <1>2, <2>2, <4>1
    <3>3. CASE \E r \in LiveRoutes(d, v) : answer = Answer(r, FALSE)
      <4>1. PICK r \in LiveRoutes(d, v) : answer = Answer(r, FALSE)  BY <3>3
      <4>2. answer.route = r  BY <2>3, <4>1
      <4> QED  BY <4>1, <4>2
    <3> QED  BY <3>1, <3>2, <3>3
  <2>5. PICK l \in world.live : l.dev = d /\ l.vdom = v /\ l.route = answer.route
    BY <2>4 DEF LiveRoutes
  <2> QED  BY <1>2, <2>1, <2>5, WorldsAssumption DEF Inv
<1> QED  BY <1>1, <1>2

\* A device of several VDOMs is entered in the VDOM that has the interface.
LEMMA ResolveDoor == DoorInv /\ IInv /\ ResolveEntry => DoorInv'
<1> SUFFICES ASSUME DoorInv, IInv, ResolveEntry PROVE DoorInv'  OBVIOUS
<1> DEFINE d == here.dev
           tried == ToSet(Tried(Inv, d, Root))
           routesBack(v) == {Taken(a, d, v, Src) : a \in RouteAnswers(d, v)}
<1>1. PICK back \in [tried -> UNION {routesBack(v) : v \in tried}] :
         /\ \A v \in tried : back[v] \in routesBack(v)
         /\ LET entry == ResolveIngress(Inv, d, Root, back)
            IN here' = Entering(d, entry.vdom, entry.intf)
  BY Zenon DEF ResolveEntry
<1>2. phase = "resolve" /\ phase' = "walk" /\ world' = world /\ steps' = steps /\ world \in Worlds
  BY DEF ResolveEntry, DoorInv
<1>3. Inv' = Inv /\ Src' = Src  BY <1>2 DEF Inv, Src
<1>4. \A v \in tried : back[v].found => Fits(Inv, d, v, back[v].intf)
  BY <1>1, <1>2, BackFits
<1>5. Fits(Inv, here'.dev, here'.vdom, here'.intf)
  <2>1. WellFormed(Inv)  BY <1>2, InvFormed
  <2> DEFINE entry == ResolveIngress(Inv, d, Root, back)
  <2>2. here' = Entering(d, entry.vdom, entry.intf) /\ entry = ResolveIngress(Inv, d, Root, back)
    BY <1>1
  <2>3. \A v \in ToSet(Tried(Inv, d, Root)) : back[v].found => Fits(Inv, d, v, back[v].intf)
    BY <1>4
  <2> HIDE DEF d, entry
  <2> QED  BY <2>1, <2>2, <2>3, ResolvedFits
<1>6. steps # <<>>  BY <1>2 DEF IInv, Order
<1>7. EntryBelongs' /\ StartsAtHome'
  BY <1>2, <1>3 DEF DoorInv, EntryBelongs, StartsAtHome, Somewhere, Home, Override
<1>8. (phase = "walk" => Fits(Inv, here.dev, here.vdom, here.intf))'  BY <1>3, <1>5
<1> QED  BY <1>2, <1>6, <1>7, <1>8 DEF DoorInv

\* All other steps enter nothing.
LEMMA OthersDoor ==
    DoorInv /\ (StopAtMax \/ StopAtLoop \/ JudgeHop \/ Finish \/ UNCHANGED vars) => DoorInv'
<1> SUFFICES ASSUME DoorInv, StopAtMax \/ StopAtLoop \/ JudgeHop \/ Finish \/ UNCHANGED vars
             PROVE  DoorInv'
  OBVIOUS
<1>1. /\ world' = world /\ steps' = steps /\ here' = here
      /\ phase' = phase \/ phase' # "walk"
  BY DEF StopAtMax, StopAtLoop, JudgeHop, Finish, vars
<1>2. Inv' = Inv /\ Src' = Src  BY <1>1 DEF Inv, Src
<1>3. EntryBelongs' /\ StartsAtHome'
  BY <1>1, <1>2 DEF DoorInv, EntryBelongs, StartsAtHome, Somewhere, Home, Override
<1>4. (phase = "walk" => Fits(Inv, here.dev, here.vdom, here.intf))'
  BY <1>1, <1>2 DEF DoorInv
<1>5. (phase = "walk" /\ steps = <<>> => AtSource(here.dev, here.vdom))'
  BY <1>1, <1>2 DEF DoorInv, AtSource, Somewhere, Home, Override
<1> QED  BY <1>1, <1>3, <1>4, <1>5 DEF DoorInv

\* A source that is directly connected somewhere starts where it is, however specific the
\* static routes to it are elsewhere, and every VDOM is asked for its policies by an
\* interface of its own (find_ingress, classify_egress, _resolve_ingress).
THEOREM DoorIsRight == Spec => []RightDoor
<1>1. DoorInv /\ IInv /\ [Next]_vars => DoorInv'
  BY FindDoor, WalkHopDoor, ResolveDoor, OthersDoor DEF Next
<1>2. DoorInv => RightDoor  BY DEF DoorInv, RightDoor
<1> QED  BY <1>1, <1>2, InitDoor, AlwaysIInv, PTL DEF Spec
===============================================================================
