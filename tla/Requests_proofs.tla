----------------------------- MODULE Requests_proofs -----------------------------
(***************************************************************************)
(* What the handlers answer (Answers), proved for every question: no bound *)
(* on the tables they read, whatever fails.  A handler answers once, so an *)
(* invariant is shown for the step that gives the answer; Answered says    *)
(* which step that is, from the kind of the answer.  What is known of      *)
(* drawings is in Drawings_proofs.  The theorems about the import of files *)
(* (WinInventory) stand at the end and share no state with the handlers.   *)
(***************************************************************************)
EXTENDS Answers, Drawings_proofs, WinInventory

\* Each kind of answer has one handler.
LEMMA Answered ==
    ASSUME [AnswersNext]_requestVars
    PROVE  \/ reply' = reply /\ asked' = asked
           \/ /\ asked' = asked
              /\ \/ PortSearch /\ reply'.kind = "port"
                 \/ VlanReports /\ reply'.kind = "vlan"
                 \/ Draw /\ reply'.kind = "tree"
                 \/ Plan /\ reply'.kind = "plan"
                 \/ ServiceView /\ reply'.kind = "services"
                 \/ SegmentPlan /\ reply'.kind = "segments"
                 \/ NetworkChoice /\ reply'.kind = "choice"
                 \/ SheetsNext /\ reply'.kind = "drawing"
                 \/ PlanRequestNext /\ reply'.kind = "sheet"
                 \/ FreeSubnets /\ reply'.kind \in {"blocks", "refused"}
                 \/ FreeAddresses /\ reply'.kind \in {"addresses", "refused"}
                 \/ Tree /\ reply'.kind = "nets"
                 \/ Reconcile /\ reply'.kind = "reconcile"
<1>1. CASE UNCHANGED requestVars
  BY <1>1 DEF requestVars
<1>2. ASSUME SwitchesNext
      PROVE  /\ asked' = asked
             /\ \/ PortSearch /\ reply'.kind = "port"
                \/ VlanReports /\ reply'.kind = "vlan"
  <2>1. CASE PortSearch
    <3>1. asked' = asked /\ reply'.kind = "port"
      <4>1. \/ Give([kind |-> "port", conf |-> "none", beaten |-> FALSE])
            \/ \E conf, best, beaten : Give([kind |-> "port", conf |-> conf, best |-> best, beaten |-> beaten])
        BY <2>1, Zenon DEF PortSearch
      <4> QED BY <4>1 DEF Give
    <3> QED BY <3>1, <2>1
  <2>2. CASE VlanReports
    <3>1. asked' = asked /\ reply'.kind = "vlan"
      BY <2>2 DEF VlanReports, Give
    <3> QED BY <3>1, <2>2
  <2> QED BY <1>2, <2>1, <2>2 DEF SwitchesNext
<1>3. ASSUME Draw PROVE asked' = asked /\ reply'.kind = "tree"
  BY <1>3 DEF Draw, Give
<1>4. ASSUME ServicesNext
      PROVE  /\ asked' = asked
             /\ \/ Plan /\ reply'.kind = "plan"
                \/ ServiceView /\ reply'.kind = "services"
                \/ SegmentPlan /\ reply'.kind = "segments"
                \/ NetworkChoice /\ reply'.kind = "choice"
  <2>1. ASSUME Plan PROVE asked' = asked /\ reply'.kind = "plan"
    BY <2>1 DEF Plan, Give
  <2>2. ASSUME ServiceView PROVE asked' = asked /\ reply'.kind = "services"
    BY <2>2 DEF ServiceView, Give
  <2>3. ASSUME SegmentPlan PROVE asked' = asked /\ reply'.kind = "segments"
    BY <2>3 DEF SegmentPlan, Give
  <2>4. ASSUME NetworkChoice PROVE asked' = asked /\ reply'.kind = "choice"
    BY <2>4 DEF NetworkChoice, Give
  <2> QED BY <1>4, <2>1, <2>2, <2>3, <2>4 DEF ServicesNext
<1>5. ASSUME SheetsNext PROVE asked' = asked /\ reply'.kind = "drawing"
  BY <1>5 DEF SheetsNext, DrawStructure, DrawFamily, DrawSegments, DrawVlan, DrawInfra, DrawLogical, Drawing, Give
<1>6. ASSUME PlanRequestNext PROVE asked' = asked /\ reply'.kind = "sheet"
  <2>1. ASSUME NEW q, StructureRequest(q) PROVE asked' = asked /\ reply'.kind = "sheet"
    <3>1. Refused(422) \/ \E warned, marks : Sheet(warned, marks)
      BY <2>1, Zenon DEF StructureRequest
    <3> QED BY <3>1 DEF Refused, Sheet, Give
  <2>2. ASSUME NEW q, ServicesRequest(q) PROVE asked' = asked /\ reply'.kind = "sheet"
    <3>1. (\E code : Refused(code)) \/ \E warned, marks : Sheet(warned, marks)
      BY <2>2, Zenon DEF ServicesRequest
    <3> QED BY <3>1 DEF Refused, Sheet, Give
  <2>3. ASSUME NEW q, Segments(q) PROVE asked' = asked /\ reply'.kind = "sheet"
    BY <2>3 DEF Segments, Refused, Sheet, Give
  <2>4. ASSUME NEW q, Physical(q) \/ LibreList(q) \/ ServiceList(q) PROVE asked' = asked /\ reply'.kind = "sheet"
    BY <2>4 DEF Physical, LibreList, ServiceList, Refused, Sheet, Give
  <2> QED
    BY <1>6, <2>1, <2>2, <2>3, <2>4
    DEF PlanRequestNext, PlanStructure, PlanServices, PlanSegments, PlanPhysical, PlanLists
<1>7. ASSUME IpamNext
      PROVE  /\ asked' = asked
             /\ \/ FreeSubnets /\ reply'.kind \in {"blocks", "refused"}
                \/ FreeAddresses /\ reply'.kind \in {"addresses", "refused"}
                \/ Tree /\ reply'.kind = "nets"
                \/ Reconcile /\ reply'.kind = "reconcile"
  <2>1. ASSUME FreeSubnets PROVE asked' = asked /\ reply'.kind \in {"blocks", "refused"}
    BY <2>1 DEF FreeSubnets, Give
  <2>2. ASSUME FreeAddresses PROVE asked' = asked /\ reply'.kind \in {"addresses", "refused"}
    BY <2>2 DEF FreeAddresses, Give
  <2>3. ASSUME Tree PROVE asked' = asked /\ reply'.kind = "nets"
    BY <2>3 DEF Tree, Give
  <2>4. ASSUME Reconcile PROVE asked' = asked /\ reply'.kind = "reconcile"
    BY <2>4 DEF Reconcile, Give
  <2> QED BY <1>7, <2>1, <2>2, <2>3, <2>4 DEF IpamNext
<1>8. CASE AnswersNext
  BY <1>8, <1>2, <1>3, <1>4, <1>5, <1>6, <1>7 DEF AnswersNext
<1> QED BY <1>1, <1>8

----------------------------------------------------------------------------
(* The switch port *)

\* What is shown has no stronger match than any other candidate: the match is the first
\* part of the sort key (fdb_librenms.rank).
LEMMA BestMatches ==
    ASSUME NEW cands, NEW best \in Best(cands), NEW d \in cands
    PROVE  ~(MatchRank(d.match) < MatchRank(best.match))
<1>1. ~Before(RankKey(d), RankKey(best))
  BY DEF Best
<1>2. /\ 1 \in DOMAIN RankKey(d)
      /\ RankKey(d)[1] = MatchRank(d.match) /\ RankKey(best)[1] = MatchRank(best.match)
  BY DEF RankKey
<1>3. \A j \in 1..(1 - 1) : RankKey(d)[j] = RankKey(best)[j]
  OBVIOUS
<1> QED BY <1>1, <1>2, <1>3 DEF Before

\* "high" is never said on the strength of a remembered MAC, an old sighting, or a port
\* that leads on (fdb_librenms.confidence, the cap in chain._locate).
LEMMA HighMeans ==
    ASSUME NEW c, NEW from, Capped(Confidence(c), from) = "high"
    PROVE  /\ from \notin {"cache", "faz_old"}
           /\ ~c.stale
           /\ \/ c.match = "lldp_peer"
              \/ c.match = "description" /\ c.kind # "uplink"
              \/ c.match \notin {"lldp_peer", "description"} /\ c.kind = "access"
<1>1. from \notin {"cache", "faz_old"} /\ Confidence(c) = "high"
  BY DEF Capped
<1>2. ~c.stale /\ Level(c) = "high"
  BY <1>1 DEF Confidence, Lowered
<1> QED BY <1>1, <1>2 DEF Level

\* The port of a host: what is said to be certain is proven (HighIsProven), whatever
\* stands in the tables.
THEOREM HighOnlyIfProven == AnswersSpec => []HighIsProven
<1>1. reply = None => HighIsProven
  BY DEF None, HighIsProven
<1>2. HighIsProven /\ [AnswersNext]_requestVars => HighIsProven'
  <2> SUFFICES ASSUME HighIsProven, [AnswersNext]_requestVars, reply'.kind = "port"
               PROVE  HighIsProven'
    BY DEF HighIsProven
  <2>1. CASE reply' = reply /\ asked' = asked
    BY <2>1 DEF HighIsProven
  <2>2. CASE asked' = asked /\ PortSearch
    <3> DEFINE cands == {PortCandidate(p, asked.fdb[p], asked.links) : p \in DOMAIN asked.fdb}
               answer(best) == [kind |-> "port", conf |-> Capped(Confidence(best), asked.from), best |-> best,
                                beaten |-> \E d \in cands : MatchRank(d.match) < MatchRank(best.match)]
    <3>1. CASE reply' = [kind |-> "port", conf |-> "none", beaten |-> FALSE]
      BY <3>1 DEF HighIsProven
    <3>2. ASSUME NEW best \in Best(cands), reply' = answer(best) PROVE HighIsProven'
      <4>1. /\ reply'.conf = Capped(Confidence(best), asked.from)
            /\ reply'.best = best
            /\ reply'.beaten = \E d \in cands : MatchRank(d.match) < MatchRank(best.match)
        BY <3>2
      <4>2. ~reply'.beaten
        BY <4>1, BestMatches
      <4>3. best.match \in {"lldp_peer", "description", "none"}
        <5>1. best \in cands
          BY DEF Best
        <5>2. PICK p \in DOMAIN asked.fdb : best = PortCandidate(p, asked.fdb[p], asked.links)
          BY <5>1
        <5>3. PICK near, text : best.match = Match(near, text)
          BY <5>2, Zenon DEF PortCandidate
        <5> QED BY <5>3 DEF Match
      <4> HIDE DEF cands
      <4> QED BY <4>1, <4>2, <4>3, <2>2, HighMeans DEF HighIsProven
    <3> QED BY <2>2, <3>1, <3>2, Zenon DEF PortSearch, Give
  <2> QED BY <2>1, <2>2, Answered
<1> QED BY <1>1, <1>2, PTL DEF AnswersSpec

----------------------------------------------------------------------------
(* A drawing and what could not be asked for it *)

\* A bounded one has a greatest.
LEMMA Greatest ==
    ASSUME NEW n \in Nat, NEW T, T \subseteq 0..n, T # {}
    PROVE  \E x \in T : \A y \in T : y <= x
<1> DEFINE U == {n - y : y \in T}
<1>1. U \subseteq Nat
  OBVIOUS
<1>5. U # {}
  OBVIOUS
<1>2. PICK u \in U : \A w \in U : u <= w
  <2> HIDE DEF U
  <2> QED BY <1>1, <1>5, LeastOf
<1>3. PICK x \in T : u = n - x
  OBVIOUS
<1>4. \A y \in T : n - x <= n - y
  BY <1>2, <1>3
<1> QED BY <1>4

\* Attempt reads up to the first call that fails: it is complete if and only if none does.
LEMMA AttemptReads ==
    ASSUME NEW q, NEW S, NEW calls \in Seq(S)
    PROVE  /\ Attempt(q, calls).ok <=> \A i \in 1..Len(calls) : calls[i] \notin q.fails
           /\ Attempt(q, calls).ok => \A i \in 1..Len(calls) : calls[i] \in Attempt(q, calls).got
<1> DEFINE good == {k \in 0..Len(calls) : \A i \in 1..k : calls[i] \notin q.fails}
           n    == CHOOSE k \in good : \A j \in good : j <= k
<1>1. n \in good /\ \A j \in good : j <= n
  <2>1. good \subseteq 0..Len(calls) /\ 0 \in good
    OBVIOUS
  <2>2. \E k \in good : \A j \in good : j <= k
    <3> HIDE DEF good
    <3>1. good # {} /\ Len(calls) \in Nat
      BY <2>1
    <3> QED BY <2>1, <3>1, Greatest
  <2> HIDE DEF good
  <2> QED BY <2>2
<1>2. n = Len(calls) <=> \A i \in 1..Len(calls) : calls[i] \notin q.fails
  <2>1. ASSUME n = Len(calls) PROVE \A i \in 1..Len(calls) : calls[i] \notin q.fails
    BY <1>1, <2>1
  <2>2. ASSUME \A i \in 1..Len(calls) : calls[i] \notin q.fails PROVE n = Len(calls)
    <3>1. Len(calls) \in good
      BY <2>2
    <3> QED BY <3>1, <1>1
  <2> QED BY <2>1, <2>2
<1>3. Attempt(q, calls) = [got |-> ToSet(SubSeq(calls, 1, n)), ok |-> n = Len(calls)]
  BY Zenon DEF Attempt
<1>4. ASSUME n = Len(calls), NEW i \in 1..Len(calls) PROVE calls[i] \in ToSet(SubSeq(calls, 1, n))
  <2> HIDE DEF n
  <2>1. DOMAIN SubSeq(calls, 1, n) = 1..n /\ SubSeq(calls, 1, n)[i] = calls[i]
    BY <1>4
  <2> QED BY <2>1, <1>4 DEF ToSet
<1> HIDE DEF n
<1>5. Attempt(q, calls).ok = (n = Len(calls)) /\ Attempt(q, calls).got = ToSet(SubSeq(calls, 1, n))
  BY <1>3
<1>6. Attempt(q, calls).ok <=> n = Len(calls)
  BY <1>5
<1> QED BY ONLY <1>2, <1>5, <1>6, <1>4

\* The same for the rows of calls there are: one, two or three.
LEMMA AttemptOne ==
    ASSUME NEW q, NEW a
    PROVE  /\ Attempt(q, <<a>>).ok <=> a \notin q.fails
           /\ Attempt(q, <<a>>).ok => a \in Attempt(q, <<a>>).got
<1>1. <<a>> \in Seq({a}) /\ Len(<<a>>) = 1 /\ <<a>>[1] = a
  OBVIOUS
<1> DEFINE calls == <<a>>
<1>2. \A i \in 1..Len(calls) : i = 1
  BY <1>1
<1>3. /\ Attempt(q, calls).ok <=> \A i \in 1..Len(calls) : calls[i] \notin q.fails
      /\ Attempt(q, calls).ok => \A i \in 1..Len(calls) : calls[i] \in Attempt(q, calls).got
  BY <1>1, AttemptReads
<1> QED BY <1>1, <1>2, <1>3

\* The same for two calls,
LEMMA AttemptTwo ==
    ASSUME NEW q, NEW a, NEW b
    PROVE  /\ Attempt(q, <<a, b>>).ok <=> a \notin q.fails /\ b \notin q.fails
           /\ Attempt(q, <<a, b>>).ok => {a, b} \subseteq Attempt(q, <<a, b>>).got
<1>1. <<a, b>> \in Seq({a, b}) /\ Len(<<a, b>>) = 2 /\ <<a, b>>[1] = a /\ <<a, b>>[2] = b
  OBVIOUS
<1> DEFINE calls == <<a, b>>
<1>2. \A i \in 1..Len(calls) : i \in {1, 2}
  BY <1>1
<1>3. /\ Attempt(q, calls).ok <=> \A i \in 1..Len(calls) : calls[i] \notin q.fails
      /\ Attempt(q, calls).ok => \A i \in 1..Len(calls) : calls[i] \in Attempt(q, calls).got
  BY <1>1, AttemptReads
<1>4. 1 \in 1..Len(calls) /\ 2 \in 1..Len(calls)
  BY <1>1
<1> QED BY <1>1, <1>2, <1>3, <1>4

\* and for three.
LEMMA AttemptThree ==
    ASSUME NEW q, NEW a, NEW b, NEW c
    PROVE  /\ Attempt(q, <<a, b, c>>).ok <=> a \notin q.fails /\ b \notin q.fails /\ c \notin q.fails
           /\ Attempt(q, <<a, b, c>>).ok => {a, b, c} \subseteq Attempt(q, <<a, b, c>>).got
<1>1. /\ <<a, b, c>> \in Seq({a, b, c}) /\ Len(<<a, b, c>>) = 3
      /\ <<a, b, c>>[1] = a /\ <<a, b, c>>[2] = b /\ <<a, b, c>>[3] = c
  OBVIOUS
<1> DEFINE calls == <<a, b, c>>
<1>2. \A i \in 1..Len(calls) : i \in {1, 2, 3}
  BY <1>1
<1>3. /\ Attempt(q, calls).ok <=> \A i \in 1..Len(calls) : calls[i] \notin q.fails
      /\ Attempt(q, calls).ok => \A i \in 1..Len(calls) : calls[i] \in Attempt(q, calls).got
  BY <1>1, AttemptReads
<1>4. 1 \in 1..Len(calls) /\ 2 \in 1..Len(calls) /\ 3 \in 1..Len(calls)
  BY <1>1
<1> QED BY <1>1, <1>2, <1>3, <1>4

\* The sources every view asks beside its own: one that does not answer is named.
LEMMA CommonIsNamed ==
    ASSUME NEW q, NEW call \in q.fails,
           call \in {"endpoints", "wininv"} \/ (call \in {"monitored", "triggers"} /\ q.monitoring),
           SystemOf(call) \in Systems => On(q, SystemOf(call))
    PROVE  SystemOf(call) \in UNION Common(q)
<1>1. CASE call = "endpoints"
  <2>1. SystemOf(call) = "faz"
    BY <1>1 DEF SystemOf
  <2>2. On(q, "faz")
    BY <2>1 DEF Systems
  <2>3. ~LiveHosts(q).ok
    BY <2>2, <1>1, AttemptOne DEF LiveHosts
  <2> QED BY <2>1, <2>3 DEF Common, Warned
<1>2. CASE call = "wininv"
  <2>1. SystemOf(call) = "wininv"
    BY <1>2 DEF SystemOf
  <2>3. ~Windows(q).ok
    BY <1>2, AttemptOne DEF Windows
  <2> QED BY <2>1, <2>3 DEF Common, Warned
<1>3. CASE call \in {"monitored", "triggers"} /\ q.monitoring
  <2>1. SystemOf(call) = "zabbix"
    BY <1>3 DEF SystemOf
  <2>2. On(q, "zabbix")
    BY <2>1 DEF Systems
  <2>3. ~Zabbix(q).ok
    BY <2>2, <1>3, AttemptTwo DEF Zabbix
  <2> QED BY <2>1, <2>3 DEF Common, Warned
<1> QED BY <1>1, <1>2, <1>3

\* A call of one view that fails, of a system that is on.
Unsaid(q, call) ==
    call \in Shows(q) \cap q.fails /\ (SystemOf(call) \in Systems => On(q, SystemOf(call)))

\* The systems behind the calls of a plan.
LEMMA SystemsOf ==
    /\ \A call \in {"ipam", "hosts", "addresses", "virtualization"} :
          SystemOf(call) = "itop" /\ SystemOf(call) \in Systems
    /\ \A call \in {"index", "lldp", "vlans", "fdb"} :
          SystemOf(call) = "librenms" /\ SystemOf(call) \in Systems
BY DEF SystemOf, Systems

\* A system that is on is configured.
LEMMA OnIsConfigured == ASSUME NEW q, NEW s, On(q, s) PROVE Configured(q, s)
BY DEF On, Configured

\* What a drawing that is given consists of.
LEMMA SheetGiven ==
    ASSUME NEW warned, NEW marks, Sheet(warned, marks)
    PROVE  reply'.warned = warned /\ reply'.marks = marks /\ reply'.code = 200 /\ reply'.kind = "sheet"
BY DEF Sheet, Give

\* What a refusal consists of.
LEMMA RefusedGiven ==
    ASSUME NEW code, Refused(code)
    PROVE  reply'.code = code /\ reply'.kind = "sheet" /\ reply'.marks = {}
BY DEF Refused, Give

\* A plan of the structure names the systems that did not answer.
LEMMA StructureNames ==
    ASSUME NEW q, q.view = "structure", StructureRequest(q), reply'.code = 200, NEW call, Unsaid(q, call)
    PROVE  SystemOf(call) \in reply'.warned
<1> DEFINE wants == q.hosts /\ ~q.global
           itop  == IF ~On(q, "itop") THEN NotAsked
                    ELSE Attempt(q, IF wants THEN <<"ipam", "hosts", "addresses">> ELSE <<"ipam">>)
           libre == IF wants /\ Configured(q, "librenms") THEN Attempt(q, <<"index">>) ELSE NotAsked
           warned == Warned(itop, "itop") \cup Warned(libre, "librenms") \cup LinkStatus(q)
                       \cup (IF wants THEN UNION Common(q) ELSE {})
                       \cup (IF q.global THEN {"global"} ELSE {})
<1>1. reply'.warned = warned
  <2>1. Refused(422) \/ \E m : Sheet(warned, m)
    BY Zenon DEF StructureRequest
  <2> HIDE DEF warned
  <2>2. ~Refused(422)
    BY RefusedGiven
  <2> QED BY <2>1, <2>2, SheetGiven
<1>2. call \in {"ipam"} \cup (IF wants THEN {"hosts", "addresses", "index"} \cup {"endpoints", "wininv"}
                                 \cup (IF q.monitoring THEN {"monitored", "triggers"} ELSE {}) ELSE {})
  BY DEF Unsaid, Shows
<1>3. call \in q.fails /\ (SystemOf(call) \in Systems => On(q, SystemOf(call)))
  BY DEF Unsaid
<1>4. CASE call = "ipam" \/ (call \in {"hosts", "addresses"} /\ wants)
  <2>1. SystemOf(call) = "itop" /\ On(q, "itop")
    BY <1>4, <1>3, SystemsOf
  <2>2. ~itop.ok
    <3>1. CASE wants
      BY <2>1, <1>3, <1>4, <3>1, AttemptThree
    <3>2. CASE ~wants
      BY <2>1, <1>3, <1>4, <3>2, AttemptOne
    <3> QED BY <3>1, <3>2
  <2> HIDE DEF itop
  <2> QED BY <2>1, <2>2, <1>1 DEF Warned
<1>5. CASE call = "index" /\ wants
  <2>1. SystemOf(call) = "librenms" /\ Configured(q, "librenms")
    BY <1>5, <1>3, SystemsOf, OnIsConfigured
  <2>2. ~libre.ok
    BY <2>1, <1>3, <1>5, AttemptOne
  <2> HIDE DEF libre
  <2> QED BY <2>1, <2>2, <1>1 DEF Warned
<1>6. CASE wants /\ (call \in {"endpoints", "wininv"} \/ (call \in {"monitored", "triggers"} /\ q.monitoring))
  <2>1. SystemOf(call) \in UNION Common(q)
    BY <1>6, <1>3, CommonIsNamed
  <2> HIDE DEF itop, libre
  <2> QED BY <2>1, <1>1, <1>6
<1> QED BY <1>2, <1>4, <1>5, <1>6

\* So does one of the services,
LEMMA ServicesNames ==
    ASSUME NEW q, q.view = "services", ServicesRequest(q), reply'.code = 200, NEW call, Unsaid(q, call)
    PROVE  SystemOf(call) \in reply'.warned
<1> DEFINE libre == IF Configured(q, "librenms") THEN Attempt(q, <<"index">>) ELSE NotAsked
           always == (UNION Common(q)) \cup Warned(libre, "librenms")
<1>1. /\ always \subseteq reply'.warned
      /\ On(q, "itop") => ServiceData(q).ok /\ Warned(ItopAddresses(q), "itop") \subseteq reply'.warned
  <2>1. \/ Refused(400) \/ Refused(422) \/ Refused(502)
        \/ ~On(q, "itop") /\ \E m : Sheet(always \cup {"no services"}, m)
        \/ /\ ServiceData(q).ok
           /\ \E m : Sheet(always \cup Warned(ItopAddresses(q), "itop") \cup (IF q.lost # {} THEN {"itop"} ELSE {}), m)
    BY Zenon DEF ServicesRequest
  <2> HIDE DEF always
  <2>2. ~(Refused(400) \/ Refused(422) \/ Refused(502))
    BY RefusedGiven
  <2>3. ASSUME NEW more, NEW m, Sheet(always \cup more, m) PROVE always \subseteq reply'.warned
    <3>1. reply'.warned = always \cup more
      BY <2>3, SheetGiven
    <3> QED BY <3>1
  <2>4. ASSUME NEW m, Sheet(always \cup {"no services"}, m) PROVE always \subseteq reply'.warned
    BY <2>3, <2>4, Zenon
  <2>5. ASSUME ServiceData(q).ok,
               NEW m, Sheet(always \cup Warned(ItopAddresses(q), "itop") \cup (IF q.lost # {} THEN {"itop"} ELSE {}), m)
        PROVE  /\ always \subseteq reply'.warned
               /\ ServiceData(q).ok /\ Warned(ItopAddresses(q), "itop") \subseteq reply'.warned
    BY <2>5, SheetGiven
  <2> QED BY <2>1, <2>2, <2>4, <2>5
<1>2. call \in {"ipam", "hosts", "addresses", "index", "endpoints", "wininv"}
                 \cup (IF q.monitoring THEN {"monitored", "triggers"} ELSE {})
  BY DEF Unsaid, Shows
<1>3. call \in q.fails /\ (SystemOf(call) \in Systems => On(q, SystemOf(call)))
  BY DEF Unsaid
<1>4. CASE call \in {"ipam", "hosts", "addresses"}
  <2>1. SystemOf(call) = "itop" /\ On(q, "itop")
    BY <1>4, <1>3, SystemsOf
  <2>2. call = "addresses"
    BY <2>1, <1>1, <1>3, <1>4, AttemptThree DEF ServiceData
  <2>3. ~ItopAddresses(q).ok
    BY <2>2, <1>3, AttemptOne DEF ItopAddresses
  <2> QED BY <2>1, <2>3, <1>1 DEF Warned
<1>5. CASE call = "index"
  <2>1. SystemOf(call) = "librenms" /\ Configured(q, "librenms")
    BY <1>5, <1>3, SystemsOf, OnIsConfigured
  <2>2. ~libre.ok
    BY <2>1, <1>3, <1>5, AttemptOne
  <2>3. SystemOf(call) \in Warned(libre, "librenms")
    BY <2>1, <2>2 DEF Warned
  <2> HIDE DEF libre
  <2> QED BY <2>3, <1>1
<1>6. CASE call \in {"endpoints", "wininv"} \/ (call \in {"monitored", "triggers"} /\ q.monitoring)
  <2>1. SystemOf(call) \in UNION Common(q)
    BY <1>6, <1>3, CommonIsNamed
  <2> HIDE DEF libre
  <2> QED BY <2>1, <1>1
<1> QED BY <1>2, <1>4, <1>5, <1>6

\* What a request for the plan of a service's nets reads before it draws.
LEMMA SegmentsNames ==
    ASSUME NEW q, q.view \in {"segments", "switches"}, Segments(q), reply'.code = 200,
           NEW call, Unsaid(q, call)
    PROVE  SystemOf(call) \in reply'.warned
<1> DEFINE warned == (UNION Common(q)) \cup Warned(Lldp(q), "librenms") \cup Warned(ItopAddresses(q), "itop")
           virt   == Attempt(q, <<"virtualization">>)
           known  == Configured(q, "librenms") /\ Lldp(q).ok
           fdb    == IF known THEN Attempt(q, <<"fdb">>) ELSE NotAsked
           all    == warned \cup Warned(virt, "itop") \cup Warned(fdb, "librenms")
                       \cup (IF known THEN {} ELSE {"librenms"})
<1>1. /\ ServiceData(q).ok
      /\ warned \subseteq reply'.warned
      /\ q.view = "switches" => all \subseteq reply'.warned
  <2>1. \/ Refused(400) \/ Refused(422) \/ Refused(502) \/ Refused(404)
        \/ /\ ~(On(q, "itop") /\ ~ServiceData(q).ok) /\ ServiceFound(q)
           /\ \/ q.view = "segments" /\ \E m : Sheet(warned, m)
              \/ \E m : Sheet(all, m)
    BY Zenon DEF Segments
  <2>5. warned \subseteq all
    OBVIOUS
  <2> HIDE DEF warned, all
  <2>2. ~(Refused(400) \/ Refused(422) \/ Refused(502) \/ Refused(404))
    BY RefusedGiven
  <2>3. ASSUME NEW m, Sheet(warned, m) PROVE warned \subseteq reply'.warned
    BY <2>3, SheetGiven
  <2>4. ASSUME NEW m, Sheet(all, m) PROVE all \subseteq reply'.warned
    BY <2>4, SheetGiven
  <2> QED BY <2>1, <2>2, <2>3, <2>4, <2>5 DEF ServiceFound
<1>2. \/ call \in {"ipam", "hosts", "addresses", "lldp", "index", "vlans", "endpoints", "wininv"}
                   \cup (IF q.monitoring THEN {"monitored", "triggers"} ELSE {})
      \/ q.view = "switches" /\ call \in {"virtualization", "fdb"}
  BY DEF Unsaid, Shows
<1>3. call \in q.fails /\ (SystemOf(call) \in Systems => On(q, SystemOf(call)))
  BY DEF Unsaid
<1>4. CASE call \in {"ipam", "hosts", "addresses"}
  <2>1. SystemOf(call) = "itop" /\ On(q, "itop")
    BY <1>4, <1>3, SystemsOf
  <2>2. call = "addresses"
    BY <2>1, <1>1, <1>3, <1>4, AttemptThree DEF ServiceData
  <2>3. SystemOf(call) \in Warned(ItopAddresses(q), "itop")
    BY <2>1, <2>2, <1>3, AttemptOne DEF ItopAddresses, Warned
  <2> QED BY <2>3, <1>1
<1>5. CASE call \in {"lldp", "index", "vlans"}
  <2>1. SystemOf(call) = "librenms" /\ Configured(q, "librenms")
    BY <1>5, <1>3, SystemsOf, OnIsConfigured
  <2>2. SystemOf(call) \in Warned(Lldp(q), "librenms")
    BY <2>1, <1>3, <1>5, AttemptThree DEF Lldp, Warned
  <2> QED BY <2>2, <1>1
<1>6. CASE call \in {"endpoints", "wininv"} \/ (call \in {"monitored", "triggers"} /\ q.monitoring)
  <2>1. SystemOf(call) \in UNION Common(q)
    BY <1>6, <1>3, CommonIsNamed
  <2> QED BY <2>1, <1>1
<1>7. CASE q.view = "switches" /\ call = "virtualization"
  <2>1. SystemOf(call) \in Warned(virt, "itop")
    BY <1>7, <1>3, SystemsOf, AttemptOne DEF Warned
  <2> HIDE DEF virt, fdb, known, warned
  <2> QED BY <2>1, <1>1, <1>7
<1>8. CASE q.view = "switches" /\ call = "fdb"
  <2>1. SystemOf(call) = "librenms" /\ Configured(q, "librenms")
    BY <1>8, <1>3, SystemsOf, OnIsConfigured
  <2>2. SystemOf(call) \in Warned(fdb, "librenms") \cup (IF known THEN {} ELSE {"librenms"})
    <3>1. CASE known
      BY <2>1, <1>8, <1>3, <3>1, AttemptOne DEF Warned
    <3>2. CASE ~known
      <4> HIDE DEF known, fdb
      <4> QED BY <2>1, <3>2
    <3> QED BY <3>1, <3>2
  <2> HIDE DEF virt, fdb, known, warned
  <2> QED BY <2>2, <1>1, <1>8
<1> QED BY <1>2, <1>4, <1>5, <1>6, <1>7, <1>8

\* and one of the switches.
LEMMA PhysicalNames ==
    ASSUME NEW q, q.view = "physical", Physical(q), reply'.code = 200, NEW call, Unsaid(q, call)
    PROVE  SystemOf(call) \in reply'.warned
<1> DEFINE try == Attempt(q, <<"lldp", "index">>)
<1>1. Warned(try, "librenms") \subseteq reply'.warned
  <2>1. \/ Refused(400)
        \/ \E other : Sheet(other \cup Warned(try, "librenms"), {})
    BY Zenon DEF Physical
  <2>2. ~Refused(400)
    BY RefusedGiven
  <2> HIDE DEF try
  <2>3. PICK other : Sheet(other \cup Warned(try, "librenms"), {})
    BY <2>1, <2>2
  <2> QED BY <2>3, SheetGiven
<1>2. call \in {"lldp", "index"} /\ call \in q.fails
  BY DEF Unsaid, Shows
<1>3. SystemOf(call) \in Warned(try, "librenms")
  BY <1>2, SystemsOf, AttemptTwo DEF Warned
<1> QED BY <1>1, <1>3

\* No gap goes unsaid (GapsAreNamed): whatever fails, whatever is switched off, whatever
\* is asked, a drawing names each system it could not ask.
THEOREM EveryGapIsNamed == AnswersSpec => []GapsAreNamed
<1>1. reply = None => GapsAreNamed
  BY DEF None, GapsAreNamed
<1>2. GapsAreNamed /\ [AnswersNext]_requestVars => GapsAreNamed'
  <2> SUFFICES ASSUME GapsAreNamed, [AnswersNext]_requestVars, reply'.kind = "sheet"
               PROVE  GapsAreNamed'
    BY DEF GapsAreNamed
  <2>1. CASE reply' = reply /\ asked' = asked
    BY <2>1 DEF GapsAreNamed
  <2>2. CASE asked' = asked /\ PlanRequestNext
    <3> SUFFICES ASSUME reply'.code = 200, NEW call, Unsaid(asked, call)
                 PROVE  SystemOf(call) \in reply'.warned
      BY <2>2 DEF GapsAreNamed, Unsaid
    <3>1. CASE PlanStructure
      BY <3>1, StructureNames DEF PlanStructure
    <3>2. CASE PlanServices
      BY <3>2, ServicesNames DEF PlanServices
    <3>3. CASE PlanSegments
      BY <3>3, SegmentsNames DEF PlanSegments
    <3>4. CASE PlanPhysical
      BY <3>4, PhysicalNames DEF PlanPhysical
    <3>5. CASE PlanLists
      BY <3>5 DEF PlanLists, Unsaid, Shows
    <3> QED BY <2>2, <3>1, <3>2, <3>3, <3>4, <3>5 DEF PlanRequestNext
  <2> QED BY <2>1, <2>2, Answered
<1> QED BY <1>1, <1>2, PTL DEF AnswersSpec

\* What a mark says, when the services were read.
LEMMA MarksMean ==
    ASSUME NEW q, NEW got
    PROVE  /\ "not in iTop" \in Marks(q, got) => ~DrawnInItop(q, got)
           /\ "not in service" \in Marks(q, got) => ~OfService(q, got)
           /\ "not monitored" \in Marks(q, got) => ~q.host.monitored /\ "zabbix" \notin UNION Common(q)
<1>2. ASSUME ZabbixKnows(q), ~InZabbix(q) PROVE ~q.host.monitored /\ Zabbix(q).ok
  <2>1. q.monitoring /\ On(q, "zabbix") /\ Zabbix(q).ok
    BY <1>2 DEF ZabbixKnows
  <2>2. "monitored" \in Zabbix(q).got
    BY <2>1, AttemptTwo DEF Zabbix
  <2> QED BY <2>1, <2>2, <1>2 DEF InZabbix
<1>3. ASSUME Zabbix(q).ok PROVE "zabbix" \notin UNION Common(q)
  <2>1. Common(q) \subseteq {{}, {"faz"}, {"wininv"}}
    BY <1>3 DEF Common, Warned
  <2> QED BY <2>1
<1>4. ASSUME "not in iTop" \in Marks(q, got) PROVE ~DrawnInItop(q, got)
  BY <1>4 DEF Marks
<1>5. ASSUME "not in service" \in Marks(q, got) PROVE ~OfService(q, got)
  BY <1>5 DEF Marks
<1>6. ASSUME "not monitored" \in Marks(q, got) PROVE ~q.host.monitored /\ "zabbix" \notin UNION Common(q)
  <2>1. ZabbixKnows(q) /\ ~InZabbix(q)
    BY <1>6 DEF Marks
  <2> QED BY <2>1, <1>2, <1>3
<1> QED BY ONLY <1>4, <1>5, <1>6

\* The same in the terms of the question, for a host that was looked up in the services.
LEMMA ServiceMarks ==
    ASSUME NEW q, ServiceData(q).ok,
           NEW warned, Warned(ItopAddresses(q), "itop") \subseteq warned
    PROVE  LET got == ServiceData(q).got \cup ItopAddresses(q).got
           IN  /\ "not in iTop" \in Marks(q, got) =>
                     (~q.host.ci /\ ~q.host.address) \/ "itop" \in warned \/ q.skipped
               /\ "not in service" \in Marks(q, got) =>
                     ~q.host.linked \/ ~q.host.ci \/ q.skipped
<1> DEFINE got == ServiceData(q).got \cup ItopAddresses(q).got
<1>1. "hosts" \in got
  BY AttemptThree DEF ServiceData
<1>2. "addresses" \in got \/ "itop" \in warned
  BY AttemptOne DEF ItopAddresses, Warned
<1> HIDE DEF got
<1>3. "not in iTop" \in Marks(q, got) => (~q.host.ci /\ ~q.host.address) \/ "itop" \in warned \/ q.skipped
  BY <1>1, <1>2, MarksMean DEF DrawnInItop
<1>4. "not in service" \in Marks(q, got) => ~q.host.linked \/ ~q.host.ci \/ q.skipped
  BY <1>1, MarksMean DEF OfService
<1> QED BY <1>3, <1>4 DEF got

\* MarksAreTrue, of a question and its answer.
True(q, marks, warned) ==
    /\ "not in iTop" \in marks =>
         (~q.host.ci /\ ~q.host.address) \/ "itop" \in warned \/ q.skipped
    /\ "not in service" \in marks =>
         ~q.host.linked \/ ~q.host.ci \/ "itop" \in warned \/ q.skipped
    /\ "not monitored" \in marks => ~q.host.monitored /\ "zabbix" \notin warned

\* Without a mark nothing is said.
LEMMA NoMarks == ASSUME NEW q, NEW warned PROVE True(q, {}, warned)
BY DEF True

\* What a plan of the structure says of a host is so,
LEMMA StructureMarks ==
    ASSUME NEW q, StructureRequest(q) PROVE True(q, reply'.marks, reply'.warned)
<1> DEFINE wants == q.hosts /\ ~q.global
           itop  == IF ~On(q, "itop") THEN NotAsked
                    ELSE Attempt(q, IF wants THEN <<"ipam", "hosts", "addresses">> ELSE <<"ipam">>)
           libre == IF wants /\ Configured(q, "librenms") THEN Attempt(q, <<"index">>) ELSE NotAsked
           warned == Warned(itop, "itop") \cup Warned(libre, "librenms") \cup LinkStatus(q)
                       \cup (IF wants THEN UNION Common(q) ELSE {})
                       \cup (IF q.global THEN {"global"} ELSE {})
           marks == IF wants THEN Marks(q, itop.got) \cap {"not monitored"} ELSE {}
<1>1. Refused(422) \/ Sheet(warned, marks)
  BY Zenon DEF StructureRequest
<1>2. ASSUME "not monitored" \in marks PROVE ~q.host.monitored /\ "zabbix" \notin warned
  <2>1. wants /\ "not monitored" \in Marks(q, itop.got)
    <3> HIDE DEF wants, itop
    <3> QED BY <1>2
  <2>2. ~q.host.monitored /\ "zabbix" \notin UNION Common(q)
    <3> HIDE DEF itop
    <3> QED BY <2>1, MarksMean
  <2>3. "zabbix" \notin Warned(itop, "itop") \cup Warned(libre, "librenms") \cup LinkStatus(q)
    <3> HIDE DEF itop, libre
    <3> QED BY DEF Warned, LinkStatus
  <2> HIDE DEF itop, libre
  <2> QED BY <2>1, <2>2, <2>3
<1>3. marks \subseteq {"not monitored"}
  OBVIOUS
<1>4. True(q, marks, warned)
  <2> HIDE DEF marks, warned
  <2> QED BY <1>2, <1>3 DEF True
<1> HIDE DEF marks, warned
<1> QED BY <1>1, <1>4, SheetGiven, RefusedGiven, NoMarks

\* what a plan of the services says,
LEMMA ServicesMarks ==
    ASSUME NEW q, ServicesRequest(q) PROVE True(q, reply'.marks, reply'.warned)
<1> DEFINE libre == IF Configured(q, "librenms") THEN Attempt(q, <<"index">>) ELSE NotAsked
           got   == ServiceData(q).got \cup ItopAddresses(q).got
           warned == (UNION Common(q)) \cup Warned(libre, "librenms") \cup Warned(ItopAddresses(q), "itop")
                       \cup (IF q.lost # {} THEN {"itop"} ELSE {})
<1>1. \/ Refused(400) \/ Refused(422) \/ Refused(502)
      \/ \E w : Sheet(w, {})
      \/ ServiceData(q).ok /\ (Sheet(warned, {}) \/ Sheet(warned, Marks(q, got)))
  BY Zenon DEF ServicesRequest
<1>2. ASSUME ServiceData(q).ok PROVE True(q, Marks(q, got), warned)
  <2>1. Warned(ItopAddresses(q), "itop") \subseteq warned
    <3> HIDE DEF libre
    <3> QED OBVIOUS
  <2>2. ASSUME "not monitored" \in Marks(q, got) PROVE ~q.host.monitored /\ "zabbix" \notin warned
    <3> HIDE DEF got, libre
    <3>1. ~q.host.monitored /\ "zabbix" \notin UNION Common(q)
      BY <2>2, MarksMean
    <3> QED BY <3>1 DEF Warned
  <2> HIDE DEF warned
  <2>3. /\ "not in iTop" \in Marks(q, got) =>
              (~q.host.ci /\ ~q.host.address) \/ "itop" \in warned \/ q.skipped
        /\ "not in service" \in Marks(q, got) =>
              ~q.host.linked \/ ~q.host.ci \/ q.skipped
    BY <2>1, <1>2, ServiceMarks
  <2> HIDE DEF got
  <2> QED BY <2>1, <2>2, <2>3 DEF True
<1> HIDE DEF warned, got
<1> QED BY <1>1, <1>2, SheetGiven, RefusedGiven, NoMarks

\* what one of the nets of a service says,
LEMMA SegmentsMarks ==
    ASSUME NEW q, Segments(q) PROVE True(q, reply'.marks, reply'.warned)
<1> DEFINE got    == ServiceData(q).got \cup ItopAddresses(q).got
           common == (UNION Common(q)) \cup Warned(Lldp(q), "librenms") \cup Warned(ItopAddresses(q), "itop")
           virt   == Attempt(q, <<"virtualization">>)
           known  == Configured(q, "librenms") /\ Lldp(q).ok
           fdb    == IF known THEN Attempt(q, <<"fdb">>) ELSE NotAsked
           all    == common \cup Warned(virt, "itop") \cup Warned(fdb, "librenms")
                       \cup (IF known THEN {} ELSE {"librenms"})
<1>1. \/ Refused(400) \/ Refused(422) \/ Refused(502) \/ Refused(404)
      \/ /\ ~(On(q, "itop") /\ ~ServiceData(q).ok) /\ ServiceFound(q)
         /\ Sheet(common, Marks(q, got)) \/ Sheet(all, Marks(q, got))
  BY Zenon DEF Segments
<1>2. ASSUME ServiceData(q).ok, NEW warned \in {common, all} PROVE True(q, Marks(q, got), warned)
  <2>1. Warned(ItopAddresses(q), "itop") \subseteq warned
    <3> HIDE DEF fdb, known, virt
    <3> QED OBVIOUS
  <2>2. ASSUME "not monitored" \in Marks(q, got) PROVE ~q.host.monitored /\ "zabbix" \notin warned
    <3> HIDE DEF got, fdb, known, virt
    <3>1. ~q.host.monitored /\ "zabbix" \notin UNION Common(q)
      BY <2>2, MarksMean
    <3> QED BY <3>1 DEF Warned
  <2> HIDE DEF common, all
  <2>3. /\ "not in iTop" \in Marks(q, got) =>
              (~q.host.ci /\ ~q.host.address) \/ "itop" \in warned \/ q.skipped
        /\ "not in service" \in Marks(q, got) =>
              ~q.host.linked \/ ~q.host.ci \/ q.skipped
    BY <2>1, <1>2, ServiceMarks
  <2> HIDE DEF got
  <2> QED BY <1>2, <2>2, <2>3 DEF True
<1> HIDE DEF common, all, got
<1> QED BY <1>1, <1>2, SheetGiven, RefusedGiven, NoMarks DEF ServiceFound

\* and the others say nothing of hosts.
LEMMA OtherMarks ==
    ASSUME NEW q, Physical(q) \/ LibreList(q) \/ ServiceList(q)
    PROVE  True(q, reply'.marks, reply'.warned)
<1>1. (\E code : Refused(code)) \/ \E w : Sheet(w, {})
  <2>1. ASSUME Physical(q) PROVE (\E code : Refused(code)) \/ \E w : Sheet(w, {})
    BY <2>1, Zenon DEF Physical
  <2>2. ASSUME LibreList(q) PROVE (\E code : Refused(code)) \/ \E w : Sheet(w, {})
    BY <2>2, Zenon DEF LibreList
  <2>3. ASSUME ServiceList(q) PROVE (\E code : Refused(code)) \/ \E w : Sheet(w, {})
    BY <2>3, Zenon DEF ServiceList
  <2> QED BY <2>1, <2>2, <2>3
<1> QED BY <1>1, SheetGiven, RefusedGiven, NoMarks

\* The marks at a host are true, or the system they come from is named as missing
\* (MarksAreTrue).
THEOREM MarksNeverLie == AnswersSpec => []MarksAreTrue
<1>1. reply = None => MarksAreTrue
  <2>1. reply = None => reply.kind = "none"
    BY DEF None
  <2> QED BY <2>1 DEF MarksAreTrue
<1>2. MarksAreTrue /\ [AnswersNext]_requestVars => MarksAreTrue'
  <2> SUFFICES ASSUME MarksAreTrue, [AnswersNext]_requestVars, reply'.kind = "sheet"
               PROVE  MarksAreTrue'
    BY DEF MarksAreTrue
  <2>1. CASE reply' = reply /\ asked' = asked
    BY <2>1 DEF MarksAreTrue
  <2>2. CASE asked' = asked /\ PlanRequestNext
    <3>1. True(asked, reply'.marks, reply'.warned)
      BY <2>2, StructureMarks, ServicesMarks, SegmentsMarks, OtherMarks
      DEF PlanRequestNext, PlanStructure, PlanServices, PlanSegments, PlanPhysical, PlanLists
    <3> QED BY <3>1, <2>2 DEF MarksAreTrue, True
  <2> QED BY <2>1, <2>2, Answered
<1> QED BY <1>1, <1>2, PTL DEF AnswersSpec

----------------------------------------------------------------------------
(* From a service to its hosts *)

\* _place picks one of the narrowest nets: Better is an order with a best element.
LEMMA NetForIsNarrowest ==
    ASSUME NEW q, NEW a, Narrowest(q, a) # {}
    PROVE  NetFor(q, a) \in Narrowest(q, a)
<1> DEFINE top == Narrowest(q, a)
<1>1. \E n \in top : \A k \in top : ~Better(k, n)
  <2>1. CASE \E n \in top : IsGateway(n) /\ n.on
    BY <2>1 DEF Better
  <2>2. CASE (\A n \in top : ~(IsGateway(n) /\ n.on)) /\ \E n \in top : IsGateway(n)
    BY <2>2 DEF Better
  <2>3. CASE (\A n \in top : ~IsGateway(n)) /\ \E n \in top : n.on
    BY <2>3 DEF Better
  <2>4. CASE \A n \in top : ~IsGateway(n) /\ ~n.on
    BY <2>4 DEF Better
  <2> QED BY <2>1, <2>2, <2>3, <2>4
<1> HIDE DEF top
<1>2. (CHOOSE n \in top : \A k \in top : ~Better(k, n)) \in top
  BY <1>1
<1>3. NetFor(q, a) = CHOOSE n \in top : \A k \in top : ~Better(k, n)
  BY Zenon DEF NetFor, top
<1> QED BY <1>2, <1>3 DEF top

\* A link of a service ends in a net of one of its hosts, or among the unplaced.
LEMMA PlacedSomewhere ==
    ASSUME NEW q, NEW ln
    PROVE  \/ Placed(q, ln).why \in {"no address", "no net"}
           \/ /\ Placed(q, ln).why = "placed"
              /\ \E c \in HostsOf(q, ln) : /\ Placed(q, ln).ip = c.ip
                                           /\ Placed(q, ln).net \in Narrowest(q, c.ip)
<1> DEFINE c == CHOOSE h \in HostsOf(q, ln) : TRUE
<1>1. CASE HostsOf(q, ln) = {}
  BY <1>1 DEF Placed
<1>2. CASE HostsOf(q, ln) # {} /\ Narrowest(q, c.ip) = {}
  BY <1>2 DEF Placed
<1>3. CASE HostsOf(q, ln) # {} /\ Narrowest(q, c.ip) # {}
  <2>1. c \in HostsOf(q, ln)
    BY <1>3
  <2>2. Placed(q, ln) = [why |-> "placed", ip |-> c.ip, net |-> NetFor(q, c.ip), warn |-> Elsewhere(q, c.ip) # {}]
    BY <1>3, Zenon DEF Placed
  <2>3. NetFor(q, c.ip) \in Narrowest(q, c.ip)
    BY <1>3, NetForIsNarrowest
  <2> HIDE DEF c
  <2> QED BY <2>1, <2>2, <2>3
<1> QED BY <1>1, <1>2, <1>3

\* What a link of the services adds to them,
LEMMA LinkIsThere ==
    ASSUME NEW q, NEW ss, NEW ln \in q.links, ln.svc \in ss, ~ln.shell
    PROVE  [svc |-> ln.svc, ci |-> ln.ci, at |-> Placed(q, ln)] \in PlacedIn(q, ss)
<1>1. ln \in CisOf(q, ln.svc)
  BY DEF CisOf
<1>2. ln \in UNION {CisOf(q, s) : s \in ss}
  BY <1>1
<1> QED BY <1>2, Zenon DEF PlacedIn

\* one that is placed: a net of theirs around an address of the CI,
LEMMA PlacedInNet ==
    ASSUME NEW q, NEW ss, NEW ln \in q.links, ln.svc \in ss, ~ln.shell, Placed(q, ln).why = "placed"
    PROVE  \E c \in HostsOf(q, ln), n \in NetsOf(PlacedIn(q, ss)) :
              c.ip \in IpsOf(PlacedIn(q, ss)) /\ Within(c.ip, n)
<1> DEFINE p == [svc |-> ln.svc, ci |-> ln.ci, at |-> Placed(q, ln)]
           all == PlacedIn(q, ss)
<1>1. p \in all /\ p.at = Placed(q, ln)
  BY LinkIsThere
<1> HIDE DEF p, all
<1>2. PICK c \in HostsOf(q, ln) : p.at.ip = c.ip /\ p.at.net \in Narrowest(q, c.ip)
  BY <1>1, PlacedSomewhere
<1>3. p.at.net \in NetsOf(all) /\ p.at.ip \in IpsOf(all)
  BY <1>1 DEF NetsOf, IpsOf
<1>4. Within(c.ip, p.at.net)
  BY <1>2 DEF Narrowest
<1> QED BY <1>2, <1>3, <1>4 DEF all

\* any other: an entry among the unplaced.
LEMMA LinkAccounted ==
    ASSUME NEW q, NEW ss, NEW ln \in q.links, ln.svc \in ss, ~ln.shell
    PROVE  \/ <<ln.svc, ln.ci>> \in UnplacedIn(PlacedIn(q, ss))
           \/ \E c \in HostsOf(q, ln), n \in NetsOf(PlacedIn(q, ss)) :
                 c.ip \in IpsOf(PlacedIn(q, ss)) /\ Within(c.ip, n)
<1> DEFINE p == [svc |-> ln.svc, ci |-> ln.ci, at |-> Placed(q, ln)]
           all == PlacedIn(q, ss)
<1>1. p \in all /\ p.svc = ln.svc /\ p.ci = ln.ci /\ p.at = Placed(q, ln)
  BY LinkIsThere
<1> HIDE DEF p, all
<1>2. CASE Placed(q, ln).why \in {"no address", "no net"}
  <2>1. <<p.svc, p.ci>> \in UnplacedIn(all)
    BY <1>1, <1>2 DEF UnplacedIn
  <2> QED BY <1>1, <2>1 DEF all
<1>3. CASE Placed(q, ln).why = "placed"
  BY <1>3, PlacedInNet
<1> QED BY <1>2, <1>3, PlacedSomewhere

\* Whatever is hidden, the CI of the service itself is drawn (_visible_hosts).
LEMMA OwnIsVisible ==
    ASSUME NEW q, NEW ln, NEW c \in HostsOf(q, ln), NEW n, NEW ips, c.ip \in ips, Within(c.ip, n)
    PROVE  c.ip \in Visible(q, n, ips) \/ c.ip \in {n.ip, n.lo, n.lo + n.size - 1}
<1>1. c \in q.cis
  BY DEF HostsOf
<1>2. "itop-ci" \in Sources(q, c.ip)
  BY <1>1 DEF Sources
<1>3. InItop(q, c.ip) /\ Sources(q, c.ip) # {} /\ ~Foreign(q, c.ip, ips)
  BY <1>2 DEF InItop, Foreign
<1>4. ASSUME c.ip \notin {n.ip, n.lo, n.lo + n.size - 1} PROVE c.ip \in Collect(q, n)
  BY <1>3, <1>4 DEF Collect, Within
<1> QED BY <1>3, <1>4 DEF Visible

\* With an address, and a net around it, a link is placed.
LEMMA WithNetIsPlaced ==
    ASSUME NEW q, NEW ln, HostsOf(q, ln) # {}, \A c \in HostsOf(q, ln) : Narrowest(q, c.ip) # {}
    PROVE  Placed(q, ln).why = "placed"
<1> DEFINE c == CHOOSE h \in HostsOf(q, ln) : TRUE
<1>1. c \in HostsOf(q, ln)
  OBVIOUS
<1>2. Narrowest(q, c.ip) # {}
  BY <1>1
<1> QED BY <1>2, Zenon DEF Placed

\* A net of the service that is shown holds the CI.
LEMMA PlacedIsDrawn ==
    ASSUME NEW q, NEW ln, NEW c \in HostsOf(q, ln), NEW n, NEW ips, c.ip \in ips, Within(c.ip, n),
           NEW shown, n \in DOMAIN shown, shown[n] = Visible(q, n, ips)
    PROVE  DrawnIn(q, ln, shown)
<1>1. c.ip \in Visible(q, n, ips) \/ c.ip \in {n.ip, n.lo, n.lo + n.size - 1}
  BY OwnIsVisible
<1> QED BY <1>1 DEF DrawnIn

\* CisAccounted, of a question and its answer.
Accounted(q, r) ==
    /\ r.kind = "services" /\ ~r.error =>
         \A ln \in q.links : ln.svc \in DOMAIN r.shown /\ ~ln.shell =>
           <<ln.svc, ln.ci>> \in r.unplaced[ln.svc] \/ DrawnIn(q, ln, r.shown[ln.svc])
    /\ r.kind = "choice" /\ ~r.error =>
         \A ln \in q.links : ln.svc \in WantedServices(q) /\ ~ln.shell =>
           \/ <<ln.svc, ln.ci>> \in r.unplaced
           \/ \E c \in HostsOf(q, ln), n \in r.offered : Within(c.ip, n)
    /\ r.kind = "segments" /\ ~r.error /\ q.selected = {} =>
         \A ln \in q.links :
           ln.svc \in WantedServices(q) /\ ~ln.shell /\ HostsOf(q, ln) # {}
             /\ (\A c \in HostsOf(q, ln) : Narrowest(q, c.ip) # {})
             => DrawnIn(q, ln, r.shown)

\* No CI is lost between iTop and the sheet (CisAccounted): for any service catalogue,
\* any address plan, whatever is hidden.
THEOREM NoCiIsLost == AnswersSpec => []CisAccounted
<1>1. reply = None => Accounted(asked, reply)
  <2>1. reply = None => reply.kind = "none"
    BY DEF None
  <2> QED BY <2>1 DEF Accounted
<1>2. Accounted(asked, reply) /\ [AnswersNext]_requestVars => Accounted(asked, reply)'
  <2> SUFFICES ASSUME Accounted(asked, reply), asked' = asked, [AnswersNext]_requestVars
               PROVE  Accounted(asked, reply')
    BY Answered
  <2>1. CASE reply' = reply /\ asked' = asked
    BY <2>1
  <2>2. CASE asked' = asked /\ ServiceView /\ reply'.kind = "services"
    <3> DEFINE ss == WantedServices(asked)
               of(s) == PlacedIn(asked, {s})
               shown == [s \in ss |-> [n \in NetsOf(of(s)) |-> Visible(asked, n, IpsOf(of(s)))]]
               unplaced == [s \in ss |-> UnplacedIn(of(s))]
    <3>1. SUFFICES ASSUME ~reply'.error, NEW ln \in asked.links, ln.svc \in DOMAIN reply'.shown, ~ln.shell
                   PROVE  <<ln.svc, ln.ci>> \in reply'.unplaced[ln.svc] \/ DrawnIn(asked, ln, reply'.shown[ln.svc])
      BY <2>2, Zenon DEF Accounted
    <3>2. \/ Give([kind |-> "services", error |-> TRUE])
          \/ \E ips, nets : Give([kind |-> "services", error |-> FALSE, shown |-> shown, ips |-> ips,
                                  unplaced |-> unplaced, nets |-> nets])
      BY <2>2, Zenon DEF ServiceView
    <3>3. reply'.shown = shown /\ reply'.unplaced = unplaced
      <4> HIDE DEF shown, unplaced
      <4> QED BY <3>1, <3>2 DEF Give
    <3>4. ln.svc \in ss
      BY <3>1, <3>3
    <3>5. CASE <<ln.svc, ln.ci>> \in UnplacedIn(of(ln.svc))
      BY <3>3, <3>4, <3>5
    <3>6. ASSUME NEW c \in HostsOf(asked, ln), NEW n \in NetsOf(of(ln.svc)),
                 c.ip \in IpsOf(of(ln.svc)), Within(c.ip, n)
          PROVE  DrawnIn(asked, ln, reply'.shown[ln.svc])
      <4>1. n \in DOMAIN reply'.shown[ln.svc] /\ reply'.shown[ln.svc][n] = Visible(asked, n, IpsOf(of(ln.svc)))
        <5> HIDE DEF of
        <5> QED BY <3>3, <3>4, <3>6
      <4> HIDE DEF of
      <4> QED BY <4>1, <3>6, PlacedIsDrawn
    <3>7. ln.svc \in {ln.svc}
      OBVIOUS
    <3> HIDE DEF shown, unplaced
    <3> QED BY <3>1, <3>5, <3>6, <3>7, LinkAccounted
  <2>3. CASE asked' = asked /\ SegmentPlan /\ reply'.kind = "segments"
    <3> DEFINE ss     == WantedServices(asked)
               placed == PlacedIn(asked, ss)
               chosen == IF asked.selected = {} THEN NetsOf(placed) ELSE asked.selected
               shown  == [n \in chosen |-> Visible(asked, n, IpsOf(placed))]
    <3>1. SUFFICES ASSUME ~reply'.error, asked.selected = {}, NEW ln \in asked.links, ln.svc \in ss, ~ln.shell,
                          HostsOf(asked, ln) # {}, \A c \in HostsOf(asked, ln) : Narrowest(asked, c.ip) # {}
                   PROVE  DrawnIn(asked, ln, reply'.shown)
      BY <2>3, Zenon DEF Accounted
    <3>2. \/ Give([kind |-> "segments", error |-> TRUE])
          \/ \E sites, ips : Give([kind |-> "segments", error |-> FALSE, sites |-> sites,
                                   shown |-> shown, ips |-> ips])
      BY <2>3, Zenon DEF SegmentPlan
    <3>3. reply'.shown = shown
      <4> HIDE DEF shown
      <4> QED BY <3>1, <3>2 DEF Give
    <3>4. Placed(asked, ln).why = "placed"
      BY <3>1, WithNetIsPlaced
    <3>5. PICK c \in HostsOf(asked, ln), n \in NetsOf(placed) : c.ip \in IpsOf(placed) /\ Within(c.ip, n)
      BY <3>1, <3>4, PlacedInNet
    <3>6. n \in DOMAIN reply'.shown /\ reply'.shown[n] = Visible(asked, n, IpsOf(placed))
      <4> HIDE DEF placed
      <4> QED BY <3>1, <3>3, <3>5
    <3> HIDE DEF placed, shown
    <3> QED BY <3>5, <3>6, PlacedIsDrawn
  <2>4. CASE asked' = asked /\ NetworkChoice /\ reply'.kind = "choice"
    <3> DEFINE ss     == WantedServices(asked)
               placed == PlacedIn(asked, ss)
    <3>1. SUFFICES ASSUME ~reply'.error, NEW ln \in asked.links, ln.svc \in ss, ~ln.shell
                   PROVE  \/ <<ln.svc, ln.ci>> \in reply'.unplaced
                          \/ \E c \in HostsOf(asked, ln), n \in reply'.offered : Within(c.ip, n)
      BY <2>4, Zenon DEF Accounted
    <3>2. \/ Give([kind |-> "choice", error |-> TRUE])
          \/ Give([kind |-> "choice", error |-> FALSE, offered |-> NetsOf(placed), unplaced |-> UnplacedIn(placed)])
      BY <2>4, Zenon DEF NetworkChoice
    <3>3. reply'.offered = NetsOf(placed) /\ reply'.unplaced = UnplacedIn(placed)
      <4> HIDE DEF placed
      <4> QED BY <3>1, <3>2 DEF Give
    <3>4. \/ <<ln.svc, ln.ci>> \in UnplacedIn(placed)
          \/ \E c \in HostsOf(asked, ln), n \in NetsOf(placed) : c.ip \in IpsOf(placed) /\ Within(c.ip, n)
      BY <3>1, LinkAccounted
    <3> HIDE DEF placed, ss
    <3> QED BY <3>3, <3>4
  <2>5. CASE reply'.kind \notin {"services", "segments", "choice"}
    BY <2>5 DEF Accounted
  <2> QED BY <2>1, <2>2, <2>3, <2>4, <2>5, Answered
<1>3. CisAccounted <=> Accounted(asked, reply)
  BY Zenon DEF CisAccounted, Accounted
<1> QED BY <1>1, <1>2, <1>3, PTL DEF AnswersSpec

----------------------------------------------------------------------------
(* iTop and what lives in a net *)

\* A comparison is asked for a net of addresses, and times are in days; Untimed and
\* Never stand for a sighting without a time and for none.
Timed(q) ==
    /\ q.net.lo \in Int /\ q.net.hi \in Int
    /\ \A a \in q.net.lo .. q.net.hi :
          /\ \A m \in q.of[a].macs : m.age \in Nat
          /\ q.of[a].win \in Nat /\ q.of[a].faz \in Nat

SeenIn(s, days) == \/ \E m \in s.macs : m.age <= days
                   \/ s.win <= days \/ s.faz <= days \/ s.faz = Untimed

\* The marks for no time and for none are beyond all limits.
LEMMA Marker == /\ Never \in Nat /\ Untimed \in Nat /\ Untimed < Never
                /\ ActiveDays \in Nat /\ ActiveDays < Untimed
                /\ StaleDays \in Nat /\ StaleDays < Untimed
BY DaysAssumption DEF Never, Untimed

\* The age of a host is the least of all sources: six, each with times of its own.
LEMMA AgeIsLeast ==
    ASSUME NEW s, \A m \in s.macs : m.age \in Nat, s.win \in Nat, s.faz \in Nat,
           NEW days \in Nat, days < Untimed
    PROVE  Age(s) \in Nat /\ (Age(s) <= days <=> SeenIn(s, days))
<1> DEFINE ages == Sightings(s) \cup {Never}
<1>1. \A x : x \in ages <=> \/ \E m \in s.macs : x = m.age
                            \/ s.win # Never /\ x = s.win
                            \/ s.faz = Untimed /\ x = 0
                            \/ s.faz \notin {Never, Untimed} /\ x = s.faz
                            \/ x = Never
  <2>1. Never # Untimed
    BY Marker
  <2> QED BY <2>1 DEF Sightings
<1>2. ages \subseteq Nat /\ Never \in ages
  BY <1>1, Marker
<1>3. Age(s) \in ages /\ \A y \in ages : Age(s) <= y
  <2> HIDE DEF ages
  <2>1. \E x \in ages : \A y \in ages : x <= y
    BY <1>2, LeastOf
  <2>2. Age(s) = CHOOSE x \in ages : \A y \in ages : x <= y
    BY Zenon DEF Age, Min, ages
  <2> QED BY <2>1, <2>2
<1> HIDE DEF ages
<1>4. Age(s) \in Nat
  BY <1>2, <1>3
<1>5. ASSUME Age(s) <= days PROVE SeenIn(s, days)
  <2>1. Age(s) # Never
    BY <1>4, <1>5, Marker
  <2> QED BY <1>1, <1>3, <1>5, <2>1 DEF SeenIn
<1>6. ASSUME SeenIn(s, days) PROVE Age(s) <= days
  <2>1. \E x \in ages : x <= days
    <3>1. ASSUME NEW m \in s.macs, m.age <= days PROVE m.age \in ages /\ m.age <= days
      BY <1>1, <3>1
    <3>2. ASSUME s.win <= days PROVE s.win \in ages /\ s.win <= days
      BY <1>1, <3>2, Marker
    <3>3. ASSUME s.faz = Untimed PROVE 0 \in ages /\ 0 <= days
      BY <1>1, <3>3
    <3>4. ASSUME s.faz <= days PROVE s.faz \in ages /\ s.faz <= days
      BY <1>1, <3>4, Marker
    <3> QED BY <1>6, <3>1, <3>2, <3>3, <3>4 DEF SeenIn
  <2>2. PICK x \in ages : x <= days
    BY <2>1
  <2>3. x \in Nat /\ Age(s) <= x
    BY <2>2, <1>2, <1>3
  <2> QED BY <2>2, <2>3, <1>4
<1> QED BY <1>4, <1>5, <1>6

\* What is found of an address, by the least age.
LEMMA FindingsAre ==
    ASSUME NEW q, NEW s, ~s.firewall
    PROVE  /\ Findings(q, s) \cap {"not_in_itop", "itop_released"} # {} <=> Age(s) <= ActiveDays /\ ~ItopSays(s)
           /\ "stale_in_itop" \in Findings(q, s) <=>
                 /\ Observed(q) /\ ItopSays(s) /\ ~(~s.ci /\ s.status = "reserved")
                 /\ Age(s) > StaleDays
BY DEF Findings

\* A host that lives unknown to iTop, and one iTop holds that is long silent, are
\* reported, and no other (SilenceAndLifeReported): for a net of any size, whatever the
\* sources say.
THEOREM LifeAndSilenceAreSeen ==
    AnswersSpec /\ (asked.kind = "reconcile" => Timed(asked)) => []SilenceAndLifeReported
<1> DEFINE Inv == /\ asked.kind = "reconcile" => Timed(asked)
                  /\ reply.kind = "reconcile" => asked.kind = "reconcile"
                  /\ SilenceAndLifeReported
<1>1. reply = None /\ (asked.kind = "reconcile" => Timed(asked)) => Inv
  <2>1. reply = None => reply.kind = "none"
    BY DEF None
  <2> QED BY <2>1 DEF SilenceAndLifeReported
<1>2. Inv /\ [AnswersNext]_requestVars => Inv'
  <2> SUFFICES ASSUME Inv, [AnswersNext]_requestVars PROVE Inv'
    OBVIOUS
  <2>1. CASE reply' = reply /\ asked' = asked
    BY <2>1 DEF SilenceAndLifeReported, Timed
  <2>2. CASE asked' = asked /\ reply'.kind # "reconcile"
    BY <2>2 DEF SilenceAndLifeReported, Timed
  <2>3. CASE asked' = asked /\ Reconcile /\ reply'.kind = "reconcile"
    <3>1. asked.kind = "reconcile" /\ Timed(asked)
      BY <2>3 DEF Reconcile, Pending
    <3>2. reply'.rows = [a \in ReconcileRows(asked) |-> Findings(asked, asked.of[a])]
      BY <2>3 DEF Reconcile, Give
    <3>3. DOMAIN reply'.rows = ReconcileRows(asked)
      BY <3>2
    <3>4. SUFFICES ASSUME NEW a \in asked.net.lo + 1 .. asked.net.hi - 1, ~asked.of[a].firewall
                   PROVE  LET s == asked.of[a]
                              told == IF a \in DOMAIN reply'.rows THEN reply'.rows[a] ELSE {}
                              watched == \E b \in DOMAIN reply'.rows : asked.of[b].macs # {}
                          IN  /\ (told \cap {"not_in_itop", "itop_released"} # {}) =
                                    (SeenIn(s, ActiveDays) /\ ~ItopSays(s))
                              /\ ("stale_in_itop" \in told) =
                                    (watched /\ (s.ci \/ s.status = "allocated") /\ ~SeenIn(s, StaleDays))
      BY <2>3, <3>1 DEF SilenceAndLifeReported, SeenIn, Timed
    <3> DEFINE s == asked.of[a]
               told == IF a \in DOMAIN reply'.rows THEN reply'.rows[a] ELSE {}
    <3>5. /\ a \in asked.net.lo .. asked.net.hi /\ a # asked.net.lo /\ a # asked.net.hi
          /\ (\A m \in s.macs : m.age \in Nat) /\ s.win \in Nat /\ s.faz \in Nat
      BY <3>1, <3>4 DEF Timed
    <3>6. /\ Age(s) \in Nat
          /\ Age(s) <= ActiveDays <=> SeenIn(s, ActiveDays)
          /\ Age(s) <= StaleDays <=> SeenIn(s, StaleDays)
      <4> HIDE DEF s
      <4> QED BY <3>5, Marker, AgeIsLeast
    <3>7. a \in ReconcileRows(asked) <=> Mentioned(s)
      BY <3>4, <3>5 DEF ReconcileRows, AddressesOf
    <3>8. Observed(asked) <=> \E b \in DOMAIN reply'.rows : asked.of[b].macs # {}
      BY <3>3 DEF Observed
    <3>9. CASE Mentioned(s)
      <4>1. told = Findings(asked, s)
        BY <3>2, <3>7, <3>9
      <4> HIDE DEF told, s
      <4>2. ~s.firewall
        BY <3>4 DEF s
      <4>3. Age(s) > StaleDays <=> ~SeenIn(s, StaleDays)
        BY <3>6, Marker
      <4>4. ItopSays(s) /\ ~(~s.ci /\ s.status = "reserved") <=> s.ci \/ s.status = "allocated"
        BY DEF ItopSays
      <4>5. told \cap {"not_in_itop", "itop_released"} # {} <=> SeenIn(s, ActiveDays) /\ ~ItopSays(s)
        BY <4>1, <4>2, <3>6, FindingsAre
      <4>6. "stale_in_itop" \in told <=> Observed(asked) /\ (s.ci \/ s.status = "allocated") /\ ~SeenIn(s, StaleDays)
        BY <4>1, <4>2, <4>3, <4>4, FindingsAre
      <4> QED BY <4>5, <4>6, <3>8 DEF told, s
    <3>10. CASE ~Mentioned(s)
      <4>1. told = {}
        BY <3>3, <3>7, <3>10
      <4>2. ~SeenIn(s, ActiveDays) /\ ~(s.ci \/ s.status = "allocated")
        BY <3>10, Marker DEF Mentioned, SeenIn
      <4> HIDE DEF told, s
      <4> QED BY <4>1, <4>2 DEF told, s
    <3> QED BY <3>9, <3>10
  <2> QED BY <2>1, <2>2, <2>3, Answered
<1> QED BY <1>1, <1>2, PTL DEF AnswersSpec

----------------------------------------------------------------------------
(* The switches of a VLAN *)

\* Where one host stands: at no port that leads on, and at a trunk only if no access port
\* of the switches that were asked knows it.
IsHome(q, rows, h, p) ==
    /\ Kind(q, p) # "uplink"
    /\ \A r \in rows : r.mac = q.mac[h] /\ r.vlan /\ Kind(q, r.port) = "access" =>
         \/ Kind(q, p) = "access"
         \/ q.mac[h] # NoMac /\ HostOf(q, q.mac[h]) # h
         \/ \E v \in q.hv[h], s \in rows : s.mac = q.server[v] /\ s.port = p

\* A port of the server's own MAC, for whichever hypervisor.
LEMMA AtServer ==
    ASSUME NEW q, NEW rows, NEW h, NEW v \in q.hv[h], NEW p \in ServerPorts(q, rows, v)
    PROVE  IsHome(q, rows, h, p)
<1>1. PICK s \in rows : s.mac = q.server[v] /\ s.port = p /\ Kind(q, s.port) # "uplink"
  BY DEF ServerPorts
<1> QED BY <1>1 DEF IsHome

\* No sighting of the host comes before the one it is placed by.
LEMMA OwnPort ==
    ASSUME NEW q, NEW rows, NEW h, NEW p \in Homes(q, rows, h)
    PROVE  IsHome(q, rows, h, p)
<1> DEFINE ps == {r.port : r \in {k \in rows : k.mac = q.mac[h] /\ k.vlan /\ Kind(q, k.port) # "uplink"}}
<1>1. p \in ps /\ \A o \in ps : ~Less(Rank(q, rows, h, o), Rank(q, rows, h, p))
  BY DEF Homes
<1>2. Kind(q, p) # "uplink"
  BY <1>1
<1>3. CASE \E v \in q.hv[h] : p \in ServerPorts(q, rows, v)
  BY <1>3, AtServer
<1>4. ASSUME ~\E v \in q.hv[h] : p \in ServerPorts(q, rows, v),
             NEW r \in rows, r.mac = q.mac[h], r.vlan, Kind(q, r.port) = "access"
      PROVE  Kind(q, p) = "access"
  <2>1. r.port \in ps
    BY <1>4
  <2>2. ~Less(Rank(q, rows, h, r.port), Rank(q, rows, h, p))
    BY <2>1, <1>1
  <2>3. Rank(q, rows, h, p)[1] = DeviceRank(Kind(q, p))
    BY <1>4 DEF Rank
  <2>4. Rank(q, rows, h, r.port)[1] \in {-1, 0}
    BY <1>4 DEF Rank, DeviceRank
  <2>5. DeviceRank(Kind(q, p)) \in {0, 1, 2} /\ (DeviceRank(Kind(q, p)) = 0 => Kind(q, p) = "access")
    BY DEF DeviceRank
  <2> QED BY <2>2, <2>3, <2>4, <2>5 DEF Less
<1> QED BY <1>2, <1>3, <1>4 DEF IsHome

\* Wherever a host stands it is at home.
LEMMA PlacesAreHomes ==
    ASSUME NEW q, NEW rows, NEW h, NEW p \in Places(q, rows, h)
    PROVE  IsHome(q, rows, h, p)
<1>1. p \in Homes(q, rows, h) \/ p \in ServerHomes(q, rows, h)
  BY DEF Places
<1>2. ASSUME p \in ServerHomes(q, rows, h) PROVE \E v \in q.hv[h] : p \in ServerPorts(q, rows, v)
  BY <1>2 DEF ServerHomes
<1> QED BY <1>1, <1>2, OwnPort, AtServer

\* A port that is no uplink leads to no switch and no firewall, and an aggregate is taken
\* for an uplink unless its neighbour says otherwise.
LEMMA NoUplinkMeans ==
    ASSUME NEW q, NEW p, Kind(q, p) # "uplink"
    PROVE  /\ \A ln \in q.links : <<ln.l, ln.port>> = p =>
                 ln.names \notin {"me", "switch"} /\ ln.r \notin Monitored
           /\ p \in q.lag => \E ln \in q.links : <<ln.l, ln.port>> = p /\ ln.names = "other"
BY DEF Kind, LinksAt, IsUplink

\* A host stands only where it is at home (HostsAtHome): any wiring, any tables, any
\* switch that does not answer.
THEOREM HostsStandAtHome == AnswersSpec => []HostsAtHome
<1>1. reply = None => HostsAtHome
  <2>1. reply = None => reply.kind = "none"
    BY DEF None
  <2> QED BY <2>1 DEF HostsAtHome
<1>2. HostsAtHome /\ [AnswersNext]_requestVars => HostsAtHome'
  <2> SUFFICES ASSUME HostsAtHome, [AnswersNext]_requestVars PROVE HostsAtHome'
    OBVIOUS
  <2>1. CASE reply' = reply /\ asked' = asked
    BY <2>1 DEF HostsAtHome, Rows, Kind, LinksAt, HostOf
  <2>2. CASE reply'.kind # "tree"
    BY <2>2 DEF HostsAtHome
  <2>3. CASE asked' = asked /\ Draw
    <3> DEFINE at(cands) ==
                 [h \in DOMAIN asked.mac |->
                    LET ps == Places(asked, Rows(asked, cands), h)
                    IN  IF ps = {} THEN NoDevice ELSE CHOOSE p \in ps : TRUE]
    <3>1. PICK cands : \E keep, lines, solid, dashed :
             Give([kind |-> "tree", asked |-> cands, at |-> at(cands), keep |-> keep,
                   lines |-> lines, solid |-> solid, dashed |-> dashed])
      BY <2>3, Zenon DEF Draw
    <3> DEFINE standing == at(cands)
    <3>2. reply'.at = standing /\ reply'.asked = cands
      <4> HIDE DEF standing
      <4> QED BY <3>1 DEF Give, standing
    <3>3. ASSUME NEW h \in DOMAIN standing, standing[h] # NoDevice
          PROVE  IsHome(asked, Rows(asked, cands), h, standing[h])
      <4>1. standing[h] \in Places(asked, Rows(asked, cands), h)
        BY <3>3
      <4> QED BY <4>1, PlacesAreHomes
    <3> HIDE DEF standing
    <3>4. ASSUME NEW h \in DOMAIN standing, standing[h] # NoDevice
          PROVE  LET p == standing[h]
                     rows == Rows(asked, cands)
                 IN  /\ \A ln \in asked.links : <<ln.l, ln.port>> = p =>
                            ln.names \notin {"me", "switch"} /\ ln.r \notin Monitored
                     /\ p \in asked.lag => \E ln \in asked.links : <<ln.l, ln.port>> = p /\ ln.names = "other"
                     /\ \A r \in rows : r.mac = asked.mac[h] /\ r.vlan /\ Kind(asked, r.port) = "access" =>
                          \/ Kind(asked, p) = "access"
                          \/ asked.mac[h] # NoMac /\ HostOf(asked, asked.mac[h]) # h
                          \/ \E v \in asked.hv[h], s \in rows : s.mac = asked.server[v] /\ s.port = p
      <4>1. IsHome(asked, Rows(asked, cands), h, standing[h])
        BY <3>3, <3>4
      <4>2. Kind(asked, standing[h]) # "uplink"
        BY <4>1 DEF IsHome
      <4>3. /\ \A ln \in asked.links : <<ln.l, ln.port>> = standing[h] =>
                  ln.names \notin {"me", "switch"} /\ ln.r \notin Monitored
            /\ standing[h] \in asked.lag =>
                  \E ln \in asked.links : <<ln.l, ln.port>> = standing[h] /\ ln.names = "other"
        BY <4>2, NoUplinkMeans
      <4> QED BY <4>1, <4>3 DEF IsHome
    <3> QED BY <2>3, <3>2, <3>4 DEF HostsAtHome, Rows, Kind, LinksAt, HostOf
  <2> QED BY <2>1, <2>2, <2>3, Answered
<1> QED BY <1>1, <1>2, PTL DEF AnswersSpec

----------------------------------------------------------------------------
(* The site of a firewall *)

\* A plan is drawn from finitely many nets, each of a known VDOM; supernets have a size.
Surveyed(q) ==
    /\ IsFiniteSet(q.nets) /\ \A n \in q.nets : VdomOf(n) \in q.vdoms
    /\ \A s \in q.supernets : s.size \in Nat

\* A net votes for the houses around it.
LEMMA HouseIsVote ==
    ASSUME NEW q, NEW n, NEW s
    PROVE  s \in House(q, n) <=> s \in q.supernets /\ Vote(q, n, s)
BY DEF House, Vote

\* The nets of a site's supernets, in some VDOMs.
Voters(q, vs, site) == {n \in q.nets : n.on /\ VdomOf(n) \in vs /\ \E s \in Supernets(q, site) : Vote(q, n, s)}

\* The score of a site is how many nets vote for it.
LEMMA ScoreIsCount ==
    ASSUME NEW q, Surveyed(q), NEW vs, NEW site
    PROVE  /\ Score(q, vs, site) \in 0 .. Cardinality(q.nets)
           /\ Score(q, vs, site) = 0 => Voters(q, vs, site) = {}
<1>1. Score(q, vs, site) = Cardinality(Voters(q, vs, site))
  BY DEF Score, Voters
<1>2. Voters(q, vs, site) \in SUBSET q.nets
  BY DEF Voters
<1>3. IsFiniteSet(q.nets)
  BY DEF Surveyed
<1>4. IsFiniteSet(Voters(q, vs, site)) /\ Cardinality(Voters(q, vs, site)) <= Cardinality(q.nets)
  BY <1>2, <1>3, FS_Subset
<1>5. Cardinality(q.nets) \in Nat /\ Cardinality(Voters(q, vs, site)) \in Nat
  BY <1>3, <1>4, FS_CardinalityType
<1> QED BY <1>1, <1>4, <1>5, FS_EmptySet

\* The depth of a site that has supernets is the size of one of them, and of no other less.
LEMMA DepthIsLeast ==
    ASSUME NEW q, Surveyed(q), NEW site \in {t.site : t \in q.supernets}
    PROVE  /\ Depth(q, site) \in Nat
           /\ \E s \in Supernets(q, site) : s.size = Depth(q, site)
           /\ \A s \in Supernets(q, site) : Depth(q, site) <= s.size
<1> DEFINE sizes == {s.size : s \in Supernets(q, site)}
<1>1. sizes \subseteq Nat /\ sizes # {}
  BY DEF Supernets, Surveyed
<1>2. Depth(q, site) = CHOOSE x \in sizes : \A y \in sizes : x <= y
  BY Zenon DEF Depth, Min
<1>3. Depth(q, site) \in sizes /\ \A y \in sizes : Depth(q, site) <= y
  <2> HIDE DEF sizes
  <2>1. \E x \in sizes : \A y \in sizes : x <= y
    BY <1>1, LeastOf
  <2> QED BY <2>1, <1>2
<1> QED BY <1>1, <1>3

\* _best_site: of the sites with votes, one that no other beats by votes, nor by the depth
\* at as many; if none has votes, there is none.
LEMMA BestSite ==
    ASSUME NEW q, Surveyed(q), NEW vs, vs \cap DOMAIN q.override = {}
    PROVE  LET sites == {t.site : t \in q.supernets}
               site  == SiteOf(q, vs)
           IN  \/ site = NoSite /\ \A s \in sites : Voters(q, vs, s) = {}
               \/ /\ site \in sites
                  /\ \A s \in sites :
                       \/ Score(q, vs, site) > Score(q, vs, s)
                       \/ Score(q, vs, site) = Score(q, vs, s) /\ Depth(q, site) <= Depth(q, s)
<1> DEFINE sites == {t.site : t \in q.supernets}
           voted == {s \in sites : Score(q, vs, s) > 0}
           best  == {s \in voted : \A t \in voted :
                       \/ Score(q, vs, s) > Score(q, vs, t)
                       \/ Score(q, vs, s) = Score(q, vs, t) /\ Depth(q, s) <= Depth(q, t)}
<1>1. SiteOf(q, vs) = IF best = {} THEN NoSite ELSE CHOOSE s \in best : TRUE
  <2>1. {v \in vs : v \in DOMAIN q.override} = {}
    OBVIOUS
  <2> QED BY <2>1, Zenon DEF SiteOf
<1>2. \A s \in sites : Score(q, vs, s) \in 0 .. Cardinality(q.nets) /\ Depth(q, s) \in Nat
  BY ScoreIsCount, DepthIsLeast
<1>3. Cardinality(q.nets) \in Nat
  BY FS_CardinalityType DEF Surveyed
<1> HIDE DEF sites
<1>4. ASSUME voted # {} PROVE best # {}
  <2> DEFINE scores == {Score(q, vs, s) : s \in voted}
  <2>1. scores \subseteq 0 .. Cardinality(q.nets)
    BY <1>2
  <2>2. scores # {}
    BY <1>4
  <2>3. PICK x \in scores : \A y \in scores : y <= x
    <3> HIDE DEF scores
    <3> QED BY <2>1, <2>2, <1>3, Greatest
  <2> DEFINE top == {s \in voted : Score(q, vs, s) = x}
             depths == {Depth(q, s) : s \in top}
  <2>4. depths \subseteq Nat
    BY <1>2
  <2>5. depths # {}
    BY <2>3
  <2>6. PICK z \in depths : \A y \in depths : z <= y
    <3> HIDE DEF depths
    <3> QED BY <2>4, <2>5, LeastOf
  <2>7. PICK s \in top : Depth(q, s) = z
    BY <2>6
  <2>8. ASSUME NEW t \in voted
        PROVE  \/ Score(q, vs, s) > Score(q, vs, t)
               \/ Score(q, vs, s) = Score(q, vs, t) /\ Depth(q, s) <= Depth(q, t)
    <3>1. Score(q, vs, t) <= x /\ Score(q, vs, s) = x
      BY <2>3, <2>7
    <3>2. CASE Score(q, vs, t) = x
      <4>1. Depth(q, t) \in depths
        BY <3>2
      <4> QED BY <4>1, <3>1, <3>2, <2>6, <2>7
    <3>3. CASE Score(q, vs, t) # x
      <4>1. Score(q, vs, t) \in Int /\ Score(q, vs, s) \in Int
        BY <1>2, <2>7
      <4> QED BY <4>1, <3>1, <3>3
    <3> QED BY <3>2, <3>3
  <2>9. s \in best
    BY <2>7, <2>8
  <2> QED BY <2>9
<1>5. CASE best = {}
  <2>1. \A site \in sites : Score(q, vs, site) = 0
    BY <1>2, <1>4, <1>5
  <2>2. \A site \in sites : Voters(q, vs, site) = {}
    BY <2>1, ScoreIsCount
  <2> HIDE DEF best
  <2> QED BY <1>1, <1>5, <2>2 DEF sites
<1>6. CASE best # {}
  <2>1. SiteOf(q, vs) \in best
    <3> HIDE DEF best
    <3> QED BY <1>1, <1>6
  <2>2. SiteOf(q, vs) \in sites /\ Score(q, vs, SiteOf(q, vs)) > 0
    BY <2>1
  <2>3. ASSUME NEW s \in sites
        PROVE  \/ Score(q, vs, SiteOf(q, vs)) > Score(q, vs, s)
               \/ /\ Score(q, vs, SiteOf(q, vs)) = Score(q, vs, s)
                  /\ Depth(q, SiteOf(q, vs)) <= Depth(q, s)
    <3>1. Score(q, vs, s) \in Nat /\ Score(q, vs, SiteOf(q, vs)) \in Nat
      BY <1>2, <2>2
    <3>2. CASE s \in voted
      BY <3>2, <2>1
    <3>3. CASE s \notin voted
      BY <3>1, <3>3, <2>2
    <3> QED BY <3>2, <3>3
  <2> HIDE DEF best, voted
  <2> QED BY <2>2, <2>3 DEF sites
<1> QED BY <1>5, <1>6

\* So the site of some VDOMs is where their nets are at home.
LEMMA SiteIsHome ==
    ASSUME NEW q, Surveyed(q), NEW vs, NEW nets, nets = {n \in q.nets : n.on /\ VdomOf(n) \in vs}
    PROVE  AtHome(q, vs, nets, SiteOf(q, vs))
<1> DEFINE site == SiteOf(q, vs)
           named == vs \cap DOMAIN q.override
           houses(s) == Cardinality({n \in nets : \E h \in House(q, n) : h.site = s})
<1>1. CASE named # {}
  <2>1. {v \in vs : v \in DOMAIN q.override} = named
    OBVIOUS
  <2> HIDE DEF named
  <2>2. site = q.override[CHOOSE v \in named : TRUE]
    BY <1>1, <2>1, Zenon DEF SiteOf
  <2>3. \E v \in named : site = q.override[v]
    <3> HIDE DEF site
    <3> QED BY <1>1, <2>2
  <2> QED BY <1>1, <2>3, Zenon DEF AtHome, named
<1>2. CASE named = {}
  <2>1. ASSUME NEW s PROVE {n \in nets : \E h \in House(q, n) : h.site = s} = Voters(q, vs, s)
    <3>1. ASSUME NEW n PROVE (\E h \in House(q, n) : h.site = s) <=> \E h \in Supernets(q, s) : Vote(q, n, h)
      BY HouseIsVote DEF Supernets
    <3> QED BY <3>1 DEF Voters
  <2>2. \A s : houses(s) = Score(q, vs, s)
    BY <2>1 DEF Score, Voters
  <2>3. CASE site = NoSite /\ \A s \in {t.site : t \in q.supernets} : Voters(q, vs, s) = {}
    <3>1. ASSUME NEW n \in nets, NEW h \in House(q, n) PROVE FALSE
      <4>1. h \in q.supernets
        BY HouseIsVote
      <4>2. n \in Voters(q, vs, h.site)
        BY <2>1
      <4> HIDE DEF site
      <4> QED BY <4>1, <4>2, <2>3
    <3>2. \A n \in nets : House(q, n) = {}
      BY <3>1, Zenon
    <3> QED BY <1>2, <2>3, <3>2, Zenon DEF AtHome
  <2>4. CASE /\ site \in {t.site : t \in q.supernets}
             /\ \A s \in {t.site : t \in q.supernets} :
                  \/ Score(q, vs, site) > Score(q, vs, s)
                  \/ Score(q, vs, site) = Score(q, vs, s) /\ Depth(q, site) <= Depth(q, s)
    <3> HIDE DEF site
    <3>1. PICK home \in Supernets(q, site) : home.size = Depth(q, site)
      BY <2>4, DepthIsLeast
    <3>2. ASSUME NEW s \in q.supernets
          PROVE  \/ houses(site) > houses(s.site)
                 \/ houses(site) = houses(s.site) /\ home.size <= s.size
      <4>1. s.site \in {t.site : t \in q.supernets} /\ s \in Supernets(q, s.site)
        BY DEF Supernets
      <4>2. Depth(q, s.site) <= s.size /\ Depth(q, s.site) \in Nat /\ Depth(q, site) \in Nat /\ s.size \in Nat
        BY <4>1, <2>4, DepthIsLeast DEF Surveyed
      <4>3. houses(site) = Score(q, vs, site) /\ houses(s.site) = Score(q, vs, s.site)
        <5> HIDE DEF houses
        <5> QED BY <2>2
      <4> HIDE DEF houses
      <4> QED BY <4>1, <4>2, <4>3, <2>4, <3>1
    <3> QED BY <1>2, <3>2, Zenon DEF AtHome, site
  <2>5. vs \cap DOMAIN q.override = {}
    BY <1>2
  <2> QED BY <2>3, <2>4, <2>5, BestSite
<1> QED BY <1>1, <1>2

\* AtHomeByMajority, of a question and its answer.
Majority(q, r) ==
    r.kind = "plan" /\ ~r.error =>
      /\ \A d \in DOMAIN r.sites :
           AtHome(q, VdomsOf(q, d), {n \in q.nets : n.on /\ n.dev = d}, r.sites[d])
      /\ q.scope = "site" =>
           \A k \in DOMAIN r.shown :
             AtHome(q, {VdomOf(k)}, {n \in q.nets : n.on /\ VdomOf(n) = VdomOf(k)}, q.of)

\* A firewall is drawn in the house where most of its nets are, of two with as many in the
\* narrower, or where the settings put it; and the plan of a site shows the nets of the
\* VDOMs at home there (AtHomeByMajority): for any number of nets and sites, however they
\* are nested.
THEOREM DrawnWhereMostNetsAre ==
    AnswersSpec /\ (asked.kind = "plan" => Surveyed(asked)) => []AtHomeByMajority
<1> DEFINE Inv == /\ asked.kind = "plan" => Surveyed(asked)
                  /\ Majority(asked, reply)
<1>1. reply = None /\ (asked.kind = "plan" => Surveyed(asked)) => Inv
  <2>1. reply = None => reply.kind = "none"
    BY DEF None
  <2> QED BY <2>1 DEF Majority
<1>2. Inv /\ [AnswersNext]_requestVars => Inv'
  <2> SUFFICES ASSUME Inv, [AnswersNext]_requestVars PROVE Inv'
    OBVIOUS
  <2>0. asked' = asked
    BY Answered
  <2>4. (asked.kind = "plan" => Surveyed(asked))'
    BY <2>0 DEF Surveyed, VdomOf
  <2>1. CASE reply' = reply
    BY <2>0, <2>1, <2>4
  <2>2. CASE reply'.kind # "plan"
    BY <2>2, <2>4 DEF Majority
  <2>3. CASE Plan
    <3>1. Surveyed(asked)
      BY <2>3 DEF Plan, Pending
    <3> DEFINE vs    == ScopeVdoms(asked)
               nets  == IF asked.scope = "global" THEN {} ELSE {n \in asked.nets : VdomOf(n) \in vs}
               shown == Shown(asked, nets)
               sites == [d \in {v[1] : v \in vs} |-> SiteOfDevice(asked, d)]
    <3>2. \/ Give([kind |-> "plan", error |-> TRUE])
          \/ \E ns, es, found, names, reduced :
               Give([kind |-> "plan", error |-> FALSE, shown |-> shown, sites |-> sites,
                     neighbors |-> ns, edges |-> es, found |-> found, names |-> names, reduced |-> reduced])
      BY <2>3, Zenon DEF Plan
    <3>3. ~reply'.error => reply'.sites = sites /\ reply'.shown = shown
      <4> HIDE DEF sites, shown
      <4> QED BY <3>2 DEF Give
    <3>4. DOMAIN shown = nets
      BY DEF Shown
    <3>5. ASSUME NEW d
          PROVE  AtHome(asked, VdomsOf(asked, d), {n \in asked.nets : n.on /\ n.dev = d}, SiteOfDevice(asked, d))
      <4>1. {n \in asked.nets : n.on /\ n.dev = d} = {n \in asked.nets : n.on /\ VdomOf(n) \in VdomsOf(asked, d)}
        BY <3>1 DEF Surveyed, VdomsOf, VdomOf
      <4> QED BY <4>1, <3>1, SiteIsHome DEF SiteOfDevice
    <3>6. ASSUME asked.scope = "site", NEW k \in nets
          PROVE  AtHome(asked, {VdomOf(k)}, {n \in asked.nets : n.on /\ VdomOf(n) = VdomOf(k)}, asked.of)
      <4>1. SiteOf(asked, {VdomOf(k)}) = asked.of
        BY <3>6 DEF ScopeVdoms
      <4>2. {n \in asked.nets : n.on /\ VdomOf(n) = VdomOf(k)} = {n \in asked.nets : n.on /\ VdomOf(n) \in {VdomOf(k)}}
        OBVIOUS
      <4> QED BY <4>1, <4>2, <3>1, SiteIsHome
    <3>7. ASSUME ~reply'.error, NEW d \in DOMAIN reply'.sites
          PROVE  AtHome(asked, VdomsOf(asked, d), {n \in asked.nets : n.on /\ n.dev = d}, reply'.sites[d])
      <4>1. reply'.sites[d] = SiteOfDevice(asked, d)
        BY <3>3, <3>7
      <4> QED BY <4>1, <3>5
    <3>8. ASSUME ~reply'.error, asked.scope = "site", NEW k \in DOMAIN reply'.shown
          PROVE  AtHome(asked, {VdomOf(k)}, {n \in asked.nets : n.on /\ VdomOf(n) = VdomOf(k)}, asked.of)
      <4>1. k \in nets
        <5> HIDE DEF nets, shown
        <5> QED BY <3>3, <3>4, <3>8
      <4> QED BY <4>1, <3>6, <3>8
    <3>9. Majority(asked, reply')
      BY <3>7, <3>8, Zenon DEF Majority
    <3> QED BY <3>9, <2>0, <2>4
  <2> QED BY <2>1, <2>2, <2>3, <2>4, Answered
<1>3. Inv => AtHomeByMajority
  BY Zenon DEF AtHomeByMajority, Majority
<1> QED BY <1>1, <1>2, <1>3, PTL DEF AnswersSpec
----------------------------------------------------------------------------
(* The numbers that are free *)

\* The loop of free_ranges: what it holds after each number, from the one before.
FreeStep(used, acc, n) ==
    IF n <= VlanMax /\ n \notin used THEN [acc EXCEPT !.from = IF @ = 0 THEN n ELSE @]
    ELSE IF acc.from = 0 THEN acc
    ELSE [from |-> 0, out |-> Append(acc.out, <<acc.from, n - 1>>)]
Held0 == [from |-> 0, out |-> <<>>]
Holds == [from : Nat, out : Seq(Nat \X Nat)]

\* free_ranges is such a loop over the numbers.
LEMMA FreeLoop ==
    ASSUME NEW used
    PROVE  \E f \in [(VlanMin - 1)..(VlanMax + 1) -> Holds] :
              /\ FreeRanges(used) = f[VlanMax + 1].out
              /\ f[VlanMin - 1] = Held0
              /\ \A n \in VlanMin..(VlanMax + 1) : f[n] = FreeStep(used, f[n-1], n)
<1> DEFINE D == (VlanMin - 1)..(VlanMax + 1)
           Eq(f) == f = [n \in D |->
                 IF n < VlanMin THEN [from |-> 0, out |-> <<>>]
                 ELSE LET acc == f[n - 1]
                      IN  IF n <= VlanMax /\ n \notin used THEN [acc EXCEPT !.from = IF @ = 0 THEN n ELSE @]
                          ELSE IF acc.from = 0 THEN acc
                          ELSE [from |-> 0, out |-> Append(acc.out, <<acc.from, n - 1>>)]]
           scan == CHOOSE f : Eq(f)
<1>1. FreeRanges(used) = scan[VlanMax + 1].out
  BY Zenon DEF FreeRanges
<1>2. ASSUME NEW acc \in Holds, NEW n \in D, n >= VlanMin PROVE FreeStep(used, acc, n) \in Holds
  <2>1. n \in Nat /\ n - 1 \in Nat /\ acc.from \in Nat /\ acc.out \in Seq(Nat \X Nat)
    BY <1>2, VlanAssumption DEF Holds
  <2>2. Append(acc.out, <<acc.from, n - 1>>) \in Seq(Nat \X Nat)
    BY <2>1
  <2>3. [from |-> 0, out |-> Append(acc.out, <<acc.from, n - 1>>)] \in Holds
    BY <2>2 DEF Holds
  <2>4. [acc EXCEPT !.from = IF @ = 0 THEN n ELSE @] \in Holds
    BY <2>1 DEF Holds
  <2> QED BY <2>3, <2>4 DEF FreeStep
<1> DEFINE D1 == VlanMin..(VlanMax + 1)
           total == [x \in Holds \X D |-> IF x[2] >= VlanMin THEN FreeStep(used, x[1], x[2]) ELSE x[1]]
<1>3. PICK f \in [D -> Holds] : f[VlanMin - 1] = Held0 /\ \A n \in D1 : f[n] = FreeStep(used, f[n-1], n)
  <2>1. total \in [Holds \X D -> Holds]
    <3>1. ASSUME NEW x \in Holds \X D PROVE (IF x[2] >= VlanMin THEN FreeStep(used, x[1], x[2]) ELSE x[1]) \in Holds
      BY <1>2
    <3> QED BY <3>1
  <2>2. Held0 \in Holds
    BY DEF Held0, Holds
  <2>3. VlanMin - 1 \in Int /\ VlanMax + 1 \in Int /\ VlanMin - 1 <= VlanMax + 1 /\ (VlanMin - 1) + 1 = VlanMin
    BY VlanAssumption
  <2>4. PICK f \in [D -> Holds] : f[VlanMin - 1] = Held0 /\ \A n \in D1 : f[n] = total[<<f[n-1], n>>]
    <3> HIDE DEF total
    <3>1. \E f \in [D -> Holds] :
             f[VlanMin - 1] = Held0 /\ \A n \in ((VlanMin - 1) + 1)..(VlanMax + 1) : f[n] = total[<<f[n-1], n>>]
      <4> DEFINE a == VlanMin - 1
                 b == VlanMax + 1
      <4>1. a \in Int /\ b \in Int /\ a <= b
        BY <2>3
      <4>2. total \in [Holds \X (a..b) -> Holds]
        BY <2>1
      <4> HIDE DEF a, b
      <4>3. \E f \in [a..b -> Holds] : f[a] = Held0 /\ \A n \in (a + 1)..b : f[n] = total[<<f[n-1], n>>]
        <5>1. PICK f \in [a..b -> Holds] : IsLoop(f, a, b, Held0, total)
          BY <2>2, <4>1, <4>2, Loop
        <5> QED BY <5>1 DEF IsLoop
      <4> QED BY <4>3 DEF a, b
    <3> QED BY <3>1, <2>3, Zenon
  <2>5. ASSUME NEW n \in D1 PROVE total[<<f[n-1], n>>] = FreeStep(used, f[n-1], n)
    <3>1. n \in D /\ n - 1 \in D /\ n >= VlanMin
      BY VlanAssumption
    <3>2. f[n-1] \in Holds
      BY <3>1
    <3> HIDE DEF D
    <3> QED BY <3>1, <3>2
  <2> QED BY <2>4, <2>5
<1>4. Eq(f)
  <2>1. ASSUME NEW n \in D
        PROVE f[n] = IF n < VlanMin THEN [from |-> 0, out |-> <<>>]
                 ELSE LET acc == f[n - 1]
                      IN  IF n <= VlanMax /\ n \notin used THEN [acc EXCEPT !.from = IF @ = 0 THEN n ELSE @]
                          ELSE IF acc.from = 0 THEN acc
                          ELSE [from |-> 0, out |-> Append(acc.out, <<acc.from, n - 1>>)]
    <3>1. CASE n < VlanMin
      <4>1. n = VlanMin - 1
        BY <3>1, VlanAssumption
      <4> QED BY <4>1, <3>1, <1>3 DEF Held0
    <3>2. CASE ~(n < VlanMin)
      <4>1. n \in D1
        BY <3>2, VlanAssumption
      <4>2. f[n] = FreeStep(used, f[n-1], n)
        BY <4>1, <1>3
      <4> QED BY <4>2, <3>2, Zenon DEF FreeStep
    <3> QED BY <3>1, <3>2
  <2> HIDE DEF D
  <2> QED BY <2>1
<1>5. Eq(scan)
  <2> HIDE DEF Eq
  <2> QED BY <1>4, ZenonT(60) DEF scan
<1> HIDE DEF scan
<1>6. ASSUME NEW n \in D, n >= VlanMin PROVE scan[n] = FreeStep(used, scan[n-1], n)
  <2>1. scan[n] = IF n < VlanMin THEN [from |-> 0, out |-> <<>>]
                 ELSE LET acc == scan[n - 1]
                      IN  IF n <= VlanMax /\ n \notin used THEN [acc EXCEPT !.from = IF @ = 0 THEN n ELSE @]
                          ELSE IF acc.from = 0 THEN acc
                          ELSE [from |-> 0, out |-> Append(acc.out, <<acc.from, n - 1>>)]
    <3> HIDE DEF D
    <3> QED BY <1>5
  <2>2. ~(n < VlanMin)
    BY <1>6, VlanAssumption
  <2> QED BY <2>1, <2>2, ZenonT(60) DEF FreeStep
<1>7. scan[VlanMin - 1] = Held0
  <2>1. VlanMin - 1 \in D /\ VlanMin - 1 < VlanMin
    BY VlanAssumption
  <2> HIDE DEF D
  <2> QED BY <2>1, <1>5 DEF Held0
<1>8. DOMAIN scan = D /\ scan = [n \in D |-> scan[n]]
  <2> HIDE DEF D
  <2> QED BY <1>5
<1> HIDE DEF Eq
<1>9. ASSUME NEW n \in D PROVE scan[n] \in Holds
  <2> DEFINE T == {m \in Nat : VlanMin - 1 + m \in D => scan[VlanMin - 1 + m] \in Holds}
  <2>1. 0 \in T
    <3>1. Held0 \in Holds
      BY DEF Held0, Holds
    <3>2. VlanMin - 1 + 0 = VlanMin - 1
      BY VlanAssumption
    <3> QED BY <3>1, <3>2, <1>7
  <2>2. ASSUME NEW m \in Nat, m \in T PROVE m + 1 \in T
    <3> SUFFICES ASSUME VlanMin - 1 + (m + 1) \in D PROVE scan[VlanMin - 1 + (m + 1)] \in Holds
      OBVIOUS
    <3>1. VlanMin - 1 + m \in D /\ VlanMin - 1 + (m + 1) >= VlanMin /\ (VlanMin - 1 + (m + 1)) - 1 = VlanMin - 1 + m
      BY VlanAssumption
    <3>2. scan[VlanMin - 1 + m] \in Holds
      BY <3>1, <2>2
    <3> HIDE DEF D, T
    <3> QED BY <3>1, <3>2, <1>6, <1>2
  <2>3. n - (VlanMin - 1) \in Nat /\ VlanMin - 1 + (n - (VlanMin - 1)) = n
    BY VlanAssumption
  <2>4. n - (VlanMin - 1) \in T
    <3> HIDE DEF T, D
    <3> QED BY <2>1, <2>2, <2>3, UpTo
  <2> QED BY <2>3, <2>4
<1>10. scan \in [D -> Holds]
  <2> HIDE DEF D
  <2> QED BY <1>8, <1>9
<1>11. \A n \in D1 : scan[n] = FreeStep(used, scan[n-1], n)
  BY <1>6, VlanAssumption
<1> QED BY <1>1, <1>7, <1>10, <1>11

\* What is known after each number: the ranges listed are the free numbers so far, but for
\* those of the run that is still open; a taken number lies between two ranges.
IsFree(used, k) == k \in VlanMin..VlanMax /\ k \notin used
Lists(out, k) == \E i \in 1..Len(out) : out[i][1] <= k /\ k <= out[i][2]
Open(used, acc, n) ==
    /\ acc.from = 0 => ~IsFree(used, n)
    /\ acc.from # 0 => VlanMin <= acc.from /\ acc.from <= n /\ \A k \in Nat : acc.from <= k /\ k <= n => IsFree(used, k)
Listed(used, acc, n) ==
    \A k \in Nat : Lists(acc.out, k) <=> IsFree(used, k) /\ k <= n /\ (acc.from # 0 => k < acc.from)
Spaced(out) == \A i \in 1..(Len(out) - 1) : out[i][2] + 1 < out[i + 1][1]
Behind(acc, n) ==
    Len(acc.out) > 0 => LET last == acc.out[Len(acc.out)][2]
                        IN  last < n /\ (acc.from # 0 => last + 1 < acc.from)
Scanned(used, acc, n) == Open(used, acc, n) /\ Listed(used, acc, n) /\ Spaced(acc.out) /\ Behind(acc, n)

\* A range that is closed is listed behind the others.
LEMMA Closed ==
    ASSUME NEW out \in Seq(Nat \X Nat), NEW x \in Nat, NEW y \in Nat,
           Len(out) > 0 => out[Len(out)][2] + 1 < x, Spaced(out)
    PROVE  LET new == Append(out, <<x, y>>)
           IN  /\ Spaced(new) /\ Len(new) > 0 /\ new[Len(new)][2] = y
               /\ \A k \in Nat : Lists(new, k) <=> Lists(out, k) \/ (x <= k /\ k <= y)
<1> DEFINE new == Append(out, <<x, y>>)
<1>1. /\ Len(out) \in Nat /\ Len(new) = Len(out) + 1 /\ new[Len(out) + 1] = <<x, y>>
      /\ \A i \in 1..Len(out) : new[i] = out[i]
  OBVIOUS
<1> HIDE DEF new
<1>2. Spaced(new)
  <2> SUFFICES ASSUME NEW i \in 1..(Len(new) - 1) PROVE new[i][2] + 1 < new[i + 1][1]
    BY DEF Spaced
  <2>1. i \in 1..Len(out) /\ new[i] = out[i]
    BY <1>1
  <2>2. CASE i = Len(out)
    BY <2>1, <2>2, <1>1
  <2>3. CASE i # Len(out)
    <3>1. i \in 1..(Len(out) - 1) /\ i + 1 \in 1..Len(out)
      BY <2>1, <2>3, <1>1
    <3>2. new[i + 1] = out[i + 1]
      BY <3>1, <1>1
    <3>3. out[i][2] + 1 < out[i + 1][1]
      BY <3>1 DEF Spaced
    <3> QED BY <2>1, <3>2, <3>3
  <2> QED BY <2>2, <2>3
<1>3. ASSUME NEW k \in Nat PROVE Lists(new, k) <=> Lists(out, k) \/ (x <= k /\ k <= y)
  <2>1. ASSUME Lists(new, k) PROVE Lists(out, k) \/ (x <= k /\ k <= y)
    <3>1. PICK i \in 1..Len(new) : new[i][1] <= k /\ k <= new[i][2]
      BY <2>1 DEF Lists
    <3>2. CASE i \in 1..Len(out)
      BY <3>1, <3>2, <1>1 DEF Lists
    <3>3. CASE i = Len(out) + 1
      BY <3>1, <3>3, <1>1
    <3> QED BY <3>2, <3>3, <1>1
  <2>2. ASSUME Lists(out, k) PROVE Lists(new, k)
    <3>1. PICK i \in 1..Len(out) : out[i][1] <= k /\ k <= out[i][2]
      BY <2>2 DEF Lists
    <3>2. i \in 1..Len(new) /\ new[i] = out[i]
      BY <1>1
    <3> QED BY <3>1, <3>2 DEF Lists
  <2>3. ASSUME x <= k, k <= y PROVE Lists(new, k)
    <3>1. Len(new) \in 1..Len(new) /\ new[Len(new)] = <<x, y>>
      BY <1>1
    <3>2. new[Len(new)][1] <= k /\ k <= new[Len(new)][2]
      BY <3>1, <2>3
    <3> QED BY <3>1, <3>2 DEF Lists
  <2> QED BY <2>1, <2>2, <2>3
<1>4. Len(new) > 0 /\ new[Len(new)][2] = y
  BY <1>1
<1> QED BY <1>2, <1>3, <1>4 DEF new

\* A number looked at keeps what is known of the ranges so far.
LEMMA ScanStep ==
    ASSUME NEW used, NEW n \in (VlanMin - 1)..VlanMax, NEW acc \in Holds, Scanned(used, acc, n)
    PROVE  Scanned(used, FreeStep(used, acc, n + 1), n + 1)
<1> DEFINE next == FreeStep(used, acc, n + 1)
<1>1. /\ n \in Nat /\ n + 1 \in VlanMin..(VlanMax + 1) /\ VlanMin \in Nat /\ VlanMax \in Nat
      /\ acc.from \in Nat /\ acc.out \in Seq(Nat \X Nat)
  BY VlanAssumption DEF Holds
<1>2. (n + 1 <= VlanMax /\ n + 1 \notin used) <=> IsFree(used, n + 1)
  BY <1>1 DEF IsFree
<1>3. Len(acc.out) \in Nat /\ (Len(acc.out) > 0 => acc.out[Len(acc.out)][2] \in Nat)
  BY <1>1, SMTT(30)
<1>4. CASE IsFree(used, n + 1) /\ acc.from = 0
  <2>1. next.from = n + 1 /\ next.out = acc.out
    BY <1>4, <1>2 DEF FreeStep, Holds
  <2> HIDE DEF next
  <2>2. Open(used, next, n + 1)
    <3>1. \A k \in Nat : n + 1 <= k /\ k <= n + 1 => k = n + 1
      BY <1>1
    <3> QED BY <2>1, <3>1, <1>1, <1>4 DEF Open
  <2>3. Listed(used, next, n + 1)
    <3> SUFFICES ASSUME NEW k \in Nat
                 PROVE Lists(next.out, k) <=> IsFree(used, k) /\ k <= n + 1 /\ (next.from # 0 => k < next.from)
      BY DEF Listed
    <3>1. Lists(acc.out, k) <=> IsFree(used, k) /\ k <= n
      BY <1>4 DEF Scanned, Listed
    <3>2. (k <= n + 1 /\ k < n + 1) <=> k <= n
      BY <1>1
    <3>3. n + 1 # 0
      BY <1>1
    <3> QED BY <2>1, <3>1, <3>2, <3>3
  <2>4. Behind(next, n + 1)
    BY <2>1, <1>1, <1>3 DEF Scanned, Behind
  <2>5. Spaced(next.out)
    BY <2>1, Zenon DEF Scanned
  <2> QED BY <2>2, <2>3, <2>4, <2>5, Zenon DEF Scanned, next
<1>5. CASE IsFree(used, n + 1) /\ acc.from # 0
  <2>1. next.from = acc.from /\ next.out = acc.out
    BY <1>5, <1>2 DEF FreeStep, Holds
  <2> HIDE DEF next
  <2>2. Open(used, next, n + 1)
    <3>1. \A k \in Nat : k <= n + 1 => k <= n \/ k = n + 1
      BY <1>1
    <3> QED BY <2>1, <3>1, <1>1, <1>5 DEF Open, Scanned
  <2>3. Listed(used, next, n + 1)
    <3> SUFFICES ASSUME NEW k \in Nat
                 PROVE Lists(next.out, k) <=> IsFree(used, k) /\ k <= n + 1 /\ (next.from # 0 => k < next.from)
      BY DEF Listed
    <3>1. Lists(acc.out, k) <=> IsFree(used, k) /\ k <= n /\ k < acc.from
      BY <1>5 DEF Scanned, Listed
    <3>2. acc.from <= n
      BY <1>5 DEF Scanned, Open
    <3>3. k < acc.from => k <= n /\ k <= n + 1
      BY <3>2, <1>1
    <3> QED BY <2>1, <3>1, <3>3, <1>5
  <2>4. Behind(next, n + 1)
    BY <2>1, <1>1, <1>3 DEF Scanned, Behind
  <2>5. Spaced(next.out)
    BY <2>1, Zenon DEF Scanned
  <2> QED BY <2>2, <2>3, <2>4, <2>5, Zenon DEF Scanned, next
<1>6. CASE ~IsFree(used, n + 1) /\ acc.from = 0
  <2>1. next = acc
    BY <1>6, <1>2 DEF FreeStep
  <2> HIDE DEF next
  <2>2. Open(used, acc, n + 1)
    BY <1>6 DEF Open
  <2>3. Listed(used, acc, n + 1)
    <3> SUFFICES ASSUME NEW k \in Nat
                 PROVE Lists(acc.out, k) <=> IsFree(used, k) /\ k <= n + 1 /\ (acc.from # 0 => k < acc.from)
      BY DEF Listed
    <3>1. Lists(acc.out, k) <=> IsFree(used, k) /\ k <= n
      BY <1>6 DEF Scanned, Listed
    <3>2. k <= n + 1 <=> k <= n \/ k = n + 1
      BY <1>1
    <3> QED BY <3>1, <3>2, <1>6
  <2>4. Behind(acc, n + 1)
    BY <1>6, <1>1, <1>3 DEF Scanned, Behind
  <2>5. Scanned(used, acc, n + 1)
    BY <2>2, <2>3, <2>4, Zenon DEF Scanned
  <2> QED BY <2>1, <2>5 DEF next
<1>7. CASE ~IsFree(used, n + 1) /\ acc.from # 0
  <2>1. next.from = 0 /\ next.out = Append(acc.out, <<acc.from, n>>)
    <3>1. (n + 1) - 1 = n
      BY <1>1
    <3>2. next = [from |-> 0, out |-> Append(acc.out, <<acc.from, (n + 1) - 1>>)]
      BY <1>7, <1>2, Zenon DEF FreeStep
    <3> HIDE DEF next
    <3> QED BY <3>1, <3>2
  <2> HIDE DEF next
  <2>2. /\ Spaced(next.out) /\ Len(next.out) > 0 /\ next.out[Len(next.out)][2] = n
        /\ \A k \in Nat : Lists(next.out, k) <=> Lists(acc.out, k) \/ (acc.from <= k /\ k <= n)
    <3>1. Len(acc.out) > 0 => acc.out[Len(acc.out)][2] + 1 < acc.from
      BY <1>7 DEF Scanned, Behind
    <3>2. Spaced(acc.out)
      BY DEF Scanned
    <3> DEFINE new == Append(acc.out, <<acc.from, n>>)
    <3>3. /\ Spaced(new) /\ Len(new) > 0 /\ new[Len(new)][2] = n
          /\ \A k \in Nat : Lists(new, k) <=> Lists(acc.out, k) \/ (acc.from <= k /\ k <= n)
      BY <3>1, <3>2, <1>1, Closed, Zenon
    <3> QED BY <3>3, <2>1, Zenon
  <2>3. Open(used, next, n + 1)
    BY <1>7, <2>1 DEF Open
  <2>4. Listed(used, next, n + 1)
    <3> SUFFICES ASSUME NEW k \in Nat
                 PROVE Lists(next.out, k) <=> IsFree(used, k) /\ k <= n + 1
      BY <2>1 DEF Listed
    <3>1. Lists(acc.out, k) <=> IsFree(used, k) /\ k <= n /\ k < acc.from
      BY <1>7 DEF Scanned, Listed
    <3>2. acc.from <= k /\ k <= n => IsFree(used, k)
      BY <1>7 DEF Scanned, Open
    <3>3. Lists(next.out, k) <=> Lists(acc.out, k) \/ (acc.from <= k /\ k <= n)
      BY <2>2
    <3>4. (k <= n + 1 <=> k <= n \/ k = n + 1) /\ (k < acc.from \/ acc.from <= k)
      BY <1>1
    <3> QED BY <3>1, <3>2, <3>3, <3>4, <1>7
  <2>5. Behind(next, n + 1)
    BY <2>1, <2>2, <1>1 DEF Behind
  <2> QED BY <2>2, <2>3, <2>4, <2>5, Zenon DEF Scanned, next
<1> QED BY <1>4, <1>5, <1>6, <1>7

\* free_ranges lists the free numbers, in ranges that do not touch.
LEMMA FreeNumbers ==
    ASSUME NEW used
    PROVE  /\ FreeRanges(used) \in Seq(Nat \X Nat)
           /\ \A k \in Nat : Lists(FreeRanges(used), k) <=> IsFree(used, k)
           /\ Spaced(FreeRanges(used))
<1>1. PICK f \in [(VlanMin - 1)..(VlanMax + 1) -> Holds] :
              /\ FreeRanges(used) = f[VlanMax + 1].out
              /\ f[VlanMin - 1] = Held0
              /\ \A n \in VlanMin..(VlanMax + 1) : f[n] = FreeStep(used, f[n-1], n)
  BY FreeLoop
<1> DEFINE T == {m \in Nat : VlanMin - 1 + m <= VlanMax + 1 => Scanned(used, f[VlanMin - 1 + m], VlanMin - 1 + m)}
<1>2. 0 \in T
  <2>1. VlanMin - 1 + 0 = VlanMin - 1 /\ VlanMin - 1 \in Nat /\ VlanMin - 1 < VlanMin
    BY VlanAssumption
  <2>2. Held0.from = 0 /\ Held0.out = <<>> /\ Len(Held0.out) = 0
    BY DEF Held0
  <2>3. \A k \in Nat : ~Lists(Held0.out, k)
    BY <2>2 DEF Lists
  <2>4. \A k \in Nat : IsFree(used, k) => ~(k <= VlanMin - 1)
    BY VlanAssumption DEF IsFree
  <2>5. Open(used, Held0, VlanMin - 1)
    BY <2>1, <2>2, <2>4 DEF Open
  <2>6. Listed(used, Held0, VlanMin - 1)
    BY <2>3, <2>4 DEF Listed
  <2>7. Spaced(Held0.out) /\ Behind(Held0, VlanMin - 1)
    BY <2>2 DEF Spaced, Behind
  <2> QED BY <2>1, <2>5, <2>6, <2>7, <1>1 DEF Scanned
<1>3. ASSUME NEW m \in Nat, m \in T PROVE m + 1 \in T
  <2> SUFFICES ASSUME VlanMin - 1 + (m + 1) <= VlanMax + 1
               PROVE  Scanned(used, f[VlanMin - 1 + (m + 1)], VlanMin - 1 + (m + 1))
    OBVIOUS
  <2> DEFINE n == VlanMin - 1 + m
  <2>1. /\ n \in (VlanMin - 1)..VlanMax /\ n \in (VlanMin - 1)..(VlanMax + 1) /\ n + 1 \in VlanMin..(VlanMax + 1)
        /\ VlanMin - 1 + (m + 1) = n + 1 /\ (n + 1) - 1 = n /\ n <= VlanMax + 1
    BY VlanAssumption
  <2>2. Scanned(used, f[n], n)
    BY <1>3, <2>1
  <2> HIDE DEF n, T
  <2>3. f[n] \in Holds /\ f[n + 1] = FreeStep(used, f[n], n + 1)
    BY <1>1, <2>1
  <2>4. Scanned(used, f[n + 1], n + 1)
    BY <2>1, <2>2, <2>3, ScanStep
  <2> QED BY <2>1, <2>4
<1>4. Scanned(used, f[VlanMax + 1], VlanMax + 1)
  <2> DEFINE m == VlanMax + 2 - VlanMin
  <2>1. m \in Nat /\ VlanMin - 1 + m = VlanMax + 1
    BY VlanAssumption
  <2> HIDE DEF m
  <2>2. m \in T
    <3> HIDE DEF T
    <3> QED BY <1>2, <1>3, <2>1, UpTo
  <2>3. VlanMin - 1 + m <= VlanMax + 1
    BY <2>1, VlanAssumption
  <2>4. Scanned(used, f[VlanMin - 1 + m], VlanMin - 1 + m)
    BY <2>2, <2>3
  <2> QED BY <2>1, <2>4, Zenon
<1> DEFINE end == f[VlanMax + 1]
<1>5. end \in Holds /\ FreeRanges(used) = end.out
  <2>1. VlanMax + 1 \in (VlanMin - 1)..(VlanMax + 1)
    BY VlanAssumption
  <2> QED BY <2>1, <1>1
<1> HIDE DEF end
<1>6. Scanned(used, end, VlanMax + 1)
  BY <1>4 DEF end
<1>7. end.from = 0
  <2>1. VlanMax + 1 \in Nat /\ ~IsFree(used, VlanMax + 1) /\ end.from \in Nat
    BY <1>5, VlanAssumption DEF IsFree, Holds
  <2> QED BY <2>1, <1>6 DEF Scanned, Open
<1>8. \A k \in Nat : IsFree(used, k) => k <= VlanMax + 1
  BY VlanAssumption DEF IsFree
<1> QED BY <1>5, <1>6, <1>7, <1>8 DEF Scanned, Listed, Holds

\* The ranges of free VLAN numbers are right for any tables: every number that no switch
\* and no firewall interface bears, and no other, in ranges as long as can be; a VLAN the
\* host touches is in none (build, free_ranges, check).
THEOREM FreeNumbersAreFree ==
    AnswersSpec => []FreeIsFree
<1>1. reply = None => FreeIsFree
  <2>1. reply = None => reply.kind = "none"
    BY DEF None
  <2> QED BY <2>1 DEF FreeIsFree
<1>2. FreeIsFree /\ [AnswersNext]_requestVars => FreeIsFree'
  <2> SUFFICES ASSUME FreeIsFree, [AnswersNext]_requestVars PROVE FreeIsFree'
    OBVIOUS
  <2>1. CASE reply' = reply /\ asked' = asked
    BY <2>1, Zenon DEF FreeIsFree
  <2>2. ASSUME VlanReports, asked' = asked, reply'.kind = "vlan" PROVE FreeIsFree'
    <3> DEFINE free == FreeRanges(Used(asked))
               covered == UNION {r[1]..r[2] : r \in ToSet(free)}
               taken(n) == (\E r \in ToSet(asked.rows) : r.num = n) \/ \E i \in asked.fw : i.vlan = n
    <3>1. reply'.free = free /\ reply'.summary = Summary(asked)
      BY <2>2 DEF VlanReports, Give
    <3>2. /\ free \in Seq(Nat \X Nat) /\ Spaced(free)
          /\ \A k \in Nat : Lists(free, k) <=> IsFree(Used(asked), k)
      BY FreeNumbers
    <3>3. ASSUME NEW n \in VlanMin..VlanMax PROVE n \in Used(asked) <=> taken(n)
      BY DEF Used, Number
    <3>4. ASSUME NEW n PROVE n \in covered <=> n \in Nat /\ Lists(free, n)
      <4> HIDE DEF free
      <4>1. ASSUME n \in covered PROVE n \in Nat /\ Lists(free, n)
        <5>1. PICK i \in DOMAIN free : n \in free[i][1]..free[i][2]
          BY <4>1 DEF ToSet
        <5>2. i \in 1..Len(free) /\ free[i][1] \in Nat /\ free[i][2] \in Nat
          BY <3>2
        <5> QED BY <5>1, <5>2 DEF Lists
      <4>2. ASSUME n \in Nat, Lists(free, n) PROVE n \in covered
        <5>1. PICK i \in 1..Len(free) : free[i][1] <= n /\ n <= free[i][2]
          BY <4>2 DEF Lists
        <5>2. i \in DOMAIN free /\ free[i][1] \in Nat /\ free[i][2] \in Nat
          BY <3>2
        <5>3. n \in free[i][1]..free[i][2]
          BY <5>1, <5>2, <4>2
        <5> QED BY <5>2, <5>3 DEF ToSet
      <4> QED BY <4>1, <4>2
    <3> HIDE DEF free, covered
    <3>5. covered = {n \in VlanMin..VlanMax : ~taken(n)}
      <4>1. ASSUME NEW n \in covered PROVE n \in VlanMin..VlanMax /\ ~taken(n)
        <5>1. n \in Nat /\ IsFree(Used(asked), n)
          BY <3>4, <3>2
        <5> QED BY <5>1, <3>3 DEF IsFree
      <4>2. ASSUME NEW n \in VlanMin..VlanMax, ~taken(n) PROVE n \in covered
        <5>1. n \in Nat /\ n \notin Used(asked)
          BY <4>2, <3>3, VlanAssumption
        <5> QED BY <5>1, <3>4, <3>2 DEF IsFree
      <4> HIDE DEF taken
      <4> QED BY <4>1, <4>2
    <3>6. ASSUME NEW n \in Summary(asked) PROVE taken(n)
      <4>1. CASE \E i \in DOMAIN asked.found : n \in Resolved(asked.rows, asked.found[i])
        <5>1. PICK i \in DOMAIN asked.found : n \in Resolved(asked.rows, asked.found[i])
          BY <4>1
        <5>2. PICK k \in DOMAIN asked.rows : asked.rows[k].num = n
          BY <5>1, Zenon DEF Resolved
        <5>3. asked.rows[k] \in ToSet(asked.rows)
          BY Zenon DEF ToSet
        <5> QED BY <5>2, <5>3
      <4>2. CASE \E i \in Terminating(asked.fw) : n \in Number(i.vlan)
        BY <4>2 DEF Terminating, Number
      <4> QED BY <3>6, <4>1, <4>2 DEF Summary
    <3>7. covered \cap Summary(asked) = {}
      BY <3>5, <3>6
    <3>8. covered = {n \in VlanMin..VlanMax :
                           /\ \A r \in ToSet(asked.rows) : r.num # n
                           /\ \A i \in asked.fw : i.vlan # n}
      BY <3>5
    <3>9. \A i \in 1..(Len(free) - 1) : free[i][2] + 1 < free[i + 1][1]
      BY <3>2 DEF Spaced
    <3> QED BY <3>1, <3>7, <3>8, <3>9, <2>2, Zenon DEF FreeIsFree, covered
  <2>3. reply'.kind # "vlan" => FreeIsFree'
    BY DEF FreeIsFree
  <2> QED BY <2>1, <2>2, <2>3, Answered
<1> QED BY <1>1, <1>2, PTL DEF AnswersSpec

----------------------------------------------------------------------------
(* The tree of nets *)

\* ComesFirst(size, i, j): i stands before j when the larger ones come first and the order of
\* those of one size is kept.
ComesFirst(size, i, j) == size[i] > size[j] \/ (size[i] = size[j] /\ i < j)
Stable(size, m, p) == \A i, j \in 1..m : i < j => ComesFirst(size, p[i], p[j])

\* What comes first is at least as large.
LEMMA FirstIsLarger ==
    ASSUME NEW n \in Nat, NEW size \in [1..n -> Int], NEW a \in 1..n, NEW b \in 1..n, ComesFirst(size, a, b)
    PROVE  size[a] >= size[b]
BY DEF ComesFirst

\* There is such an order: the next one is put behind all that are as large.
LEMMA Insert ==
    ASSUME NEW n \in Nat, NEW size \in [1..n -> Int], NEW m \in Nat, m < n,
           NEW p \in [1..m -> 1..m], Stable(size, m, p)
    PROVE  \E r \in [1..(m+1) -> 1..(m+1)] : Stable(size, m + 1, r)
<1> DEFINE large == {0} \cup {k \in 1..m : size[p[k]] >= size[m+1]}
<1>1. PICK at \in large : \A k \in large : k <= at
  <2>1. large \subseteq 0..m /\ large # {}
    OBVIOUS
  <2> HIDE DEF large
  <2> QED BY <2>1, Greatest
<1>2. at \in 0..m
  OBVIOUS
<1> DEFINE r == [k \in 1..(m+1) |-> IF k <= at THEN p[k] ELSE IF k = at + 1 THEN m + 1 ELSE p[k - 1]]
<1>3. r \in [1..(m+1) -> 1..(m+1)]
  <2>1. ASSUME NEW k \in 1..(m+1) PROVE r[k] \in 1..(m+1)
    BY <1>2
  <2> QED BY <2>1
<1>4. \A k \in 1..m : p[k] \in 1..m /\ size[p[k]] \in Int
  OBVIOUS
<1>5. size[m+1] \in Int
  OBVIOUS
<1>6. \A k \in 1..m : k > at => size[p[k]] < size[m+1]
  <2> TAKE k \in 1..m
  <2>1. k > at => k \notin large
    BY <1>1, <1>2, SMTT(30)
  <2>2. size[p[k]] \in Int
    BY <1>4
  <2> HIDE DEF large
  <2>3. k > at => ~(size[p[k]] >= size[m+1])
    BY <2>1 DEF large
  <2> QED BY <2>2, <2>3, <1>5
<1>7. ASSUME NEW k \in 1..m, k <= at PROVE size[p[k]] >= size[m+1]
  <2>1. at \in 1..m /\ size[p[at]] >= size[m+1]
    BY <1>7, <1>2
  <2>2. size[p[k]] \in Int /\ size[p[at]] \in Int
    BY <2>1, <1>4
  <2>3. CASE k < at
    <3>1. ComesFirst(size, p[k], p[at])
      BY <2>1, <2>3 DEF Stable
    <3>2. p[k] \in 1..n /\ p[at] \in 1..n
      BY <2>1, <1>4
    <3>3. size[p[k]] >= size[p[at]]
      BY <3>1, <3>2, FirstIsLarger
    <3>4. \A x, y, z \in Int : x >= y /\ y >= z => x >= z
      OBVIOUS
    <3> QED BY <3>3, <3>4, <2>1, <2>2, <1>5, Zenon
  <2>4. CASE k = at
    BY <2>1, <2>4
  <2> QED BY <2>1, <2>3, <2>4, <1>7
<1>8. ASSUME NEW i \in 1..(m+1), NEW j \in 1..(m+1), i < j
      PROVE  ComesFirst(size, r[i], r[j])
  <2>1. CASE j <= at
    <3>1. r[i] = p[i] /\ r[j] = p[j] /\ i \in 1..m /\ j \in 1..m
      BY <2>1, <1>2, <1>8
    <3> QED BY <3>1, <1>8 DEF Stable
  <2>2. CASE j = at + 1
    <3>1. r[i] = p[i] /\ r[j] = m + 1 /\ i \in 1..m /\ i <= at
      BY <2>2, <1>2, <1>8
    <3>2. size[p[i]] >= size[m+1]
      BY <3>1, <1>7
    <3>3. p[i] \in 1..m /\ size[p[i]] \in Int
      BY <3>1, <1>4
    <3> HIDE DEF r
    <3>4. p[i] < m + 1
      BY <3>3
    <3>5. ComesFirst(size, p[i], m + 1)
      BY <3>2, <3>3, <3>4, <1>5 DEF ComesFirst
    <3> QED BY <3>1, <3>5
  <2>3. CASE j > at + 1 /\ i = at + 1
    <3>1. r[i] = m + 1 /\ r[j] = p[j - 1] /\ j - 1 \in 1..m /\ j - 1 > at
      BY <2>3, <1>2, <1>8
    <3>2. size[p[j - 1]] < size[m+1]
      BY <3>1, <1>6
    <3> HIDE DEF r
    <3> QED BY <3>1, <3>2, <1>4, <1>5 DEF ComesFirst
  <2>4. CASE j > at + 1 /\ i <= at
    <3>1. r[i] = p[i] /\ r[j] = p[j - 1] /\ i \in 1..m /\ j - 1 \in 1..m /\ i < j - 1
      BY <2>4, <1>2, <1>8
    <3> HIDE DEF r
    <3> QED BY <3>1 DEF Stable
  <2>5. CASE j > at + 1 /\ i > at + 1
    <3>1. r[i] = p[i - 1] /\ r[j] = p[j - 1] /\ i - 1 \in 1..m /\ j - 1 \in 1..m /\ i - 1 < j - 1
      BY <2>5, <1>2, <1>8
    <3> HIDE DEF r
    <3> QED BY <3>1 DEF Stable
  <2> QED BY <2>1, <2>2, <2>3, <2>4, <2>5, <1>2
<1> QED BY <1>3, <1>8 DEF Stable

\* Hence any sizes can be put in order.
LEMMA Sortable ==
    ASSUME NEW n \in Nat, NEW size \in [1..n -> Int]
    PROVE  \E p \in [1..n -> 1..n] : Stable(size, n, p)
<1> DEFINE Sorted(m) == \E p \in [1..m -> 1..m] : Stable(size, m, p)
           T == {m \in 0..n : Sorted(m)}
<1>1. Sorted(0)
  <2>1. [k \in 1..0 |-> k] \in [1..0 -> 1..0]
    OBVIOUS
  <2>2. \A p : Stable(size, 0, p)
    BY 1..0 = {} DEF Stable
  <2> QED BY <2>1, <2>2
<1>2. ASSUME NEW m \in Nat, m < n, Sorted(m) PROVE Sorted(m + 1)
  BY <1>2, Insert
<1> HIDE DEF Sorted
<1>3. n \in T
  <2>1. 0 \in T /\ \A m \in 0..n : m \in T /\ m < n => m + 1 \in T
    BY <1>1, <1>2
  <2> HIDE DEF T
  <2> QED BY <2>1, UpTo
<1>4. Sorted(n)
  BY <1>3
<1> QED BY <1>4 DEF Sorted

\* The nets asked of are nets: two of them lie in each other or apart.
Nets == {n \in [lo : Nat, hi : Nat] : n.lo <= n.hi}
Laminar(q) ==
    /\ q.sites \in Seq(Nets) /\ q.subnets \in Seq(Nets)
    /\ \A n, m \in Range(q.sites) \cup Range(q.subnets) : NetIn(n, m) \/ NetIn(m, n) \/ ~Overlaps(n, m)

\* Of two nets that are not the same, the one around the other is the larger.
LEMMA AroundIsLarger ==
    ASSUME NEW n \in Nets, NEW m \in Nets, NetIn(n, m)
    PROVE  Size(n) \in Nat /\ Size(n) <= Size(m) /\ (n # m => Size(n) < Size(m))
BY DEF Nets, NetIn, Size

\* What is hung up: the sites, then the subnets, the larger ones first.
LEMMA HungUp ==
    ASSUME NEW q, Laminar(q)
    PROVE  /\ Hung(q) \in Seq(Nets)
           /\ \A i \in DOMAIN Hung(q) : Hung(q)[i] \in Range(q.sites) \cup Range(q.subnets)
           /\ \A i, j \in DOMAIN Hung(q) :
                 i > Len(q.sites) /\ Size(Hung(q)[j]) > Size(Hung(q)[i]) => j < i
<1> DEFINE n == Len(q.subnets)
           size == [i \in 1..n |-> Size(q.subnets[i])]
           order == CHOOSE p \in [1..n -> 1..n] :
                       \A i, j \in 1..n : i < j => LargerFirst(q.subnets, p[i], p[j])
           by == BySize(q.subnets)
<1>0. q.sites \in Seq(Nets) /\ q.subnets \in Seq(Nets) /\ n \in Nat /\ Len(q.sites) \in Nat
  BY DEF Laminar
<1>1. \A i \in 1..n : Size(q.subnets[i]) \in Nat
  BY <1>0, AroundIsLarger, SMTT(30) DEF NetIn, Nets, Size
<1>2. order \in [1..n -> 1..n] /\ \A i, j \in 1..n : i < j => LargerFirst(q.subnets, order[i], order[j])
  <2>1. size \in [1..n -> Int]
    BY <1>1
  <2>2. PICK p \in [1..n -> 1..n] : Stable(size, n, p)
    <3> HIDE DEF size, n
    <3> QED BY <2>1, <1>0, Sortable
  <2>3. \A i, j \in 1..n : i < j => LargerFirst(q.subnets, p[i], p[j])
    BY <2>2 DEF Stable, ComesFirst, LargerFirst
  <2> HIDE DEF n
  <2> QED BY <2>3
<1>3. by = [i \in 1..n |-> q.subnets[order[i]]]
  BY DEF BySize
<1> HIDE DEF order, by
<1>4. by \in Seq(Nets) /\ Len(by) = n /\ \A i \in 1..n : by[i] \in Range(q.subnets)
  <2>1. \A i \in 1..n : q.subnets[order[i]] \in Nets /\ q.subnets[order[i]] \in Range(q.subnets)
    BY <1>2, <1>0 DEF Range
  <2> QED BY <2>1, <1>3, <1>0
<1>5. \A i, j \in 1..n : i < j => Size(by[i]) >= Size(by[j])
  <2> TAKE i, j \in 1..n
  <2> HAVE i < j
  <2>1. order[i] \in 1..n /\ order[j] \in 1..n /\ LargerFirst(q.subnets, order[i], order[j])
    BY <1>2
  <2>2. by[i] = q.subnets[order[i]] /\ by[j] = q.subnets[order[j]]
    BY <1>3
  <2>3. Size(q.subnets[order[i]]) \in Nat /\ Size(q.subnets[order[j]]) \in Nat
    BY <2>1, <1>1
  <2> HIDE DEF n
  <2> QED BY <2>1, <2>2, <2>3 DEF LargerFirst
<1>6. Hung(q) = q.sites \o by
  BY DEF Hung, by
<1>7. /\ Hung(q) \in Seq(Nets)
      /\ DOMAIN Hung(q) = 1..(Len(q.sites) + n)
      /\ \A i \in 1..Len(q.sites) : Hung(q)[i] = q.sites[i]
      /\ \A i \in 1..(Len(q.sites) + n) : i > Len(q.sites) => Hung(q)[i] = by[i - Len(q.sites)]
  <2> HIDE DEF n
  <2>1. Hung(q) \in Seq(Nets)
    BY <1>6, <1>0, <1>4
  <2>2. Len(Hung(q)) = Len(q.sites) + n
    <3>1. by \in Seq(Nets) /\ Len(by) = n
      BY <1>4
    <3> QED BY <1>6, <1>0, <3>1, SMTT(60)
  <2>3. DOMAIN Hung(q) = 1..(Len(q.sites) + n)
    BY <2>1, <2>2
  <2>4. \A i \in 1..(Len(q.sites) + n) :
           Hung(q)[i] = IF i <= Len(q.sites) THEN q.sites[i] ELSE by[i - Len(q.sites)]
    BY <1>6, <1>0, <1>4
  <2> QED BY <2>1, <2>3, <2>4, <1>0
<1> HIDE DEF n
<1>8. ASSUME NEW i \in DOMAIN Hung(q) PROVE Hung(q)[i] \in Range(q.sites) \cup Range(q.subnets)
  <2>1. CASE i <= Len(q.sites)
    BY <2>1, <1>7, <1>0 DEF Range
  <2>2. CASE i > Len(q.sites)
    <3>1. i - Len(q.sites) \in 1..n
      BY <2>2, <1>7, <1>0
    <3> QED BY <3>1, <2>2, <1>7, <1>4
  <2> QED BY <2>1, <2>2, <1>7, <1>0
<1>9. ASSUME NEW i \in DOMAIN Hung(q), NEW j \in DOMAIN Hung(q),
             i > Len(q.sites), Size(Hung(q)[j]) > Size(Hung(q)[i])
      PROVE  j < i
  <2> SUFFICES ASSUME ~(j < i) PROVE FALSE
    OBVIOUS
  <2>1. /\ i - Len(q.sites) \in 1..n /\ j - Len(q.sites) \in 1..n
        /\ Hung(q)[i] = by[i - Len(q.sites)] /\ Hung(q)[j] = by[j - Len(q.sites)]
    BY <1>9, <1>7, <1>0, SMTT(30)
  <2>2. Size(by[i - Len(q.sites)]) \in Int /\ Size(by[j - Len(q.sites)]) \in Int
    <3>1. by[i - Len(q.sites)] \in Nets /\ by[j - Len(q.sites)] \in Nets
      BY <2>1, <1>4
    <3>2. \A m \in Nets : Size(m) \in Int
      BY DEF Nets, Size
    <3> QED BY <3>1, <3>2
  <2>3. i # j
    BY <1>9, <2>1, <2>2
  <2>4. i - Len(q.sites) < j - Len(q.sites)
    BY <2>3, <1>7, <1>0
  <2>5. Size(by[i - Len(q.sites)]) >= Size(by[j - Len(q.sites)])
    BY <2>4, <2>1, <1>5
  <2> QED BY <2>1, <2>2, <2>5, <1>9
<1> QED BY <1>7, <1>8, <1>9, Zenon

\* Of the nets above one, the parent is a smallest.
LEMMA ParentIs ==
    ASSUME NEW q, Hung(q) \in Seq(Nets), NEW i \in DOMAIN Hung(q), Above(q, i) # {}
    PROVE  Parent(q, i) \in Above(q, i) /\ \A k \in Above(q, i) : Size(Hung(q)[Parent(q, i)]) <= Size(Hung(q)[k])
<1> DEFINE above == Above(q, i)
           size(k) == Size(Hung(q)[k])
           sizes == {size(k) : k \in above}
<1>1. above \subseteq DOMAIN Hung(q) /\ above \subseteq Nat
  BY DEF Above
<1>2. \A k \in above : size(k) \in Nat
  BY <1>1, SMTT(60) DEF Nets, Size
<1>3. PICK s \in sizes : \A t \in sizes : s <= t
  <2>1. sizes \subseteq Nat /\ sizes # {}
    BY <1>2
  <2> HIDE DEF sizes
  <2> QED BY <2>1, LeastOf
<1> DEFINE least == {k \in above : size(k) = s}
<1>4. PICK j \in least : \A k \in least : j <= k
  <2>1. least \subseteq Nat /\ least # {}
    BY <1>1, <1>3
  <2> HIDE DEF least
  <2> QED BY <2>1, LeastOf
<1>5. \A k \in above : size(j) < size(k) \/ (size(j) = size(k) /\ j <= k)
  <2> TAKE k \in above
  <2>1. s <= size(k) /\ size(j) = s /\ size(k) \in Nat /\ s \in Nat
    BY <1>2, <1>3, <1>4
  <2>2. size(k) = s => j <= k
    BY <1>4
  <2> HIDE DEF size
  <2> QED BY <2>1, <2>2
<1>6. Parent(q, i) = CHOOSE h \in above : \A k \in above : size(h) < size(k) \/ (size(h) = size(k) /\ h <= k)
  BY Zenon DEF Parent
<1>7. j \in above
  BY <1>4
<1> HIDE DEF above, size
<1>8. Parent(q, i) \in above /\ \A k \in above : size(Parent(q, i)) < size(k) \/ (size(Parent(q, i)) = size(k) /\ Parent(q, i) <= k)
  BY <1>5, <1>6, <1>7, Zenon
<1>9. \A k \in above : size(Parent(q, i)) <= size(k)
  BY <1>8, <1>2
<1> QED BY <1>8, <1>9 DEF above, size

\* UnderTheSmallest of a question and an answer.
Smallest(r) ==
    \A i \in DOMAIN r.nodes, j \in DOMAIN r.nodes :
       LET n == r.nodes[i]  m == r.nodes[j]  p == r.parent[i]
       IN  i > r.sites /\ n # m /\ NetIn(n, m) => p # 0 /\ NetIn(n, r.nodes[p]) /\ NetIn(r.nodes[p], m)

\* A subnet hangs under the smallest other net that holds it, in whatever order iTop lists
\* the nets and whether sites or subnets lie around it, for any nets (build_tree): what is
\* hung up later is never larger, so the smallest one around is hung up before it.
THEOREM HangsUnderTheSmallest ==
    AnswersSpec /\ (asked.kind = "nets" => Laminar(asked)) => []UnderTheSmallest
<1> DEFINE Inv == (asked.kind = "nets" => Laminar(asked)) /\ (reply.kind = "nets" => Smallest(reply))
<1>1. reply = None /\ (asked.kind = "nets" => Laminar(asked)) => Inv
  <2>1. reply = None => reply.kind = "none"
    BY DEF None
  <2> QED BY <2>1
<1>2. Inv /\ [AnswersNext]_requestVars => Inv'
  <2> SUFFICES ASSUME Inv, [AnswersNext]_requestVars PROVE Inv'
    OBVIOUS
  <2>1. CASE reply' = reply /\ asked' = asked
    BY <2>1 DEF Smallest
  <2>2. ASSUME Tree, asked' = asked, reply'.kind = "nets" PROVE Inv'
    <3>1. asked.kind = "nets" /\ Laminar(asked)
      BY <2>2 DEF Tree, Pending
    <3> DEFINE hung == Hung(asked)
    <3>2. /\ reply'.nodes = hung /\ reply'.sites = Len(asked.sites)
          /\ reply'.parent = [i \in DOMAIN hung |-> Parent(asked, i)]
      BY <2>2 DEF Tree, Give
    <3>3. /\ hung \in Seq(Nets)
          /\ \A i \in DOMAIN hung : hung[i] \in Range(asked.sites) \cup Range(asked.subnets)
          /\ \A i, j \in DOMAIN hung : i > Len(asked.sites) /\ Size(hung[j]) > Size(hung[i]) => j < i
      BY <3>1, HungUp
    <3>4. ASSUME NEW i \in DOMAIN hung, NEW j \in DOMAIN hung,
                 i > Len(asked.sites), hung[i] # hung[j], NetIn(hung[i], hung[j])
          PROVE  Parent(asked, i) # 0 /\ NetIn(hung[i], hung[Parent(asked, i)]) /\ NetIn(hung[Parent(asked, i)], hung[j])
      <4> DEFINE p == Parent(asked, i)
      <4>1. hung[i] \in Nets /\ hung[j] \in Nets
        BY <3>3
      <4>2. j < i
        BY <4>1, <3>4, <3>3, AroundIsLarger
      <4>3. j \in Above(asked, i)
        BY <4>2, <3>4, <3>3 DEF Above
      <4>4. p \in Above(asked, i) /\ Size(hung[p]) <= Size(hung[j])
        BY <4>3, <3>3, ParentIs
      <4>5. p \in DOMAIN hung /\ p # 0 /\ NetIn(hung[i], hung[p])
        BY <4>4, <3>3 DEF Above
      <4>6. hung[p] \in Nets
        BY <4>5, <3>3
      <4>7. NetIn(hung[p], hung[j]) \/ NetIn(hung[j], hung[p])
        <5>1. NetIn(hung[p], hung[j]) \/ NetIn(hung[j], hung[p]) \/ ~Overlaps(hung[p], hung[j])
          BY <4>5, <3>3, <3>1 DEF Laminar
        <5> HIDE DEF hung, p
        <5>2. Overlaps(hung[p], hung[j])
          BY <4>1, <4>5, <4>6, <3>4 DEF Overlaps, NetIn, Nets
        <5> QED BY <5>1, <5>2
      <4> HIDE DEF hung, p
      <4>8. ASSUME NetIn(hung[j], hung[p]) PROVE NetIn(hung[p], hung[j])
        <5>1. Size(hung[j]) \in Nat /\ Size(hung[p]) \in Int
          BY <4>1, <4>6 DEF Nets, Size
        <5>2. hung[j] = hung[p]
          BY <4>8, <4>1, <4>6, <4>4, <5>1, AroundIsLarger
        <5> QED BY <5>2, <4>8
      <4>9. p # 0 /\ NetIn(hung[i], hung[p]) /\ NetIn(hung[p], hung[j])
        BY <4>5, <4>7, <4>8
      <4> QED BY <4>9 DEF hung, p
    <3>5. Smallest(reply')
      <4> HIDE DEF hung
      <4>1. \A i, j \in DOMAIN hung :
              i > Len(asked.sites) /\ hung[i] # hung[j] /\ NetIn(hung[i], hung[j])
              => Parent(asked, i) # 0 /\ NetIn(hung[i], hung[Parent(asked, i)]) /\ NetIn(hung[Parent(asked, i)], hung[j])
        BY <3>4
      <4>2. \A i \in DOMAIN hung : reply'.parent[i] = Parent(asked, i)
        BY <3>2
      <4> QED BY <4>1, <4>2, <3>2, Zenon DEF Smallest
    <3> QED BY <3>1, <3>5, <2>2
  <2>3. reply'.kind # "nets" /\ asked' = asked => Inv'
    OBVIOUS
  <2> QED BY <2>1, <2>2, <2>3, Answered
<1>3. Inv => UnderTheSmallest
  BY Zenon DEF UnderTheSmallest, Smallest
<1> QED BY <1>1, <1>2, <1>3, PTL DEF AnswersSpec
----------------------------------------------------------------------------
(* The search for what is free *)

\* The n smallest are n, if there are as many.
LEMMA LowestSize ==
    ASSUME NEW c \in SUBSET Nat, IsFiniteSet(c), NEW n \in Nat
    PROVE  /\ IsFiniteSet(Lowest(c, n))
           /\ n <= Cardinality(c) => Cardinality(Lowest(c, n)) = n
           /\ n >= Cardinality(c) => Lowest(c, n) = c
<1> DEFINE below(a) == {b \in c : b < a}
           rank(a) == Cardinality(below(a))
<1>1. Cardinality(c) \in Nat
  BY FS_CardinalityType
<1>2. ASSUME NEW a \in c PROVE IsFiniteSet(below(a)) /\ rank(a) \in Nat /\ rank(a) < Cardinality(c)
  <2>1. below(a) \in SUBSET c /\ below(a) # c
    <3>1. ~(a < a)
      OBVIOUS
    <3> QED BY <3>1
  <2> HIDE DEF below
  <2>2. IsFiniteSet(below(a)) /\ rank(a) <= Cardinality(c) /\ rank(a) # Cardinality(c)
    BY <2>1, FS_Subset
  <2>3. rank(a) \in Nat
    BY <2>2, FS_CardinalityType
  <2> QED BY <2>2, <2>3, <1>1
<1>3. ASSUME NEW a \in c, NEW b \in c, a < b PROVE rank(a) < rank(b)
  <2>1. below(a) \in SUBSET below(b) /\ below(a) # below(b)
    <3>1. a \in below(b) /\ a \notin below(a)
      BY <1>3
    <3>2. \A x \in c : x < a => x < b
      BY <1>3
    <3> QED BY <3>1, <3>2
  <2> HIDE DEF below
  <2>2. rank(a) <= rank(b) /\ rank(a) # rank(b)
    BY <2>1, <1>2, FS_Subset
  <2> QED BY <2>2, <1>2
<1>4. \A m : Lowest(c, m) = {a \in c : rank(a) < m}
  BY DEF Lowest
<1> HIDE DEF rank, below
<1>5. \A m : Lowest(c, m) \in SUBSET c
  BY <1>4
<1>6. \A m : IsFiniteSet(Lowest(c, m))
  BY <1>5, FS_Subset
<1>7. ASSUME NEW m \in Nat, m < Cardinality(c), Cardinality(Lowest(c, m)) = m
      PROVE  Cardinality(Lowest(c, m + 1)) = m + 1
  <2> DEFINE rest == c \ Lowest(c, m)
  <2>1. PICK a \in rest : \A b \in rest : a <= b
    <3>1. Lowest(c, m) # c
      BY <1>7, <1>1
    <3>2. rest # {} /\ rest \subseteq Nat
      BY <3>1, <1>5
    <3> HIDE DEF rest
    <3> QED BY <3>2, LeastOf
  <2>2. a \in c /\ a \in Nat /\ rank(a) \in Nat /\ ~(rank(a) < m)
    BY <1>4, <1>2
  <2>3. ASSUME NEW b \in c PROVE b \in Lowest(c, m) <=> b < a
    <3>0. b \in Nat /\ rank(b) \in Nat
      BY <1>2
    <3>1. ASSUME b \in Lowest(c, m), ~(b < a) PROVE FALSE
      <4>1. rank(b) < m
        BY <3>1, <1>4
      <4>2. a # b
        BY <4>1, <2>2
      <4>3. rank(a) < rank(b)
        BY <4>2, <3>1, <3>0, <2>2, <1>3
      <4> QED BY <4>1, <4>3, <2>2, <3>0
    <3>2. ASSUME b \notin Lowest(c, m), b < a PROVE FALSE
      <4>1. a <= b
        BY <3>2, <2>1
      <4> QED BY <4>1, <3>2, <3>0, <2>2
    <3> QED BY <3>1, <3>2
  <2>4. rank(a) = m
    <3>1. below(a) = Lowest(c, m)
      BY <2>3, <1>5 DEF below
    <3> QED BY <3>1, <1>7 DEF rank
  <2>5. Lowest(c, m + 1) = Lowest(c, m) \cup {a}
    <3>1. ASSUME NEW b \in c PROVE rank(b) < m + 1 <=> b \in Lowest(c, m) \/ b = a
      <4>0. b \in Nat /\ rank(b) \in Nat
        BY <1>2
      <4>1. CASE b < a
        <5>1. rank(b) < m /\ b \in Lowest(c, m)
          BY <4>1, <2>3, <1>4
        <5> QED BY <5>1, <4>0
      <4>2. CASE b = a
        BY <4>2, <2>4
      <4>3. CASE a < b
        <5>1. m < rank(b)
          BY <4>3, <2>4, <2>2, <1>3
        <5>2. b \notin Lowest(c, m) /\ b # a
          BY <4>3, <4>0, <2>2, <2>3
        <5> QED BY <5>1, <5>2, <4>0
      <4> QED BY <4>0, <4>1, <4>2, <4>3, <2>2
    <3> QED BY <3>1, <1>4, <2>2
  <2>6. a \notin Lowest(c, m)
    OBVIOUS
  <2> QED BY <2>5, <2>6, <1>6, <1>7, FS_AddElement
<1>8. Cardinality(Lowest(c, 0)) = 0
  <2>1. Lowest(c, 0) = {}
    <3>1. \A a \in c : ~(rank(a) < 0)
      BY <1>2
    <3> QED BY <3>1, <1>4
  <2> QED BY <2>1, FS_EmptySet
<1>9. ASSUME n <= Cardinality(c) PROVE Cardinality(Lowest(c, n)) = n
  <2> DEFINE T == {m \in 0..n : Cardinality(Lowest(c, m)) = m}
  <2>1. 0 \in T /\ \A m \in 0..n : m \in T /\ m < n => m + 1 \in T
    BY <1>7, <1>8, <1>9, <1>1
  <2>2. n \in T
    <3> HIDE DEF T
    <3> QED BY <2>1, UpTo
  <2> QED BY <2>2
<1>10. ASSUME n >= Cardinality(c) PROVE Lowest(c, n) = c
  <2>1. \A a \in c : rank(a) < n
    BY <1>2, <1>1, <1>10
  <2> QED BY <2>1, <1>4
<1> QED BY <1>6, <1>9, <1>10

\* A search that is allowed n finds only what there is, and all of it when it says so.
LEMMA FoundIn ==
    ASSUME NEW c \in SUBSET Nat, IsFiniteSet(c), NEW n \in Nat
    PROVE  Lowest(c, n) \subseteq c /\ (~(Cardinality(c) >= n) => Lowest(c, n) = c)
<1>1. Cardinality(c) \in Nat
  BY FS_CardinalityType
<1>2. Lowest(c, n) \subseteq c
  BY DEF Lowest
<1>3. n >= Cardinality(c) => Lowest(c, n) = c
  BY LowestSize
<1> QED BY <1>1, <1>2, <1>3

\* Of two numbers Min is one, and of three.
LEMMA MinOf ==
    ASSUME NEW T \in SUBSET Nat, T # {}
    PROVE  Min(T) \in T /\ \A x \in T : Min(T) <= x
<1>1. PICK x \in T : \A y \in T : x <= y
  BY LeastOf
<1>2. Min(T) = CHOOSE z \in T : \A y \in T : z <= y
  BY Zenon DEF Min
<1> QED BY <1>1, <1>2

\* The loop of find_free ends, after at most MaxProbe.
LEMMA ProbedIs ==
    ASSUME NEW q, FreeCandidates(q) \in SUBSET Nat, IsFiniteSet(FreeCandidates(q))
    PROVE  /\ Probed(q) \in Nat /\ Probed(q) <= MaxProbe
           /\ Probed(q) <= Cardinality(FreeCandidates(q))
           /\ Enough(q, Probed(q))
<1> DEFINE all == Cardinality(FreeCandidates(q))
           ends == {n \in {Min({k * Concurrency, all, MaxProbe}) : k \in 0..all} : Enough(q, n)}
<1>1. all \in Nat /\ MaxProbe \in Nat /\ Concurrency \in Nat /\ Concurrency > 0
  BY FS_CardinalityType, SearchAssumption
<1>2. ASSUME NEW k \in 0..all
      PROVE  LET n == Min({k * Concurrency, all, MaxProbe})
             IN  n \in Nat /\ n <= all /\ n <= MaxProbe /\ (n = k * Concurrency \/ n = all \/ n = MaxProbe)
  <2> HIDE DEF all
  <2>1. k * Concurrency \in Nat
    BY <1>1
  <2> DEFINE T == {k * Concurrency, all, MaxProbe}
  <2>2. T \in SUBSET Nat /\ T # {}
    BY <2>1, <1>1
  <2>3. Min(T) \in T /\ \A x \in T : Min(T) <= x
    <3> HIDE DEF T
    <3> QED BY <2>2, MinOf
  <2> QED BY <2>1, <2>3, <1>1
<1>3. ends # {}
  <2> DEFINE n == Min({all * Concurrency, all, MaxProbe})
  <2>1. n \in Nat /\ n <= all /\ n <= MaxProbe /\ (n = all * Concurrency \/ n = all \/ n = MaxProbe)
    BY <1>2, <1>1
  <2>2. all * Concurrency >= all
    <3> HIDE DEF all
    <3>1. Concurrency - 1 \in Nat /\ all * Concurrency = all + all * (Concurrency - 1)
      BY <1>1
    <3>2. \A x, y \in Nat : x * y \in Nat
      OBVIOUS
    <3>3. all * (Concurrency - 1) \in Nat
      BY <3>1, <3>2, <1>1
    <3> QED BY <3>1, <3>3, <1>1
  <2>3. n >= all \/ n >= MaxProbe
    <3> HIDE DEF all, n
    <3> QED BY <2>1, <2>2, <1>1
  <2>4. Enough(q, n)
    <3> HIDE DEF n
    <3> QED BY <2>3 DEF Enough
  <2>5. all \in 0..all
    BY <1>1
  <2> HIDE DEF all
  <2> QED BY <2>4, <2>5
<1>4. ends \in SUBSET Nat /\ \A n \in ends : n <= all /\ n <= MaxProbe /\ Enough(q, n)
  <2> HIDE DEF all
  <2> QED BY <1>2
<1>5. Probed(q) = Min(ends)
  BY Zenon DEF Probed
<1>6. Probed(q) \in ends
  <2> HIDE DEF ends
  <2> QED BY <1>3, <1>4, <1>5, MinOf
<1> HIDE DEF all, ends
<1> QED BY <1>4, <1>6 DEF all

\* The questions: a supernet and a size, or addresses from one to another.
Searched(q) ==
    /\ q.kind = "blocks" => q.supernet \in Nets /\ q.size \in Nat \ {0}
    /\ q.kind = "addresses" => q.first \in Nat /\ q.last \in Nat

\* SearchIsComplete of a question and an answer.
BlocksTrue(q, r) ==
    LET true == {b \in {Block(q, k) : k \in 1 .. BlockCount(q)} : Unallocated(q, b)}
    IN  r.free \subseteq true /\ (~r.capped => r.free = true)
AddressesTrue(q, r) ==
    LET true == FreeAmong(q, FreeCandidates(q))
    IN  /\ r.free \subseteq true /\ Cardinality(r.probed) <= MaxProbe
        /\ \/ r.exhausted /\ r.free = true
           \/ ~r.exhausted /\ Cardinality(r.free) >= q.want
           \/ ~r.exhausted /\ Cardinality(r.probed) = MaxProbe

\* An answer that does not say it was cut short is complete, whatever the net, the tables
\* and the signs: blocks and addresses listed are free; a search for addresses that stopped
\* has as many as were wanted, or has probed MaxProbe and not one more (free_subnets,
\* find_free).
THEOREM NothingFreeIsMissed ==
    AnswersSpec /\ Searched(asked) => []SearchIsComplete
<1> DEFINE Inv == /\ Searched(asked)
                  /\ reply.kind = "blocks" => BlocksTrue(asked, reply)
                  /\ reply.kind = "addresses" => AddressesTrue(asked, reply)
<1>1. reply = None /\ Searched(asked) => Inv
  <2>1. reply = None => reply.kind = "none"
    BY DEF None
  <2> QED BY <2>1
<1>2. Inv /\ [AnswersNext]_requestVars => Inv'
  <2> SUFFICES ASSUME Inv, [AnswersNext]_requestVars PROVE Inv'
    OBVIOUS
  <2>1. CASE reply' = reply /\ asked' = asked
    BY <2>1, Zenon
  <2>2. ASSUME FreeSubnets, asked' = asked, reply'.kind = "blocks" PROVE BlocksTrue(asked, reply')
    <3> DEFINE count == BlockCount(asked)
               all == {k \in 1 .. Min({count, MaxScan}) : Unallocated(asked, Block(asked, k))}
               true == {b \in {Block(asked, k) : k \in 1 .. count} : Unallocated(asked, b)}
    <3>1. /\ reply'.free = {Block(asked, k) : k \in Lowest(all, MaxBlocks)}
          /\ reply'.capped = (Cardinality(all) >= MaxBlocks \/ count > MaxScan)
      <4> DEFINE answer == [kind |-> "blocks", free |-> {Block(asked, k) : k \in Lowest(all, MaxBlocks)},
                            capped |-> Cardinality(all) >= MaxBlocks \/ count > MaxScan]
      <4>1. Give([kind |-> "refused"]) \/ Give(answer)
        BY <2>2, Zenon DEF FreeSubnets
      <4>2. Give([kind |-> "refused"]) => reply'.kind = "refused"
        BY DEF Give
      <4>3. reply' = answer
        BY <4>1, <4>2, <2>2 DEF Give
      <4> QED BY <4>3
    <3>2. asked.supernet \in Nets /\ asked.size \in Nat \ {0}
      <4>1. asked.kind = "blocks"
        BY <2>2 DEF FreeSubnets, Pending
      <4> QED BY <4>1 DEF Searched
    <3>3. count \in Nat
      <4>1. Size(asked.supernet) \in Nat
        BY <3>2 DEF Nets, Size
      <4> QED BY <4>1, <3>2 DEF BlockCount
    <3> HIDE DEF count
    <3>4. Min({count, MaxScan}) \in Nat /\ Min({count, MaxScan}) <= count /\ (count <= MaxScan => Min({count, MaxScan}) = count)
      <4>1. {count, MaxScan} \in SUBSET Nat /\ {count, MaxScan} # {} /\ MaxScan \in Nat
        BY <3>3, SearchAssumption
      <4>2. Min({count, MaxScan}) \in {count, MaxScan} /\ \A x \in {count, MaxScan} : Min({count, MaxScan}) <= x
        BY <4>1, MinOf, Zenon
      <4> QED BY <4>1, <4>2, <3>3
    <3>5. all \in SUBSET Nat /\ IsFiniteSet(all) /\ MaxBlocks \in Nat
      <4>1. all \in SUBSET (1 .. Min({count, MaxScan}))
        OBVIOUS
      <4>2. IsFiniteSet(1 .. Min({count, MaxScan}))
        BY <3>4, FS_Interval
      <4>3. IsFiniteSet(all)
        <5> HIDE DEF all
        <5> QED BY <4>1, <4>2, FS_Subset
      <4> QED BY <4>3, SearchAssumption
    <3>6. Lowest(all, MaxBlocks) \subseteq all /\ (~(Cardinality(all) >= MaxBlocks) => Lowest(all, MaxBlocks) = all)
      <4> HIDE DEF all
      <4> QED BY <3>5, FoundIn
    <3>7. reply'.free \subseteq true
      <4>1. \A k \in all : k \in 1..count /\ Unallocated(asked, Block(asked, k))
        BY <3>3, <3>4
      <4> HIDE DEF all
      <4> QED BY <3>1, <3>6, <4>1
    <3>8. ASSUME ~reply'.capped PROVE true \subseteq reply'.free
      <4>1. Lowest(all, MaxBlocks) = all /\ ~(count > MaxScan)
        BY <3>1, <3>6, <3>8
      <4>2. Min({count, MaxScan}) = count
        BY <4>1, <3>3, <3>4, SearchAssumption
      <4>3. \A k \in 1..count : Unallocated(asked, Block(asked, k)) => k \in all
        BY <4>2
      <4> HIDE DEF all
      <4> QED BY <3>1, <4>1, <4>3
    <3> HIDE DEF all
    <3>9. reply'.free \subseteq true /\ (~reply'.capped => reply'.free = true)
      BY <3>7, <3>8
    <3> QED BY <3>9, Zenon DEF BlocksTrue, count
  <2>3. ASSUME FreeAddresses, asked' = asked, reply'.kind = "addresses" PROVE AddressesTrue(asked, reply')
    <3> DEFINE c == FreeCandidates(asked)
               n == Probed(asked)
               seen == Lowest(c, n)
    <3>1. reply'.probed = seen /\ reply'.free = FreeAmong(asked, seen) /\ reply'.exhausted = (n >= Cardinality(c))
      BY <2>3 DEF FreeAddresses, Give
    <3>2. c \in SUBSET Nat /\ IsFiniteSet(c)
      <4>1. asked.first \in Nat /\ asked.last \in Nat
        BY <2>3 DEF FreeAddresses, Pending, Searched
      <4>2. c \in SUBSET (asked.first .. asked.last)
        BY DEF FreeCandidates, Hosts
      <4>3. IsFiniteSet(asked.first .. asked.last)
        BY <4>1, FS_Interval, SMTT(30)
      <4>4. (asked.first .. asked.last) \in SUBSET Nat
        BY <4>1
      <4> HIDE DEF c
      <4> QED BY <4>2, <4>3, <4>4, FS_Subset
    <3>3. n \in Nat /\ n <= MaxProbe /\ n <= Cardinality(c) /\ Enough(asked, n)
      BY <3>2, ProbedIs
    <3> HIDE DEF n
    <3>4. Cardinality(c) \in Nat /\ MaxProbe \in Nat
      BY <3>2, FS_CardinalityType, SearchAssumption
    <3>5. Cardinality(seen) = n /\ (n >= Cardinality(c) => seen = c)
      <4> HIDE DEF c
      <4> QED BY <3>2, <3>3, LowestSize
    <3>6. n >= Cardinality(c) \/ n >= MaxProbe \/ Cardinality(FreeAmong(asked, seen)) >= asked.want
      BY <3>3 DEF Enough
    <3>7. FreeAmong(asked, seen) \subseteq FreeAmong(asked, c)
      BY DEF FreeAmong, Lowest
    <3> HIDE DEF c, seen
    <3>8. n >= MaxProbe => n = MaxProbe
      BY <3>3, <3>4
    <3>9. /\ reply'.free \subseteq FreeAmong(asked, c) /\ Cardinality(reply'.probed) <= MaxProbe
          /\ \/ reply'.exhausted /\ reply'.free = FreeAmong(asked, c)
             \/ ~reply'.exhausted /\ Cardinality(reply'.free) >= asked.want
             \/ ~reply'.exhausted /\ Cardinality(reply'.probed) = MaxProbe
      BY <3>1, <3>3, <3>5, <3>6, <3>7, <3>8
    <3> QED BY <3>9, Zenon DEF AddressesTrue, c
  <2>4. ASSUME asked' = asked, reply'.kind \notin {"blocks", "addresses"} PROVE Inv'
    BY <2>4
  <2>5. ASSUME FreeSubnets, asked' = asked, reply'.kind = "blocks" PROVE Inv'
    BY <2>5, <2>2
  <2>6. ASSUME FreeAddresses, asked' = asked, reply'.kind = "addresses" PROVE Inv'
    BY <2>6, <2>3
  <2> HIDE DEF Inv
  <2> QED BY <2>1, <2>4, <2>5, <2>6, Answered
<1>3. Inv => SearchIsComplete
  BY Zenon DEF SearchIsComplete, BlocksTrue, AddressesTrue
<1> QED BY <1>1, <1>2, <1>3, PTL DEF AnswersSpec

----------------------------------------------------------------------------
(* The tree of switches *)

\* One round of the search for levels.
NextLevels(q, near, k) ==
    LET next == Beside(q, DOMAIN near) \ (q.me \cup q.fw)
    IN  [d \in DOMAIN near \cup next |-> IF d \in DOMAIN near THEN near[d] ELSE k + 1]

\* Levels known after k rounds: none is skipped, and what is beside a lower one is known.
Leveled(q, near, k) ==
    /\ DOMAIN near \subseteq Monitored \ q.me
    /\ \A d \in DOMAIN near : /\ near[d] \in 1..(k + 1)
                              /\ near[d] = 1 => d \in Roots(q)
                              /\ near[d] # 1 => \E e \in DOMAIN near : near[e] = near[d] - 1 /\ d \in Beside(q, {e})
                              /\ near[d] <= k => Beside(q, {d}) \ (q.me \cup q.fw) \subseteq DOMAIN near
                              /\ near[d] = k + 1 => Cardinality(DOMAIN near) >= k + 1

\* Beside several switches is beside one of them.
LEMMA BesideOne == ASSUME NEW q, NEW ds PROVE /\ Beside(q, ds) \subseteq Monitored
                                              /\ \A d : d \in Beside(q, ds) <=> \E e \in ds : d \in Beside(q, {e})
BY DEF Beside

\* At first the roots are known.
LEMMA LeveledRoots == ASSUME NEW q PROVE Leveled(q, [d \in Roots(q) |-> 1], 0)
<1> DEFINE near == [d \in Roots(q) |-> 1]
<1>1. DOMAIN near = Roots(q) /\ \A d \in Roots(q) : near[d] = 1
  OBVIOUS
<1>2. Roots(q) \subseteq Monitored \ q.me
  BY DEF Roots
<1>3. ASSUME NEW d \in Roots(q) PROVE Cardinality(Roots(q)) >= 1
  <2>1. IsFiniteSet(Roots(q)) /\ Roots(q) # {}
    BY <1>2, <1>3, MonitoredAssumption, FS_Subset
  <2>2. Cardinality(Roots(q)) \in Nat /\ Cardinality(Roots(q)) # 0
    BY <2>1, FS_CardinalityType, FS_EmptySet
  <2> QED BY <2>2
<1> HIDE DEF near
<1> QED BY <1>1, <1>2, <1>3 DEF Leveled

\* A round keeps the levels and adds those of the next one.
LEMMA LeveledStep ==
    ASSUME NEW q, NEW k \in Nat, NEW near, Leveled(q, near, k), NEW far, far = NextLevels(q, near, k + 1)
    PROVE  /\ Leveled(q, far, k + 1)
           /\ DOMAIN near \subseteq DOMAIN far
<1> DEFINE next == Beside(q, DOMAIN near) \ (q.me \cup q.fw)
<1>1. /\ DOMAIN far = DOMAIN near \cup next
      /\ \A d \in DOMAIN near : far[d] = near[d]
      /\ \A d \in DOMAIN far : d \notin DOMAIN near => far[d] = (k + 1) + 1 /\ d \in next
  BY DEF NextLevels
<1>2. DOMAIN far \subseteq Monitored \ q.me
  BY <1>1, BesideOne DEF Leveled
<1>3. ASSUME NEW d \in DOMAIN far, d \notin DOMAIN near
      PROVE  \E e \in DOMAIN near : near[e] = k + 1 /\ d \in Beside(q, {e})
  <2>1. d \in next /\ d \notin q.me \cup q.fw
    BY <1>1, <1>3
  <2>2. PICK e \in DOMAIN near : d \in Beside(q, {e})
    BY <2>1, BesideOne
  <2>3. near[e] \in 1..(k + 1) /\ ~(near[e] <= k)
    BY <2>1, <2>2, <1>3 DEF Leveled
  <2>4. near[e] = k + 1
    BY <2>3
  <2> QED BY <2>2, <2>4
<1>4. ASSUME NEW d \in DOMAIN near
      PROVE  Beside(q, {d}) \ (q.me \cup q.fw) \subseteq DOMAIN far
  BY <1>1, <1>4, BesideOne
<1>5. ASSUME NEW d \in DOMAIN far, d \notin DOMAIN near
      PROVE  Cardinality(DOMAIN far) >= (k + 1) + 1
  <2>1. PICK e \in DOMAIN near : near[e] = k + 1
    BY <1>3, <1>5
  <2>2. Cardinality(DOMAIN near) >= k + 1
    BY <2>1 DEF Leveled
  <2>3. IsFiniteSet(DOMAIN near) /\ IsFiniteSet(DOMAIN far)
    BY <1>2, MonitoredAssumption, FS_Subset DEF Leveled
  <2>4. Cardinality(DOMAIN near \cup {d}) = Cardinality(DOMAIN near) + 1 /\ Cardinality(DOMAIN near) \in Nat
    BY <2>3, <1>5, FS_AddElement, FS_CardinalityType
  <2>5. Cardinality(DOMAIN near \cup {d}) <= Cardinality(DOMAIN far) /\ Cardinality(DOMAIN far) \in Nat
    <3>1. DOMAIN near \cup {d} \in SUBSET (DOMAIN far)
      BY <1>1
    <3> QED BY <3>1, <2>3, FS_Subset, FS_CardinalityType
  <2> QED BY <2>2, <2>4, <2>5
<1> HIDE DEF next
<1>6. ASSUME NEW d \in DOMAIN far
      PROVE  /\ far[d] \in 1..((k + 1) + 1)
             /\ far[d] = 1 => d \in Roots(q)
             /\ far[d] # 1 => \E e \in DOMAIN far : far[e] = far[d] - 1 /\ d \in Beside(q, {e})
             /\ far[d] <= k + 1 => Beside(q, {d}) \ (q.me \cup q.fw) \subseteq DOMAIN far
             /\ far[d] = (k + 1) + 1 => Cardinality(DOMAIN far) >= (k + 1) + 1
  <2>1. CASE d \in DOMAIN near
    <3>1. /\ far[d] = near[d] /\ near[d] \in 1..(k + 1)
          /\ near[d] = 1 => d \in Roots(q)
          /\ near[d] # 1 => \E e \in DOMAIN near : near[e] = near[d] - 1 /\ d \in Beside(q, {e})
      BY <1>1, <2>1 DEF Leveled
    <3>2. far[d] # 1 => \E e \in DOMAIN far : far[e] = far[d] - 1 /\ d \in Beside(q, {e})
      BY <3>1, <1>1
    <3>3. far[d] \in 1..((k + 1) + 1) /\ ~(far[d] = (k + 1) + 1)
      <4>1. near[d] \in 1..(k + 1)
        BY <3>1
      <4>2. near[d] \in 1..((k + 1) + 1) /\ ~(near[d] = (k + 1) + 1)
        BY <4>1
      <4> QED BY <3>1, <4>2
    <3> QED BY <3>1, <3>2, <3>3, <2>1, <1>4
  <2>2. CASE d \notin DOMAIN near
    <3>1. far[d] = (k + 1) + 1
      BY <1>1, <2>2
    <3>2. PICK e \in DOMAIN near : near[e] = k + 1 /\ d \in Beside(q, {e})
      BY <1>3, <2>2
    <3>3. e \in DOMAIN far /\ far[e] = far[d] - 1
      BY <1>1, <3>1, <3>2
    <3>4. Cardinality(DOMAIN far) >= (k + 1) + 1
      BY <1>5, <2>2
    <3>5. far[d] \in 1..((k + 1) + 1) /\ far[d] # 1 /\ ~(far[d] <= k + 1)
      BY <3>1
    <3> QED BY <3>2, <3>3, <3>4, <3>5
  <2> QED BY <2>1, <2>2
<1> QED BY <1>1, <1>2, <1>6 DEF Leveled

\* Every level but the first has a parent one level higher, and there are no more levels
\* than devices.
LEMMA LevelsAre ==
    ASSUME NEW q, NEW lv, lv = Levels(q)
    PROVE  /\ DOMAIN lv \subseteq Monitored \ q.me
           /\ \A d \in DOMAIN lv : /\ lv[d] \in 1..Cardinality(Monitored)
                                   /\ lv[d] = 1 => d \in Roots(q)
                                   /\ Parents(q, lv, d) # {}
<1> DEFINE n == Cardinality(Monitored)
           S == UNION {[D -> Nat] : D \in SUBSET Monitored}
           s0 == [d \in Roots(q) |-> 1]
           Eq(u) == u = [k \in 0..n |->
                          IF k = 0 THEN [d \in Roots(q) |-> 1]
                          ELSE LET near == u[k - 1]
                                   next == Beside(q, DOMAIN near) \ (q.me \cup q.fw)
                               IN  [d \in DOMAIN near \cup next |-> IF d \in DOMAIN near THEN near[d] ELSE k + 1]]
           upto == CHOOSE u : Eq(u)
           step == [x \in S \X (0..n) |-> NextLevels(q, x[1], x[2])]
<1>1. n \in Nat
  BY MonitoredAssumption, FS_CardinalityType
<1>2. lv = upto[n]
  BY Zenon DEF Levels
<1>3. ASSUME NEW near \in S, NEW k \in 0..n PROVE NextLevels(q, near, k) \in S
  <2>1. PICK D \in SUBSET Monitored : near \in [D -> Nat]
    BY <1>3
  <2> DEFINE next == Beside(q, DOMAIN near) \ (q.me \cup q.fw)
             far == [d \in DOMAIN near \cup next |-> IF d \in DOMAIN near THEN near[d] ELSE k + 1]
  <2>2. D \cup next \in SUBSET Monitored /\ DOMAIN near = D
    BY <2>1, BesideOne
  <2>3. far \in [D \cup next -> Nat]
    BY <2>1, <2>2, <1>1
  <2>4. far \in S
    <3> HIDE DEF far, next
    <3> QED BY <2>2, <2>3, Zenon
  <2> QED BY <2>4 DEF NextLevels
<1>4. s0 \in S
  <2>1. Roots(q) \in SUBSET Monitored /\ s0 \in [Roots(q) -> Nat]
    BY DEF Roots
  <2> HIDE DEF s0
  <2> QED BY <2>1, Zenon
<1>5. PICK f \in [0..n -> S] : IsLoop(f, 0, n, s0, step)
  <2>1. step \in [S \X (0..n) -> S]
    <3>1. ASSUME NEW x \in S \X (0..n) PROVE NextLevels(q, x[1], x[2]) \in S
      <4> HIDE DEF S
      <4> QED BY <1>3, <3>1
    <3> HIDE DEF S
    <3> QED BY <3>1
  <2> HIDE DEF step, S, s0
  <2>2. 0 \in Int /\ n \in Int /\ 0 <= n
    BY <1>1
  <2> HIDE DEF n
  <2> QED BY <1>4, <2>1, <2>2, Loop, Zenon
<1>6. Eq(f)
  <2>1. ASSUME NEW k \in 0..n PROVE f[k] = IF k = 0 THEN s0 ELSE NextLevels(q, f[k - 1], k)
    <3>1. CASE k = 0
      BY <3>1, <1>5 DEF IsLoop
    <3>2. CASE k # 0
      <4>1. k \in (0 + 1)..n /\ k - 1 \in 0..n
        BY <3>2, <1>1
      <4>2. f[k] = step[<<f[k - 1], k>>] /\ f[k - 1] \in S
        BY <4>1, <1>5 DEF IsLoop
      <4> HIDE DEF S
      <4> QED BY <4>2, <3>2
    <3> QED BY <3>1, <3>2
  <2>2. f = [k \in 0..n |-> IF k = 0 THEN s0 ELSE NextLevels(q, f[k - 1], k)]
    <3> HIDE DEF s0, S, n
    <3> QED BY <2>1, <1>5
  <2> HIDE DEF n
  <2> QED BY <2>2 DEF NextLevels
<1>7. Eq(upto)
  <2> HIDE DEF Eq
  <2> QED BY <1>6
<1>8. upto[0] = s0 /\ \A k \in 0..n : k < n => upto[k + 1] = NextLevels(q, upto[k], k + 1)
  <2>1. \A k \in 0..n : upto[k] = IF k = 0 THEN s0 ELSE NextLevels(q, upto[k - 1], k)
    <3> HIDE DEF upto, n
    <3> QED BY <1>7, Zenon DEF NextLevels
  <2> HIDE DEF upto, s0, Eq
  <2>2. upto[0] = s0
    BY <2>1, <1>1
  <2>3. ASSUME NEW k \in 0..n, k < n PROVE upto[k + 1] = NextLevels(q, upto[k], k + 1)
    <3>1. k + 1 \in 0..n /\ k + 1 # 0 /\ (k + 1) - 1 = k
      BY <1>1, <2>3
    <3> QED BY <3>1, <2>1
  <2> QED BY <2>2, <2>3
<1> DEFINE T == {k \in 0..n : Leveled(q, upto[k], k)}
<1>9. n \in T
  <2> HIDE DEF upto, Eq
  <2>1. 0 \in T
    BY <1>1, <1>8, LeveledRoots
  <2>2. ASSUME NEW k \in 0..n, k \in T, k < n PROVE k + 1 \in T
    <3>1. k \in Nat /\ k + 1 \in 0..n /\ Leveled(q, upto[k], k)
      BY <1>1, <2>2
    <3>2. upto[k + 1] = NextLevels(q, upto[k], k + 1)
      BY <1>8, <2>2
    <3> HIDE DEF n
    <3>3. Leveled(q, upto[k + 1], k + 1)
      BY <3>1, <3>2, LeveledStep
    <3> QED BY <3>1, <3>3
  <2> HIDE DEF T
  <2> QED BY <1>1, <2>1, <2>2, UpTo
<1>10. Leveled(q, lv, n)
  BY <1>9, <1>2
<1>11. \A d \in DOMAIN lv : lv[d] # n + 1
  <2>1. Cardinality(DOMAIN lv) <= n /\ Cardinality(DOMAIN lv) \in Nat
    BY <1>10, MonitoredAssumption, FS_Subset, FS_CardinalityType DEF Leveled
  <2> HIDE DEF n
  <2>2. ASSUME NEW d \in DOMAIN lv, lv[d] = n + 1 PROVE Cardinality(DOMAIN lv) >= n + 1
    BY <1>10, <2>2 DEF Leveled
  <2> QED BY <1>1, <2>1, <2>2
<1>12. ASSUME NEW d \in DOMAIN lv PROVE lv[d] \in 1..n /\ Parents(q, lv, d) # {}
  <2> HIDE DEF n
  <2>1. lv[d] \in 1..n
    <3>1. lv[d] \in 1..(n + 1) /\ lv[d] # n + 1
      BY <1>10, <1>11 DEF Leveled
    <3> QED BY <1>1, <3>1
  <2>2. lv[d] # 1 => \E e \in DOMAIN lv : lv[e] = lv[d] - 1 /\ d \in Beside(q, {e})
    BY <1>10 DEF Leveled
  <2> QED BY <2>1, <2>2 DEF Parents
<1> QED BY <1>10, <1>12 DEF Leveled

\* One round of walking up.
ParentsOf(parent, kept) == {parent[d] : d \in kept \cap DOMAIN parent} \ {NoDevice}

\* Kept switches have their parents kept.
LEMMA KeepIsClosed ==
    ASSUME NEW parent, NEW lv, NEW hosted, DOMAIN lv = DOMAIN parent,
           \A d \in DOMAIN parent :
              /\ lv[d] \in 1..Cardinality(Monitored)
              /\ parent[d] # NoDevice => parent[d] \in DOMAIN parent /\ lv[parent[d]] = lv[d] - 1
    PROVE  \A d \in Keep(parent, hosted) \cap DOMAIN parent :
              parent[d] # NoDevice => parent[d] \in Keep(parent, hosted)
<1> DEFINE n == Cardinality(Monitored)
           S == SUBSET (hosted \cup {parent[d] : d \in DOMAIN parent})
           Eq(u) == u = [k \in 0..n |->
                          IF k = 0 THEN hosted
                          ELSE LET kept == u[k - 1]
                               IN  kept \cup ({parent[d] : d \in kept \cap DOMAIN parent} \ {NoDevice})]
           up == CHOOSE u : Eq(u)
           step == [x \in S \X (0..n) |-> x[1] \cup ParentsOf(parent, x[1])]
<1>1. n \in Nat
  BY MonitoredAssumption, FS_CardinalityType
<1>2. Keep(parent, hosted) = up[n]
  BY Zenon DEF Keep
<1>3. PICK f \in [0..n -> S] : IsLoop(f, 0, n, hosted, step)
  <2>1. step \in [S \X (0..n) -> S]
    BY DEF ParentsOf
  <2>2. 0 \in Int /\ n \in Int /\ 0 <= n /\ hosted \in S
    BY <1>1
  <2> HIDE DEF n, S, step
  <2> QED BY <2>1, <2>2, Loop, Zenon
<1>4. Eq(f)
  <2>1. ASSUME NEW k \in 0..n PROVE f[k] = IF k = 0 THEN hosted ELSE f[k - 1] \cup ParentsOf(parent, f[k - 1])
    <3>1. CASE k = 0
      BY <3>1, <1>3 DEF IsLoop
    <3>2. CASE k # 0
      <4>1. k \in (0 + 1)..n /\ k - 1 \in 0..n
        BY <3>2, <1>1
      <4>2. f[k] = step[<<f[k - 1], k>>] /\ f[k - 1] \in S
        BY <4>1, <1>3 DEF IsLoop
      <4> HIDE DEF S
      <4> QED BY <4>2, <3>2
    <3> QED BY <3>1, <3>2
  <2>2. f = [k \in 0..n |-> IF k = 0 THEN hosted ELSE f[k - 1] \cup ParentsOf(parent, f[k - 1])]
    <3> HIDE DEF S, n
    <3> QED BY <2>1, <1>3
  <2> HIDE DEF n
  <2> QED BY <2>2 DEF ParentsOf
<1>5. Eq(up)
  <2> HIDE DEF Eq
  <2> QED BY <1>4
<1>6. up[0] = hosted /\ \A k \in 0..n : k < n => up[k + 1] = up[k] \cup ParentsOf(parent, up[k])
  <2>1. \A k \in 0..n : up[k] = IF k = 0 THEN hosted ELSE up[k - 1] \cup ParentsOf(parent, up[k - 1])
    <3> HIDE DEF up, n
    <3> QED BY <1>5, Zenon DEF ParentsOf
  <2> HIDE DEF up, Eq
  <2>2. up[0] = hosted
    <3>1. 0 \in 0..n
      BY <1>1
    <3> HIDE DEF n
    <3> QED BY <2>1, <3>1
  <2>3. ASSUME NEW k \in 0..n, k < n PROVE up[k + 1] = up[k] \cup ParentsOf(parent, up[k])
    <3>1. k + 1 \in 0..n /\ k + 1 # 0 /\ (k + 1) - 1 = k
      BY <1>1, <2>3
    <3> QED BY <3>1, <2>1
  <2> QED BY <2>2, <2>3
<1> DEFINE ClosedTo(k) == \A d \in up[k] \cap DOMAIN parent :
                            lv[d] > n - k /\ parent[d] # NoDevice => parent[d] \in up[k]
           T == {k \in 0..n : ClosedTo(k)}
<1>7. n \in T
  <2> HIDE DEF up, Eq
  <2>1. 0 \in T
    <3> HIDE DEF n
    <3>1. \A d \in DOMAIN parent : ~(lv[d] > n - 0)
      BY <1>1 DEF n
    <3> QED BY <1>1, <1>6, <3>1
  <2>2. ASSUME NEW k \in 0..n, k \in T, k < n PROVE k + 1 \in T
    <3>1. up[k + 1] = up[k] \cup ParentsOf(parent, up[k]) /\ k + 1 \in 0..n /\ k \in Nat /\ ClosedTo(k)
      BY <1>1, <1>6, <2>2
    <3>2. ASSUME NEW d \in up[k + 1] \cap DOMAIN parent, lv[d] > n - (k + 1), parent[d] # NoDevice
          PROVE  parent[d] \in up[k + 1]
      <4>1. CASE d \in up[k]
        BY <4>1, <3>1, <3>2 DEF ParentsOf
      <4>2. CASE d \notin up[k]
        <5>1. PICK e \in up[k] \cap DOMAIN parent : d = parent[e] /\ d # NoDevice
          BY <4>2, <3>1, <3>2 DEF ParentsOf
        <5>2. lv[d] = lv[e] - 1 /\ lv[e] \in Int /\ lv[d] \in Int
          BY <5>1
        <5>3. lv[e] > n - k
          BY <5>2, <3>1, <3>2, <1>1
        <5>4. e \in up[k] \cap DOMAIN parent /\ parent[e] = d /\ d # NoDevice
          BY <5>1
        <5>5. d \in up[k]
          BY <5>3, <5>4, <3>1
        <5> QED BY <5>5, <4>2
      <4> QED BY <4>1, <4>2
    <3> QED BY <3>1, <3>2
  <2> HIDE DEF T
  <2> QED BY <1>1, <2>1, <2>2, UpTo
<1>8. ClosedTo(n) /\ \A d \in DOMAIN parent : lv[d] > n - n
  <2>1. n - n = 0 /\ \A d \in DOMAIN parent : lv[d] > 0
    BY <1>1
  <2> QED BY <2>1, <1>7
<1> HIDE DEF n, up
<1> QED BY <1>2, <1>8

----------------------------------------------------------------------------
\* LibreNMS knows a neighbour that says the name of the firewall as the firewall, if it
\* knows it at all (remote_device_id goes by the name).
Named(q) == \A ln \in q.links : ln.names = "me" => ln.r \in q.me \/ ln.r \notin Monitored

\* A switch at the firewall has a line to it, or one to a device outside the tree.
LEMMA RootHasLine ==
    ASSUME NEW q, Named(q), NEW keep, NEW d \in Roots(q), d \in keep
    PROVE  \/ d \in FirewallLines(q, keep)
           \/ \E e \in keep : {d, e} \in SwitchLines(q, keep) /\ (e \in q.me \/ e \notin Monitored)
<1>1. d \notin q.me /\ d \in Monitored
  BY DEF Roots
<1>2. CASE \E k \in q.links : k.l = d /\ (k.names = "me" \/ k.r \in q.me)
  <2>1. PICK k \in q.links : k.l = d /\ (k.names = "me" \/ k.r \in q.me)
    BY <1>2
  <2>2. CASE Between(keep, k)
    <3>1. k.r \in keep /\ {d, k.r} \in SwitchLines(q, keep)
      BY <2>1, <2>2 DEF Between, SwitchLines
    <3>2. k.r \in q.me \/ k.r \notin Monitored
      BY <2>1 DEF Named
    <3> QED BY <3>1, <3>2
  <2>3. CASE ~Between(keep, k)
    BY <2>1, <2>3 DEF FirewallLines
  <2> QED BY <2>2, <2>3
<1>3. CASE \E k \in q.links : k.l \in q.me /\ k.r = d
  <2>1. PICK k \in q.links : k.l \in q.me /\ k.r = d
    BY <1>3
  <2>2. CASE k.l \in keep
    <3>1. k.l # d /\ {d, k.l} \in SwitchLines(q, keep)
      <4>1. k.l # d /\ {k.l, k.r} \in SwitchLines(q, keep)
        BY <1>1, <2>1, <2>2 DEF SwitchLines
      <4>2. {k.l, k.r} = {d, k.l}
        BY <2>1
      <4> QED BY <4>1, <4>2
    <3> QED BY <3>1, <2>1, <2>2
  <2>3. CASE k.l \notin keep
    BY <2>1, <2>3 DEF FirewallLines, Between
  <2> QED BY <2>2, <2>3
<1> QED BY <1>2, <1>3 DEF Roots

\* A switch and its parent have a line, if both are kept.
LEMMA ParentHasLine ==
    ASSUME NEW q, NEW keep, NEW d \in keep, NEW e \in keep, d # e, d \in Beside(q, {e})
    PROVE  {d, e} \in SwitchLines(q, keep)
<1>1. PICK k \in q.links : <<k.l, k.r>> \in {<<d, e>>, <<e, d>>}
  BY DEF Beside
<1>2. k.l # k.r /\ {k.l, k.r} = {d, e}
  BY <1>1
<1> QED BY <1>2 DEF SwitchLines

\* What is joined after one more line.
Nearer(drawn, near) == near \cup {d \in drawn.keep : \E e \in near : {d, e} \in drawn.lines}

\* A drawing is joined that has each switch at the firewall, or one line from one of a
\* lower level.
LEMMA JoinedIs ==
    ASSUME NEW drawn, NEW level \in [drawn.keep -> 0..Cardinality(Monitored)],
           \A d \in drawn.keep :
              \/ d \in drawn.solid \cup drawn.dashed
              \/ \E e \in drawn.keep : level[e] < level[d] /\ {d, e} \in drawn.lines
    PROVE  drawn.keep \subseteq Joined(drawn)
<1> DEFINE n == Cardinality(Monitored)
           S == SUBSET drawn.keep
           base == (drawn.solid \cup drawn.dashed) \cap drawn.keep
           Eq(u) == u = [k \in 0..n |->
                          IF k = 0 THEN (drawn.solid \cup drawn.dashed) \cap drawn.keep
                          ELSE LET near == u[k - 1]
                               IN  near \cup {d \in drawn.keep : \E e \in near : {d, e} \in drawn.lines}]
           joined == CHOOSE u : Eq(u)
           step == [x \in S \X (0..n) |-> Nearer(drawn, x[1])]
<1>1. n \in Nat
  BY MonitoredAssumption, FS_CardinalityType
<1>2. Joined(drawn) = joined[n]
  BY Zenon DEF Joined
<1>3. PICK f \in [0..n -> S] : IsLoop(f, 0, n, base, step)
  <2>1. step \in [S \X (0..n) -> S]
    BY DEF Nearer
  <2>2. 0 \in Int /\ n \in Int /\ 0 <= n /\ base \in S
    BY <1>1
  <2> HIDE DEF n, S, step, base
  <2> QED BY <2>1, <2>2, Loop, Zenon
<1>4. Eq(f)
  <2>1. ASSUME NEW k \in 0..n PROVE f[k] = IF k = 0 THEN base ELSE Nearer(drawn, f[k - 1])
    <3>1. CASE k = 0
      BY <3>1, <1>3 DEF IsLoop
    <3>2. CASE k # 0
      <4>1. k \in (0 + 1)..n /\ k - 1 \in 0..n
        BY <3>2, <1>1
      <4>2. f[k] = step[<<f[k - 1], k>>] /\ f[k - 1] \in S
        BY <4>1, <1>3 DEF IsLoop
      <4> HIDE DEF S
      <4> QED BY <4>2, <3>2
    <3> QED BY <3>1, <3>2
  <2>2. f = [k \in 0..n |-> IF k = 0 THEN base ELSE Nearer(drawn, f[k - 1])]
    <3> HIDE DEF S, n, base
    <3> QED BY <2>1, <1>3
  <2> HIDE DEF n
  <2> QED BY <2>2 DEF Nearer
<1>5. Eq(joined)
  <2> HIDE DEF Eq
  <2> QED BY <1>4
<1>6. joined[0] = base /\ \A k \in 0..n : k < n => joined[k + 1] = Nearer(drawn, joined[k])
  <2>1. \A k \in 0..n : joined[k] = IF k = 0 THEN base ELSE Nearer(drawn, joined[k - 1])
    <3> HIDE DEF joined, n
    <3> QED BY <1>5, Zenon DEF Nearer
  <2> HIDE DEF joined, Eq, base
  <2>2. joined[0] = base
    <3>1. 0 \in 0..n
      BY <1>1
    <3> HIDE DEF n
    <3> QED BY <2>1, <3>1
  <2>3. ASSUME NEW k \in 0..n, k < n PROVE joined[k + 1] = Nearer(drawn, joined[k])
    <3>1. k + 1 \in 0..n /\ k + 1 # 0 /\ (k + 1) - 1 = k
      BY <1>1, <2>3
    <3> QED BY <3>1, <2>1
  <2> QED BY <2>2, <2>3
<1> DEFINE T == {k \in 0..n : base \subseteq joined[k] /\ \A d \in drawn.keep : level[d] <= k => d \in joined[k]}
<1> HIDE DEF joined, Eq
<1>7. n \in T
  <2>1. 0 \in T
    <3>1. ASSUME NEW d \in drawn.keep, level[d] <= 0 PROVE d \in joined[0]
      <4>1. ~\E e \in drawn.keep : level[e] < level[d]
        BY <3>1, <1>1
      <4> QED BY <4>1, <1>6
    <3>2. 0 \in 0..n /\ base \subseteq joined[0]
      BY <1>1, <1>6
    <3> HIDE DEF base, n
    <3> QED BY <3>1, <3>2
  <2>2. ASSUME NEW k \in 0..n, k \in T, k < n PROVE k + 1 \in T
    <3>1. joined[k + 1] = Nearer(drawn, joined[k]) /\ k + 1 \in 0..n /\ base \subseteq joined[k]
      BY <1>1, <1>6, <2>2
    <3>2. ASSUME NEW d \in drawn.keep, level[d] <= k + 1 PROVE d \in joined[k + 1]
      <4>1. CASE d \in base
        BY <4>1, <3>1 DEF Nearer
      <4>2. CASE d \notin base
        <5>1. PICK e \in drawn.keep : level[e] < level[d] /\ {d, e} \in drawn.lines
          BY <4>2
        <5>2. level[e] <= k
          <6>1. level[e] \in Int /\ level[d] \in Int /\ k \in Int
            BY <1>1
          <6> QED BY <6>1, <5>1, <3>2
        <5>3. e \in joined[k]
          BY <5>2, <2>2
        <5> HIDE DEF base, n
        <5> QED BY <5>1, <5>3, <3>1 DEF Nearer
      <4> QED BY <4>1, <4>2
    <3>3. base \subseteq joined[k + 1]
      BY <3>1 DEF Nearer
    <3> HIDE DEF base, n
    <3> QED BY <3>1, <3>2, <3>3
  <2> HIDE DEF T
  <2> QED BY <1>1, <2>1, <2>2, UpTo
<1>8. \A d \in drawn.keep : level[d] <= n
  BY <1>1
<1> HIDE DEF n, base
<1> QED BY <1>2, <1>7, <1>8

\* The drawing of any question hangs together, whatever its hosts.
LEMMA TreeIsJoined ==
    ASSUME NEW q, Named(q), NEW hosted, NEW lv, lv = Levels(q),
           NEW parent, DOMAIN parent = DOMAIN lv, \A d \in DOMAIN lv : parent[d] \in Parents(q, lv, d),
           NEW keep, keep = Keep(parent, hosted),
           NEW drawn, drawn.keep = keep, drawn.lines = SwitchLines(q, keep),
           drawn.solid = FirewallLines(q, keep),
           drawn.dashed = Dashed(q, keep, DOMAIN lv, FirewallLines(q, keep))
    PROVE  drawn.keep \subseteq Joined(drawn)
<1> DEFINE n == Cardinality(Monitored)
           level == [d \in keep |-> IF d \in DOMAIN lv THEN lv[d] ELSE 0]
<1>1. /\ DOMAIN lv \subseteq Monitored \ q.me
      /\ \A d \in DOMAIN lv : /\ lv[d] \in 1..n
                              /\ lv[d] = 1 => d \in Roots(q)
                              /\ Parents(q, lv, d) # {}
  BY LevelsAre
<1>2. n \in Nat
  BY MonitoredAssumption, FS_CardinalityType
<1> HIDE DEF n
<1>3. DOMAIN parent = DOMAIN lv /\ \A d \in DOMAIN lv : parent[d] \in Parents(q, lv, d)
  OBVIOUS
<1>4. ASSUME NEW d \in DOMAIN lv
      PROVE  /\ lv[d] = 1 => parent[d] = NoDevice
             /\ lv[d] # 1 => /\ parent[d] \in DOMAIN lv /\ parent[d] # NoDevice
                             /\ lv[parent[d]] = lv[d] - 1 /\ d \in Beside(q, {parent[d]})
  BY <1>1, <1>3, MonitoredAssumption DEF Parents
<1>5. \A d \in keep \cap DOMAIN parent : parent[d] # NoDevice => parent[d] \in keep
  <2>1. \A d \in DOMAIN parent :
           /\ lv[d] \in 1..Cardinality(Monitored)
           /\ parent[d] # NoDevice => parent[d] \in DOMAIN parent /\ lv[parent[d]] = lv[d] - 1
    BY <1>1, <1>3, <1>4 DEF n
  <2>2. DOMAIN lv = DOMAIN parent
    BY <1>3
  <2>3. \A d \in Keep(parent, hosted) \cap DOMAIN parent :
           parent[d] # NoDevice => parent[d] \in Keep(parent, hosted)
    <3> HIDE DEF level
    <3> QED BY <2>1, <2>2, KeepIsClosed
  <2> QED BY <2>3
<1>6. level \in [drawn.keep -> 0..Cardinality(Monitored)]
  BY <1>1, <1>2 DEF n
<1>7. \A d \in keep : level[d] = IF d \in DOMAIN lv THEN lv[d] ELSE 0
  OBVIOUS
<1> HIDE DEF level
<1>8. ASSUME NEW d \in drawn.keep
      PROVE  \/ d \in drawn.solid \cup drawn.dashed
             \/ \E e \in drawn.keep : level[e] < level[d] /\ {d, e} \in drawn.lines
  <2>1. CASE d \notin DOMAIN lv
    BY <2>1 DEF Dashed
  <2>2. CASE d \in DOMAIN lv /\ lv[d] = 1
    <3>1. d \in Roots(q) /\ level[d] = 1
      BY <1>1, <1>7, <2>2
    <3>2. CASE d \in FirewallLines(q, keep)
      BY <3>2
    <3>3. CASE \E e \in keep : {d, e} \in SwitchLines(q, keep) /\ (e \in q.me \/ e \notin Monitored)
      <4>1. PICK e \in keep : {d, e} \in SwitchLines(q, keep) /\ (e \in q.me \/ e \notin Monitored)
        BY <3>3
      <4>2. level[e] = 0
        BY <4>1, <1>1, <1>7
      <4>3. level[e] < level[d] /\ e \in drawn.keep /\ {d, e} \in drawn.lines
        BY <3>1, <4>1, <4>2
      <4> QED BY <4>3
    <3> QED BY <3>1, <3>2, <3>3, RootHasLine
  <2>3. CASE d \in DOMAIN lv /\ lv[d] # 1
    <3>1. /\ parent[d] \in DOMAIN lv /\ parent[d] # NoDevice
          /\ lv[parent[d]] = lv[d] - 1 /\ d \in Beside(q, {parent[d]})
      BY <1>4, <2>3
    <3>2. parent[d] \in keep
      BY <1>3, <1>5, <2>3, <3>1
    <3>3. lv[d] \in Int /\ level[d] = lv[d] /\ level[parent[d]] = lv[d] - 1
      BY <1>1, <1>7, <2>3, <3>1, <3>2
    <3>4. d # parent[d] /\ level[parent[d]] < level[d]
      <4>1. lv[d] - 1 < lv[d]
        BY <3>3
      <4>2. level[parent[d]] < level[d]
        BY <3>3, <4>1
      <4>3. level[parent[d]] # level[d]
        BY <3>3
      <4> QED BY <4>2, <4>3
    <3>5. {d, parent[d]} \in SwitchLines(q, keep)
      BY <3>1, <3>2, <3>4, ParentHasLine
    <3> QED BY <3>2, <3>4, <3>5
  <2> QED BY <2>1, <2>2, <2>3
<1> QED BY <1>6, <1>8, JoinedIs

\* A drawing hangs together whatever its hosts, if the neighbours are Named
\* (vlanphys.build: levels, parents, keep, links, fw_links).
THEOREM DrawingsHangTogether ==
    AnswersSpec /\ (asked.kind = "tree" => Named(asked)) => []TreeHangsTogether
<1> DEFINE Inv == /\ asked.kind = "tree" => Named(asked)
                  /\ reply.kind = "tree" => reply.keep \subseteq Joined(reply)
<1>1. reply = None /\ (asked.kind = "tree" => Named(asked)) => Inv
  <2>1. reply = None => reply.kind = "none"
    BY DEF None
  <2> QED BY <2>1
<1>2. Inv /\ [AnswersNext]_requestVars => Inv'
  <2> SUFFICES ASSUME Inv, [AnswersNext]_requestVars PROVE Inv'
    OBVIOUS
  <2>1. CASE reply' = reply /\ asked' = asked
    <3>1. Joined(reply') = Joined(reply)
      BY <2>1
    <3>2. asked'.kind = "tree" => Named(asked')
      BY <2>1
    <3> QED BY <2>1, <3>1, <3>2
  <2>2. ASSUME Draw, asked' = asked PROVE Inv'
    <3>1. asked.kind = "tree" /\ Named(asked)
      BY <2>2 DEF Draw, Pending
    <3> DEFINE lv == Levels(asked)
               parent == [d \in DOMAIN lv |-> CHOOSE e \in Parents(asked, lv, d) : TRUE]
               answer(cands, at, keep) ==
                 [kind |-> "tree", asked |-> cands, at |-> at, keep |-> keep,
                  lines |-> SwitchLines(asked, keep), solid |-> FirewallLines(asked, keep),
                  dashed |-> Dashed(asked, keep, DOMAIN lv, FirewallLines(asked, keep))]
    <3>2. PICK cands, at, hosted : Give(answer(cands, at, Keep(parent, hosted)))
      BY <2>2, Zenon DEF Draw
    <3>3. DOMAIN parent = DOMAIN lv /\ \A d \in DOMAIN lv : parent[d] \in Parents(asked, lv, d)
      <4>1. \A d \in DOMAIN lv : Parents(asked, lv, d) # {}
        BY LevelsAre
      <4> HIDE DEF lv
      <4> QED BY <4>1
    <3> HIDE DEF parent
    <3> DEFINE keep == Keep(parent, hosted)
    <3>4. /\ reply'.keep = keep /\ reply'.lines = SwitchLines(asked, keep)
          /\ reply'.solid = FirewallLines(asked, keep)
          /\ reply'.dashed = Dashed(asked, keep, DOMAIN lv, FirewallLines(asked, keep))
      <4> HIDE DEF keep, lv
      <4> QED BY <3>2 DEF Give, keep
    <3>5. reply'.keep \subseteq Joined(reply')
      BY <3>1, <3>3, <3>4, TreeIsJoined
    <3> QED BY <3>1, <3>5, <2>2
  <2>3. reply'.kind # "tree" /\ asked' = asked => Inv'
    OBVIOUS
  <2> QED BY <2>1, <2>2, <2>3, Answered
<1>3. Inv => TreeHangsTogether
  BY DEF TreeHangsTogether
<1> QED BY <1>1, <1>2, <1>3, PTL DEF AnswersSpec

\* Whatever is drawn lies apart and inside its frame, and a list that is cut short names
\* as many as it leaves out, however many sites, nets, hosts, switches or devices there
\* are (drawio, services, segments, vlanphys, logical, physical: measured as it is drawn).
THEOREM BoxesLieApart == AnswersSpec /\ Drawable(asked) => []DrawnApart
<1> DEFINE Inv == Drawable(asked) /\ (reply.kind = "drawing" => \A f \in reply.frames : Tidy(f))
<1>1. reply = None /\ Drawable(asked) => Inv
  <2>1. reply = None => reply.kind = "none"
    BY DEF None
  <2> QED BY <2>1
<1>2. Inv /\ [AnswersNext]_requestVars => Inv'
  <2> SUFFICES ASSUME Inv, [AnswersNext]_requestVars PROVE Inv'
    OBVIOUS
  <2>1. asked' = asked => Drawable(asked)'
    BY DEF Drawable
  <2>2. CASE reply' = reply /\ asked' = asked
    BY <2>1, <2>2
  <2>3. ASSUME SheetsNext, asked' = asked PROVE Inv'
    <3>1. ASSUME NEW f \in reply'.frames PROVE Tidy(f)
      <4>1. CASE asked.kind = "structure" /\ f \in Structure(asked)
        <5>1. Structured(asked)
          BY <4>1 DEF Drawable
        <5> QED BY <4>1, <5>1, StructureTidy
      <4>2. CASE asked.kind = "family" /\ f \in Family(asked)
        <5>1. Familied(asked)
          BY <4>2 DEF Drawable
        <5> QED BY <4>2, <5>1, FamilyTidy
      <4>3. CASE asked.kind = "segmentpage" /\ f \in SegmentPages(asked)
        <5>1. Segmented(asked)
          BY <4>3 DEF Drawable
        <5> QED BY <4>3, <5>1, SegmentsTidy
      <4>4. CASE asked.kind = "vlanpage" /\ f \in VlanSheet(asked)
        <5>1. VlanOf(asked)
          BY <4>4 DEF Drawable
        <5> QED BY <4>4, <5>1, VlanTidy
      <4>5. CASE asked.kind = "logical" /\ f \in Logical(asked)
        <5>1. LogicalOf(asked)
          BY <4>5 DEF Drawable
        <5> QED BY <4>5, <5>1, LogicalTidy
      <4>6. CASE asked.kind = "infra" /\ f = InfraPage(asked)
        <5>1. InfraOf(asked)
          BY <4>6 DEF Drawable
        <5> QED BY <4>6, <5>1, InfraTidy
      <4> QED BY <2>3, <4>1, <4>2, <4>3, <4>4, <4>5, <4>6, FramesAre
    <3> QED BY <2>1, <2>3, <3>1
  <2>4. reply'.kind # "drawing" /\ asked' = asked => Inv'
    BY <2>1
  <2> QED BY <2>2, <2>3, <2>4, Answered
<1>3. Inv => DrawnApart
  <2>1. \A f : Tidy(f) => /\ f.of = f.told
                          /\ \A i \in DOMAIN f.cells :
                               /\ InFrame(f.cells[i], f)
                               /\ \A j \in DOMAIN f.cells : i # j => Apart(f.cells[i], f.cells[j])
    BY DEF Tidy
  <2> QED BY <2>1 DEF DrawnApart
<1> QED BY <1>1, <1>2, <1>3, PTL DEF AnswersSpec

----------------------------------------------------------------------------------
(* The Windows inventory (WinInventory) *)

Body  == Content \cup {Broken}
State == [from : Nat, body : Body]
One   == [file : File, mtime : Nat, old : Row \cup {NoRow}, read : BOOLEAN, body : Body]
Underway == task \cup orphan

TypeInv ==
    /\ share \in [File -> Row]
    /\ stored \in [File -> Row \cup {NoRow}]
    /\ states \in [File -> SUBSET State]
    /\ running \in BOOLEAN
    /\ import \in [pc : {"idle", "list", "known", "read"}, listed : [File -> Nat],
                   by : {"task", "admin"}]
    /\ task \subseteq One
    /\ orphan \subseteq One
    /\ crossed \subseteq File

\* One import at a time: its one()s begin after the table was read.
AloneInv ==
    /\ ~running => import.pc = "idle"
    /\ import.pc # "read" => task = {}

\* Each one() has read about a file no newer than the share, and none left over read about
\* a newer one than the listing of the import after it.
AheadInv ==
    \A t \in Underway :
        /\ t.mtime <= share[t.file].mtime
        /\ import.pc = "known" => t.mtime <= import.listed[t.file]
        /\ t.old # NoRow => stored[t.file] # NoRow

\* A file no two imports met over is read by one one() at a time, which knows the row as it
\* still is, and an older one than the file it read about.
OneInv ==
    /\ \A t \in task, u \in orphan : t.file = u.file => t.file \in crossed
    /\ \A t, u \in Underway : t.file = u.file /\ t.file \notin crossed => t = u
    /\ \A t \in Underway :
         t.file \notin crossed =>
            /\ stored[t.file] = t.old
            /\ t.old # NoRow => t.old.mtime < t.mtime

\* Its row lags behind the listing, the listing behind the share, and the history ends
\* with the row.
LagInv ==
    \A f \in File \ crossed :
        /\ stored[f] = NoRow => states[f] = {}
        /\ stored[f] # NoRow =>
              /\ stored[f].mtime <= share[f].mtime
              /\ \A d \in states[f] : d.from <= stored[f].mtime
        /\ import.pc = "known" /\ stored[f] # NoRow => stored[f].mtime <= import.listed[f]

ListedInv == import.pc = "known" => \A f \in File : import.listed[f] <= share[f].mtime

WinInv == /\ TypeInv /\ AloneInv /\ AheadInv /\ OneInv /\ LagInv /\ ListedInv
          /\ HistoryEndsInStored

----------------------------------------------------------------------------
\* At first nothing is imported.
LEMMA WinInit == WinInventoryInit => WinInv
<1> SUFFICES ASSUME WinInventoryInit PROVE WinInv
  OBVIOUS
<1>1. TypeInv
  <2>1. /\ share \in [File -> Row] /\ stored \in [File -> Row \cup {NoRow}]
        /\ states \in [File -> SUBSET State]
    BY DEF WinInventoryInit, Row
  <2>2. /\ import \in [pc : {"idle", "list", "known", "read"}, listed : [File -> Nat],
                       by : {"task", "admin"}]
        /\ running \in BOOLEAN /\ task \subseteq One /\ orphan \subseteq One /\ crossed \subseteq File
    BY DEF WinInventoryInit, Idle
  <2> QED  BY <2>1, <2>2 DEF TypeInv
<1>2. AloneInv /\ AheadInv /\ OneInv /\ LagInv /\ ListedInv /\ HistoryEndsInStored
  BY DEF WinInventoryInit, AloneInv, AheadInv, OneInv, LagInv, ListedInv, HistoryEndsInStored,
         Underway, Idle
<1> QED  BY <1>1, <1>2 DEF WinInv

\* Steps that leave the share and the table alone keep the rest, if every one() after the
\* step was one before that knew the same.
LEMMA TakenOn ==
    ASSUME WinInv, TypeInv', AloneInv', UNCHANGED <<share, stored, states, crossed>>,
           import' \in {import, Idle},
           \A u \in task', v \in orphan' : u.file = v.file => u.file \in crossed,
           \A u, v \in Underway' : u.file = v.file /\ u.file \notin crossed => u = v,
           \A u \in Underway' :
              \E t \in Underway : t.file = u.file /\ t.old = u.old /\ t.mtime = u.mtime
    PROVE  WinInv'
<1>1. AheadInv'
  BY DEF WinInv, AheadInv, Idle
<1>2. OneInv'
  BY DEF WinInv, OneInv
<1>3. LagInv' /\ ListedInv'
  BY DEF WinInv, LagInv, ListedInv, Idle
<1>4. HistoryEndsInStored'
  BY DEF WinInv, HistoryEndsInStored
<1> QED  BY <1>1, <1>2, <1>3, <1>4 DEF WinInv

\* A one() that is done leaves the others as they were.
LEMMA GoneLeaves ==
    ASSUME WinInv, NEW t \in Underway, Gone(t)
    PROVE  /\ task' \subseteq task /\ orphan' \subseteq orphan
           /\ Underway' = Underway \ {t}
           /\ \A u \in task', v \in orphan' : u.file = v.file => u.file \in crossed
           /\ \A u, v \in Underway' : u.file = v.file /\ u.file \notin crossed => u = v
           /\ t.file \notin crossed => \A u \in Underway' : u.file # t.file
<1>1. task' \subseteq task /\ orphan' \subseteq orphan /\ Underway' = Underway \ {t}
  BY DEF Gone, Underway
<1> QED  BY <1>1 DEF WinInv, OneInv

----------------------------------------------------------------------------
(* The steps of an import *)

\* An import begins only when no other runs; what the one before left goes on.
LEMMA BeginStep == WinInv /\ ImportBegin => WinInv'
<1> SUFFICES ASSUME WinInv, ImportBegin PROVE WinInv'
  OBVIOUS
<1>1. /\ UNCHANGED <<share, stored, states, task, orphan, crossed>> /\ running' = TRUE
      /\ task = {} /\ import.pc = "idle"
  BY DEF ImportBegin, shareVars, tableVars, WinInv, AloneInv
<1>2. PICK who \in {"task", "admin"} :
         import' = IF sharePath = "bad" THEN Idle ELSE [Idle EXCEPT !.pc = "list", !.by = who]
  BY DEF ImportBegin
<1>3. /\ import' \in [pc : {"idle", "list", "known", "read"}, listed : [File -> Nat],
                      by : {"task", "admin"}]
      /\ import'.pc \in {"idle", "list"}
  BY <1>2 DEF Idle
<1>4. TypeInv'
  BY <1>1, <1>3 DEF WinInv, TypeInv
<1>5. AloneInv'
  BY <1>1, <1>3 DEF AloneInv
<1>6. AheadInv' /\ OneInv'
  BY <1>1, <1>3 DEF WinInv, AheadInv, OneInv, Underway
<1>7. LagInv' /\ ListedInv' /\ HistoryEndsInStored'
  BY <1>1, <1>3 DEF WinInv, LagInv, ListedInv, HistoryEndsInStored
<1> QED  BY <1>4, <1>5, <1>6, <1>7 DEF WinInv

\* The listing is as the share is at that moment.
LEMMA ListStep == WinInv /\ ListShare => WinInv'
<1> SUFFICES ASSUME WinInv, ListShare PROVE WinInv'
  OBVIOUS
<1>1. /\ UNCHANGED <<share, stored, states, orphan, crossed>> /\ import.pc = "list"
      /\ task = {} /\ task' = {}
  BY DEF ListShare, GiveUp, shareVars, tableVars, WinInv, AloneInv
<1>2. OneInv' /\ HistoryEndsInStored'
  BY <1>1 DEF OneInv, Underway, WinInv, HistoryEndsInStored
<1>3. CASE /\ import' = [import EXCEPT !.pc = "known", !.listed = [f \in File |-> share[f].mtime]]
           /\ UNCHANGED running
  <2>1. import'.pc = "known" /\ running
    BY <1>1, <1>3 DEF WinInv, TypeInv, AloneInv
  <2>2. /\ \A f \in File : import'.listed[f] = share[f].mtime /\ share[f].mtime \in Nat
        /\ import'.listed \in [File -> Nat]
    BY <1>3 DEF WinInv, TypeInv, Row
  <2>3. TypeInv'
    BY <1>1, <1>3, <2>2 DEF WinInv, TypeInv
  <2>4. AloneInv'
    BY <1>1, <1>3, <2>1 DEF AloneInv
  <2>5. \A t \in Underway : t.file \in File
    BY DEF WinInv, TypeInv, One, Underway
  <2>6. AheadInv'
    BY <1>1, <2>2, <2>5 DEF WinInv, AheadInv, Underway
  <2>7. LagInv' /\ ListedInv'
    BY <1>1, <2>2 DEF WinInv, LagInv, ListedInv
  <2> QED  BY <1>2, <2>3, <2>4, <2>6, <2>7 DEF WinInv
<1>4. CASE GiveUp({})
  <2>1. import' = Idle /\ running' = FALSE
    BY <1>4 DEF GiveUp
  <2>2. TypeInv'
    BY <1>1, <2>1 DEF WinInv, TypeInv, Idle
  <2>3. AloneInv' /\ LagInv' /\ ListedInv'
    BY <1>1, <2>1 DEF WinInv, AloneInv, LagInv, ListedInv, Idle
  <2>4. AheadInv'
    BY <1>1, <2>1 DEF WinInv, AheadInv, Underway, Idle
  <2> QED  BY <1>2, <2>2, <2>3, <2>4 DEF WinInv
<1> QED  BY <1>1, <1>3, <1>4 DEF ListShare

\* A one() begins for each file newer than its row; one left over is at work on such a file
\* too, and the two meet.
LEMMA CompareStep == WinInv /\ CompareKnown => WinInv'
<1> SUFFICES ASSUME WinInv, CompareKnown PROVE WinInv'
  OBVIOUS
<1> DEFINE one(f) == [file |-> f, mtime |-> import.listed[f], old |-> stored[f],
                      read |-> FALSE, body |-> Broken]
<1>1. /\ UNCHANGED <<share, stored, states, running, orphan>>
      /\ import.pc = "known" /\ import' = [import EXCEPT !.pc = "read"]
      /\ task' = {one(f) : f \in {g \in File : Unread(g)}}
      /\ crossed' = crossed \cup {f \in {g \in File : Unread(g)} : \E o \in orphan : o.file = f}
  BY DEF CompareKnown, shareVars, tableVars
<1>2. task = {} /\ running = TRUE /\ import.listed \in [File -> Nat] /\ import'.pc = "read"
  BY <1>1 DEF WinInv, AloneInv, TypeInv
<1>3. \A f \in File : one(f) \in One
  BY <1>2 DEF WinInv, TypeInv, One, Body
<1>4. TypeInv'
  BY <1>1, <1>3 DEF WinInv, TypeInv
<1>5. AloneInv'
  BY <1>1, <1>2, <1>4 DEF AloneInv, TypeInv
<1>6. Underway = orphan /\ Underway' = task' \cup orphan
  BY <1>1, <1>2 DEF Underway
<1>7. \A f \in File : one(f).file = f /\ one(f).old = stored[f] /\ one(f).mtime = import.listed[f]
  OBVIOUS
<1> HIDE DEF one
<1>8. \A t \in task' : \E f \in File : t = one(f) /\ Unread(f)
  BY <1>1
<1>9. \A t \in task', u \in orphan' : t.file = u.file => t.file \in crossed'
  <2> SUFFICES ASSUME NEW t \in task', NEW u \in orphan, t.file = u.file PROVE t.file \in crossed'
    BY <1>1
  <2>1. PICK f \in File : t = one(f) /\ Unread(f)
    BY <1>8
  <2> QED  BY <1>1, <1>7, <2>1
<1>10. AheadInv'
  <2> SUFFICES ASSUME NEW t \in Underway'
               PROVE  t.mtime <= share[t.file].mtime /\ (t.old # NoRow => stored[t.file] # NoRow)
    BY <1>1, <1>2 DEF AheadInv
  <2>1. CASE t \in orphan
    BY <1>6, <2>1 DEF WinInv, AheadInv
  <2>2. CASE t \in task'
    <3>1. PICK f \in File : t = one(f)
      BY <1>8, <2>2
    <3> QED  BY <1>1, <1>7, <3>1 DEF WinInv, ListedInv
  <2> QED  BY <1>6, <2>1, <2>2
<1>11. ASSUME NEW t \in task', t.file \notin crossed'
       PROVE  stored[t.file] = t.old /\ (t.old # NoRow => t.old.mtime < t.mtime)
  <2>1. PICK f \in File : t = one(f) /\ Unread(f)
    BY <1>8
  <2>2. t.file = f /\ t.old = stored[f] /\ t.mtime = import.listed[f] /\ f \notin crossed
    BY <1>1, <1>7, <1>11, <2>1
  <2>3. stored[f] # NoRow => stored[f].mtime <= import.listed[f]
    BY <1>1, <2>2 DEF WinInv, LagInv
  <2>4. stored[f] # NoRow => stored[f].mtime \in Nat /\ stored[f].mtime # import.listed[f]
    BY <2>1 DEF Unread, WinInv, TypeInv, Row
  <2> QED  BY <1>2, <2>2, <2>3, <2>4
<1>12. OneInv'
  <2>1. \A t, u \in task' : t.file = u.file => t = u
    BY <1>7, <1>8
  <2>2. \A t, u \in Underway' : t.file = u.file /\ t.file \notin crossed' => t = u
    BY <1>1, <1>6, <1>9, <2>1 DEF WinInv, OneInv
  <2>3. \A t \in orphan : t.file \notin crossed' =>
           stored[t.file] = t.old /\ (t.old # NoRow => t.old.mtime < t.mtime)
    BY <1>1, <1>6 DEF WinInv, OneInv
  <2> QED  BY <1>1, <1>6, <1>9, <1>11, <2>2, <2>3 DEF OneInv
<1>13. LagInv' /\ ListedInv' /\ HistoryEndsInStored'
  BY <1>1, <1>2 DEF WinInv, LagInv, ListedInv, HistoryEndsInStored
<1> QED  BY <1>4, <1>5, <1>10, <1>12, <1>13 DEF WinInv

\* A file is read as it is then, at least as new as listed, or not at all.
LEMMA ReadStep == WinInv /\ ReadFile => WinInv'
<1> SUFFICES ASSUME WinInv, ReadFile PROVE WinInv'
  OBVIOUS
<1>1. UNCHANGED <<share, stored, states, running, import, crossed>>
  BY DEF ReadFile, shareVars, tableVars
<1>2. PICK t \in Underway :
         \/ Becomes(t, [t EXCEPT !.read = TRUE, !.body = share[t.file].body])
         \/ Gone(t)
  BY DEF ReadFile, Underway
<1>3. t \in One
  BY DEF WinInv, TypeInv, Underway
<1>4. CASE Gone(t)
  <2>1. TypeInv' /\ AloneInv'
    BY <1>1, <1>4, GoneLeaves DEF WinInv, TypeInv, AloneInv
  <2> QED  BY <1>1, <1>4, <2>1, GoneLeaves, TakenOn
<1>5. CASE Becomes(t, [t EXCEPT !.read = TRUE, !.body = share[t.file].body])
  <2> DEFINE u == [t EXCEPT !.read = TRUE, !.body = share[t.file].body]
  <2>1. u \in One /\ u.file = t.file /\ u.old = t.old /\ u.mtime = t.mtime
    BY <1>3 DEF One, WinInv, TypeInv, Row, Body
  <2> HIDE DEF u
  <2>2. \/ t \in task /\ task' = (task \ {t}) \cup {u} /\ orphan' = orphan
        \/ t \notin task /\ t \in orphan /\ task' = task /\ orphan' = (orphan \ {t}) \cup {u}
    BY <1>2, <1>5 DEF Becomes, Underway, u
  <2>3. TypeInv' /\ AloneInv'
    BY <1>1, <2>1, <2>2 DEF WinInv, TypeInv, AloneInv
  <2>4. \A v \in task', w \in orphan' : v.file = w.file => v.file \in crossed
    BY <2>1, <2>2 DEF WinInv, OneInv
  <2>5. ASSUME NEW v \in Underway', v.file = t.file, t.file \notin crossed
        PROVE  v = u
    <3>1. v = u \/ v \in Underway
      BY <2>2 DEF Underway
    <3>2. v \in Underway => v = t
      BY <1>2, <2>5 DEF WinInv, OneInv
    <3>3. ~(t \in task /\ t \in orphan)
      BY <2>5 DEF WinInv, OneInv
    <3>4. t \in Underway' => t = u
      BY <2>2, <3>3 DEF Underway
    <3> QED  BY <3>1, <3>2, <3>4
  <2>6. \A v, w \in Underway' : v.file = w.file /\ v.file \notin crossed => v = w
    <3>1. \A v \in Underway' : v \in Underway \/ v = u
      BY <2>2 DEF Underway
    <3>2. \A v, w \in Underway : v.file = w.file /\ v.file \notin crossed => v = w
      BY DEF WinInv, OneInv
    <3> SUFFICES ASSUME NEW v \in Underway', NEW w \in Underway', v.file = w.file,
                        v.file \notin crossed
                 PROVE  v = w
      OBVIOUS
    <3>3. CASE v.file = t.file
      BY <2>5, <3>3
    <3>4. CASE v.file # t.file
      <4>1. v \in Underway /\ w \in Underway
        BY <2>1, <3>1, <3>4
      <4> QED  BY <3>2, <4>1
    <3> QED  BY <3>3, <3>4
  <2>7. \A v \in Underway' : \E w \in Underway : w.file = v.file /\ w.old = v.old /\ w.mtime = v.mtime
    BY <2>1, <2>2 DEF Underway
  <2> QED  BY <1>1, <2>3, <2>4, <2>6, <2>7, TakenOn
<1> QED  BY <1>2, <1>4, <1>5

\* What is not a table ends its one(); the row stays.
LEMMA UnparsedStep == WinInv /\ Unparsed => WinInv'
<1> SUFFICES ASSUME WinInv, Unparsed PROVE WinInv'
  OBVIOUS
<1>1. UNCHANGED <<share, stored, states, running, import, crossed>>
  BY DEF Unparsed, shareVars, tableVars
<1>2. PICK t \in Underway : Gone(t)
  BY DEF Unparsed, Underway
<1>3. TypeInv' /\ AloneInv'
  BY <1>1, <1>2, GoneLeaves DEF WinInv, TypeInv, AloneInv
<1> QED  BY <1>1, <1>2, <1>3, GoneLeaves, TakenOn

\* What store.save writes is a row of the one()'s time.
LEMMA SavedRow ==
    ASSUME WinInv, NEW t \in Underway, t.read, Changed(t) => t.body # Broken
    PROVE  /\ Saved(t) \in Row /\ SavedHistory(t) \subseteq State
           /\ Saved(t).mtime = t.mtime
<1>1. /\ t.file \in File /\ t.mtime \in Nat /\ t.body \in Body
      /\ stored[t.file] \in Row \cup {NoRow} /\ states[t.file] \subseteq State
  BY DEF WinInv, TypeInv, One, Underway
<1>2. CASE Changed(t)
  BY <1>1, <1>2 DEF Saved, SavedHistory, Row, State, Body
<1>3. CASE ~Changed(t)
  <2>1. stored[t.file] \in Row
    BY <1>1, <1>3 DEF Changed, WinInv, AheadInv
  <2> QED  BY <1>1, <1>3, <2>1 DEF Saved, SavedHistory, Row
<1> QED  BY <1>2, <1>3

\* store.save puts the row and the state of the history down together.
LEMMA SavedAhead ==
    ASSUME WinInv, NEW t \in Underway, t.file \notin crossed,
           t.read, Changed(t) => t.body # Broken
    PROVE  /\ \A d \in SavedHistory(t) : d.from <= t.mtime
           /\ \E e \in SavedHistory(t) :
                 e.body = Saved(t).body /\ \A d \in SavedHistory(t) : d.from <= e.from
<1>1. /\ t.file \in File \ crossed /\ t.mtime \in Nat /\ t.body \in Body
      /\ stored[t.file] \in Row \cup {NoRow} /\ states[t.file] \subseteq State
  BY DEF WinInv, TypeInv, One, Underway
<1>2. /\ stored[t.file] = t.old
      /\ t.old # NoRow => t.old.mtime < t.mtime
  BY DEF WinInv, OneInv
<1>3. Saved(t).body = IF Changed(t) THEN t.body ELSE stored[t.file].body
  BY DEF Saved
<1>4. \A d \in states[t.file] : d.from \in Nat /\ d.from < t.mtime
  <2>1. CASE t.old = NoRow
    BY <1>1, <1>2, <2>1 DEF WinInv, LagInv
  <2>2. CASE t.old # NoRow
    <3>1. t.old.mtime \in Nat
      BY <1>1, <1>2, <2>2 DEF Row
    <3>2. \A d \in states[t.file] : d.from <= t.old.mtime /\ d.from \in Nat
      BY <1>1, <1>2, <2>2 DEF WinInv, LagInv, State
    <3> QED  BY <1>1, <1>2, <2>2, <3>1, <3>2
  <2> QED  BY <2>1, <2>2
<1>5. CASE Changed(t)
  <2> DEFINE new == [from |-> t.mtime, body |-> t.body]
  <2>1. SavedHistory(t) = states[t.file] \cup {new}
    BY <1>5 DEF SavedHistory
  <2>2. \A d \in SavedHistory(t) : d.from <= t.mtime
    BY <1>1, <1>4, <2>1
  <2>3. new \in SavedHistory(t) /\ new.body = Saved(t).body /\ new.from = t.mtime
    BY <1>3, <1>5, <2>1
  <2> HIDE DEF new
  <2> QED  BY <2>2, <2>3
<1>6. CASE ~Changed(t)
  <2>1. SavedHistory(t) = states[t.file]
    BY <1>6 DEF SavedHistory
  <2>2. stored[t.file] # NoRow
    BY <1>2, <1>6 DEF Changed
  <2>3. \E e \in states[t.file] :
           e.body = stored[t.file].body /\ \A d \in states[t.file] : d.from <= e.from
    BY <1>1, <2>2 DEF WinInv, HistoryEndsInStored
  <2> QED  BY <1>1, <1>3, <1>4, <1>6, <2>1, <2>3
<1> QED  BY <1>5, <1>6

\* Row and history are saved together, and the row is the newest state.
LEMMA SaveStep == WinInv /\ Save => WinInv'
<1> SUFFICES ASSUME WinInv, Save PROVE WinInv'
  OBVIOUS
<1>1. UNCHANGED <<share, crossed>>
  BY DEF Save, shareVars
<1>2. PICK t \in Underway :
         /\ t.read /\ (Changed(t) => t.body # Broken)
         /\ \/ /\ stored' = [stored EXCEPT ![t.file] = Saved(t)]
               /\ states' = [states EXCEPT ![t.file] = SavedHistory(t)]
               /\ Gone(t)
               /\ UNCHANGED <<running, import>>
            \/ /\ IF t \in task THEN GiveUp(task \ {t}) ELSE Gone(t) /\ UNCHANGED <<running, import>>
               /\ UNCHANGED tableVars
  BY DEF Save, Underway
<1>3. CASE /\ stored' = [stored EXCEPT ![t.file] = Saved(t)]
           /\ states' = [states EXCEPT ![t.file] = SavedHistory(t)]
           /\ Gone(t)
           /\ UNCHANGED <<running, import>>
  <2>1. /\ t.file \in File /\ stored \in [File -> Row \cup {NoRow}]
        /\ states \in [File -> SUBSET State]
        /\ \A u \in Underway : u.file \in File
    BY DEF WinInv, TypeInv, One, Underway
  <2>2. /\ stored'[t.file] = Saved(t) /\ states'[t.file] = SavedHistory(t)
        /\ \A f \in File : f # t.file => stored'[f] = stored[f] /\ states'[f] = states[f]
    BY <1>3, <2>1
  <2>3. Saved(t) \in Row /\ SavedHistory(t) \subseteq State /\ Saved(t) # NoRow
        /\ Saved(t).mtime = t.mtime
    BY <1>2, SavedRow, RowAssumption
  <2>4. TypeInv' /\ AloneInv'
    BY <1>1, <1>3, <2>1, <2>3, GoneLeaves DEF WinInv, TypeInv, AloneInv
  <2>5. AheadInv'
    <3>1. \A f \in File : stored[f] # NoRow => stored'[f] # NoRow
      BY <2>2, <2>3
    <3> QED  BY <1>1, <1>3, <2>1, <3>1, GoneLeaves DEF WinInv, AheadInv
  <2>6. OneInv'
    BY <1>1, <1>3, <2>1, <2>2, GoneLeaves DEF WinInv, OneInv
  <2>7. LagInv' /\ ListedInv'
    <3> SUFFICES ASSUME NEW f \in File \ crossed
                 PROVE  /\ stored'[f] = NoRow => states'[f] = {}
                        /\ stored'[f] # NoRow =>
                              /\ stored'[f].mtime <= share[f].mtime
                              /\ \A d \in states'[f] : d.from <= stored'[f].mtime
                        /\ import.pc = "known" /\ stored'[f] # NoRow =>
                              stored'[f].mtime <= import.listed[f]
      BY <1>1, <1>3 DEF LagInv, ListedInv, WinInv
    <3>1. CASE f = t.file
      <4>1. t.mtime <= share[f].mtime /\ (import.pc = "known" => t.mtime <= import.listed[f])
        BY <3>1 DEF WinInv, AheadInv
      <4>2. \A d \in SavedHistory(t) : d.from <= t.mtime
        BY <1>2, <3>1, SavedAhead
      <4> QED  BY <2>2, <2>3, <3>1, <4>1, <4>2
    <3>2. CASE f # t.file
      BY <2>2, <3>2 DEF WinInv, LagInv
    <3> QED  BY <3>1, <3>2
  <2>8. HistoryEndsInStored'
    <3> SUFFICES ASSUME NEW f \in File \ crossed, stored'[f] # NoRow
                 PROVE  \E e \in states'[f] :
                           e.body = stored'[f].body /\ \A d \in states'[f] : d.from <= e.from
      BY <1>1 DEF HistoryEndsInStored
    <3>1. CASE f = t.file
      BY <1>2, <2>2, <3>1, SavedAhead
    <3>2. CASE f # t.file
      BY <2>2, <3>2 DEF WinInv, HistoryEndsInStored
    <3> QED  BY <3>1, <3>2
  <2> QED  BY <2>4, <2>5, <2>6, <2>7, <2>8 DEF WinInv
<1>4. CASE UNCHANGED tableVars /\ t \in task /\ GiveUp(task \ {t})
  <2>1. /\ task' = {} /\ orphan' = orphan \cup (task \ {t})
        /\ running' = FALSE /\ import' = Idle
    BY <1>4 DEF GiveUp
  <2>2. TypeInv' /\ AloneInv'
    BY <1>1, <1>4, <2>1 DEF WinInv, TypeInv, AloneInv, Idle, tableVars
  <2>3. Underway' \subseteq Underway
    BY <2>1 DEF Underway
  <2>4. \A u, v \in Underway' : u.file = v.file /\ u.file \notin crossed => u = v
    BY <2>3 DEF WinInv, OneInv
  <2> QED  BY <1>1, <1>4, <2>1, <2>2, <2>3, <2>4, TakenOn DEF tableVars
<1>5. CASE UNCHANGED tableVars /\ Gone(t) /\ UNCHANGED <<running, import>>
  <2>1. TypeInv' /\ AloneInv'
    BY <1>1, <1>5, GoneLeaves DEF WinInv, TypeInv, AloneInv, tableVars
  <2> QED  BY <1>1, <1>5, <2>1, GoneLeaves, TakenOn DEF tableVars
<1> QED  BY <1>2, <1>3, <1>4, <1>5

\* An import ends when its one()s are through.
LEMMA EndStep == WinInv /\ ImportEnds => WinInv'
<1> SUFFICES ASSUME WinInv, ImportEnds PROVE WinInv'
  OBVIOUS
<1>1. /\ UNCHANGED <<share, stored, states, task, orphan, crossed>> /\ task = {}
      /\ running' = FALSE /\ import' = Idle
  BY DEF ImportEnds, shareVars, tableVars
<1>2. TypeInv' /\ AloneInv'
  BY <1>1 DEF WinInv, TypeInv, AloneInv, Idle
<1>3. Underway' = Underway /\ \A u, v \in Underway : u.file = v.file /\ u.file \notin crossed => u = v
  BY <1>1 DEF Underway, WinInv, OneInv
<1> QED  BY <1>1, <1>2, <1>3, TakenOn

----------------------------------------------------------------------------
(* The purge, the readers and the hosts *)

\* The purge never takes the newest state of a file.
LEMMA PurgeStep == WinInv /\ PurgeStates => WinInv'
<1> SUFFICES ASSUME WinInv, PurgeStates PROVE WinInv'
  OBVIOUS
<1>1. PICK cutoff \in 0 .. MaxWrites + 1 : states' = [f \in File |-> KeptStates(states[f], cutoff)]
  BY DEF PurgeStates
<1>2. UNCHANGED <<share, stored, running, import, task, orphan, crossed>>
  BY DEF PurgeStates, shareVars
<1>3. \A f \in File :
         /\ states'[f] \subseteq states[f]
         /\ \A e \in states[f] : (\A d \in states[f] : d.from <= e.from) => e \in states'[f]
  BY <1>1 DEF KeptStates
<1>4. TypeInv'
  <2>1. states' \in [File -> SUBSET State]
    BY <1>1, <1>3 DEF WinInv, TypeInv
  <2> QED  BY <1>2, <2>1 DEF WinInv, TypeInv
<1>5. AloneInv' /\ AheadInv' /\ OneInv' /\ ListedInv'
  BY <1>2 DEF WinInv, AloneInv, AheadInv, OneInv, ListedInv, Underway
<1>6. LagInv'
  BY <1>2, <1>3 DEF WinInv, LagInv
<1>7. HistoryEndsInStored'
  BY <1>2, <1>3 DEF WinInv, HistoryEndsInStored
<1> QED  BY <1>4, <1>5, <1>6, <1>7 DEF WinInv

\* A host writes its file anew, with a later time.
LEMMA HostStep == WinInv /\ HostWrites => WinInv'
<1> SUFFICES ASSUME WinInv, HostWrites PROVE WinInv'
  OBVIOUS
<1>1. UNCHANGED <<stored, states, running, import, task, orphan, crossed>>
  BY DEF HostWrites, tableVars, runVars
<1>2. PICK f \in File, b \in Content \cup {Broken} :
         share' = [share EXCEPT ![f] = [mtime |-> @.mtime + 1, body |-> b]]
  BY DEF HostWrites
<1>3. share' \in [File -> Row]
  BY <1>2 DEF WinInv, TypeInv, Row
<1>4. \A g \in File : share[g].mtime \in Nat /\ share'[g].mtime \in Nat /\ share[g].mtime <= share'[g].mtime
  BY <1>2 DEF WinInv, TypeInv, Row
<1>5. TypeInv' /\ AloneInv'
  BY <1>1, <1>3 DEF WinInv, TypeInv, AloneInv
<1>6. AheadInv' /\ OneInv'
  <2>1. \A t \in Underway : t.file \in File /\ t.mtime \in Nat
    BY DEF WinInv, TypeInv, One, Underway
  <2>2. \A t \in Underway : t.mtime <= share[t.file].mtime
    BY DEF WinInv, AheadInv
  <2>3. \A t \in Underway : t.mtime <= share'[t.file].mtime
    BY <1>4, <2>1, <2>2
  <2> QED  BY <1>1, <2>3 DEF WinInv, AheadInv, OneInv, Underway
<1>7. LagInv' /\ ListedInv'
  <2>1. \A g \in File : /\ stored[g] # NoRow => stored[g].mtime \in Nat
                        /\ import.listed[g] \in Nat
    BY DEF WinInv, TypeInv, Row
  <2> QED  BY <1>1, <1>4, <2>1 DEF WinInv, LagInv, ListedInv
<1>8. HistoryEndsInStored'
  BY <1>1 DEF WinInv, HistoryEndsInStored
<1> QED  BY <1>5, <1>6, <1>7, <1>8 DEF WinInv

\* Readers of the index and the path of the settings touch nothing of it.
LEMMA RestStep ==
    ASSUME WinInv, UNCHANGED <<share, tableVars, runVars, crossed>>
    PROVE  WinInv'
<1>1. UNCHANGED <<share, stored, states, running, import, task, orphan, crossed>>
  BY DEF tableVars, runVars
<1>2. TypeInv' /\ AloneInv' /\ AheadInv' /\ OneInv'
  BY <1>1 DEF WinInv, TypeInv, AloneInv, AheadInv, OneInv, Underway
<1>3. LagInv' /\ ListedInv' /\ HistoryEndsInStored'
  BY <1>1 DEF WinInv, LagInv, ListedInv, HistoryEndsInStored
<1> QED  BY <1>2, <1>3 DEF WinInv

\* Every step keeps the invariant.
LEMMA WinStep == WinInv /\ [WinInventoryNext]_winVars => WinInv'
<1> SUFFICES ASSUME WinInv, [WinInventoryNext]_winVars PROVE WinInv'
  OBVIOUS
<1>1. CASE ImportBegin
  BY <1>1, BeginStep
<1>2. CASE ListShare
  BY <1>2, ListStep
<1>3. CASE CompareKnown
  BY <1>3, CompareStep
<1>4. CASE TaskStep
  BY <1>4, ReadStep, UnparsedStep, SaveStep DEF TaskStep
<1>5. CASE ImportEnds
  BY <1>5, EndStep
<1>6. CASE PurgeStates
  BY <1>6, PurgeStep
<1>7. CASE HostWrites
  BY <1>7, HostStep
<1>8. CASE AskIndex \/ KeepIndex \/ ViewAges \/ SavePath \/ UNCHANGED winVars
  <2>1. UNCHANGED <<share, tableVars, runVars, crossed>>
    BY <1>8 DEF AskIndex, KeepIndex, ViewAges, SavePath, winVars, shareVars, tableVars, runVars
  <2> QED  BY <2>1, RestStep
<1> QED
  BY <1>1, <1>2, <1>3, <1>4, <1>5, <1>6, <1>7, <1>8 DEF WinInventoryNext

\* The variables are well typed, one import runs at a time, and whatever one that gave up
\* left goes on beside the next: two one()s are at work on a file only if an import
\* compared it while one left over was, and else each has the row it will write to in hand,
\* older than what it read (service.run, importer.run).
THEOREM ImportsAlone ==
    WinInventorySpec => [](TypeInv /\ AloneInv /\ OneInv)
<1>1. WinInv => TypeInv /\ AloneInv /\ OneInv
  BY DEF WinInv
<1> QED  BY WinInit, WinStep, <1>1, PTL DEF WinInventorySpec

\* The newest state of a file's history is the content of its row, whatever fails, is
\* rewritten while it is read, is left over or is purged (store.save, store.purge) - for
\* every file no two imports met over.
THEOREM HistoryEndsRight ==
    WinInventorySpec => []HistoryEndsInStored
<1>1. WinInv => HistoryEndsInStored
  BY DEF WinInv
<1> QED  BY WinInit, WinStep, <1>1, PTL DEF WinInventorySpec
==================================================================================
