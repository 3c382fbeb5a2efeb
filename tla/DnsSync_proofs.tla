--------------------------- MODULE DnsSync_proofs ---------------------------
(***************************************************************************)
(* Proofs about DnsSync, for every set of admins, workers, addresses and   *)
(* names and every bound.                                                  *)
(***************************************************************************)
EXTENDS DnsSync, TLAPS

\* A release or a discard has a run in hand, and a release, between the re-read of a row
\* and its update, a row of its list.
RowInHand == \A x \in Actor : /\ Applying(x) \/ pc[x] = "discard_set" => req[x].rid \in RunId
                              /\ pc[x] = "row_put" => req[x].row \in Todo(req[x].rows)

TypeInv == TypeOK /\ RowInHand

----------------------------------------------------------------------------
(* The operators on lists *)

\* A result noted on a row leaves a list a list.
LEMMA WithResultType ==
    ASSUME NEW rows \in Rows, NEW a \in Todo(rows), NEW res \in Result
    PROVE  WithResult(rows, a, res) \in Rows
  BY DEF WithResult, Rows, Item, Todo

\* Ticking rows leaves a list a list.
LEMMA ToggledType ==
    ASSUME NEW rows \in Rows, NEW ids, NEW on \in BOOLEAN
    PROVE  Toggled(rows, ids, on) \in Rows
  BY DEF Toggled, Rows, Item

\* What build.items returns is a list of proposals.
LEMMA ProposalsType ==
    ASSUME NameAssumption, NEW seen \in [Addr -> ItopName],
           NEW names \in [Addr -> SUBSET DnsName], NEW zones, NEW rows \in Proposals(seen, names, zones)
    PROVE  rows \in Rows
  <1>1. ASSUME NEW a \in Addr
        PROVE  rows[a] \in Item \cup {NoItem}
    <2>1. CASE seen[a] = Gone \/ names[a] = {}
      BY <2>1 DEF Proposals
    <2>2. CASE ~ (seen[a] = Gone \/ names[a] = {})
      <3>1. PICK n \in Candidates(a, names[a]) :
               rows[a] = IF Agrees(seen[a], n) THEN NoItem ELSE Proposal(a, seen[a], n, zones)
        BY <2>2 DEF Proposals
      <3>2. n \in DnsName
        BY DEF Candidates
      <3>3. Proposal(a, seen[a], n, zones) \in Item
        BY <3>2, <2>2 DEF Proposal, Preselected, Item, ItopName, Result
      <3> QED BY <3>1, <3>3
    <2> QED BY <2>1, <2>2
  <1>2. rows \in [Addr -> (UNION {{Proposal(a, seen[a], n, zones) : n \in names[a]} :
                                 a \in {b \in Addr : seen[b] # Gone}}) \cup {NoItem}]
    BY DEF Proposals
  <1> QED BY <1>1, <1>2 DEF Rows

\* A blank handler is well typed.
LEMMA BlankType == ASSUME BoundAssumption PROVE Blank \in Local
  BY DEF Blank, Local, Rows, NoRows, ItopName, BoundAssumption

----------------------------------------------------------------------------
(* Type correctness *)

\* The variables start well typed.
LEMMA TypeInit == Init => TypeInv
  BY BoundAssumption, BlankType
     DEF Init, TypeInv, TypeOK, RowInHand, Applying, ItopName, Status, Rows, NoRows, PC

\* The steps of a generation.
LEMMA TypeGenerate ==
    ASSUME TypeInv, NEW x \in Actor, Generate(x)
    PROVE  TypeInv'
  <1> USE DEF Goto, outside, tables, history, budget, TypeInv, TypeOK, RowInHand, Applying
  <1>1. CASE GenRead(x)
    <2>1. req'[x] \in Local /\ \A y \in Actor \ {x} : req'[y] = req[y]
      BY <1>1, ZenonT(60) DEF GenRead, Local, ItopName
    <2>2. /\ pc' \in [Actor -> PC] /\ ~ Applying(x)' /\ pc'[x] # "discard_set"
          /\ \A y \in Actor \ {x} : pc'[y] = pc[y]
      BY <1>1 DEF GenRead, PC
    <2> QED BY <1>1, <2>1, <2>2 DEF GenRead
  <1>2. CASE GenFail(x)
    <2>1. /\ pc' \in [Actor -> PC] /\ ~ Applying(x)' /\ pc'[x] # "discard_set"
          /\ \A y \in Actor \ {x} : pc'[y] = pc[y]
      BY <1>2 DEF GenFail, AfterGen, PC
    <2>2. faults' \in 0..MaxFault
      BY <1>2, BoundAssumption DEF GenFail, Fault
    <2>3. req' \in [Actor -> Local] /\ \A y \in Actor \ {x} : req'[y] = req[y]
      BY <1>2, BlankType, BoundAssumption DEF GenFail
    <2> QED BY <1>2, <2>1, <2>2, <2>3 DEF GenFail, Fault
  <1>3. CASE GenIgnored(x)
    <2>1. req'[x] \in Local /\ \A y \in Actor \ {x} : req'[y] = req[y]
      BY <1>3, ZenonT(60) DEF GenIgnored, NotIgnored, Local, ItopName
    <2>2. /\ pc' \in [Actor -> PC] /\ ~ Applying(x)' /\ pc'[x] # "discard_set"
          /\ \A y \in Actor \ {x} : pc'[y] = pc[y]
      BY <1>3 DEF GenIgnored, PC
    <2> QED BY <1>3, <2>1, <2>2 DEF GenIgnored
  <1>4. CASE GenDns(x)
    <2>1. req'[x] \in Local /\ \A y \in Actor \ {x} : req'[y] = req[y]
      <3>1. PICK names \in {ptr} \cup {[ptr EXCEPT ![b] = {}] : b \in Addr}, zones \in {Zoned, {}} :
               \E rows \in Proposals(req[x].seen, names, zones) :
                  req' = [req EXCEPT ![x] = [Blank EXCEPT !.rows = rows]]
        BY <1>4 DEF GenDns
      <3>2. names \in [Addr -> SUBSET DnsName] /\ req[x].seen \in [Addr -> ItopName]
        BY DEF Local
      <3>3. PICK rows \in Rows : req' = [req EXCEPT ![x] = [Blank EXCEPT !.rows = rows]]
        BY <3>1, <3>2, ProposalsType, NameAssumption
      <3>4. [Blank EXCEPT !.rows = rows] \in Local
        BY <3>3, BlankType, BoundAssumption DEF Local
      <3> QED BY <3>3, <3>4
    <2>2. /\ pc' \in [Actor -> PC] /\ ~ Applying(x)' /\ pc'[x] # "discard_set"
          /\ \A y \in Actor \ {x} : pc'[y] = pc[y]
      BY <1>4 DEF GenDns, PC
    <2>3. edits' \in 0..MaxEdit /\ faults' \in 0..MaxFault /\ crashes' \in 0..MaxCrash
      BY <1>4, BoundAssumption DEF GenDns, Fault
    <2> QED BY <1>4, <2>1, <2>2, <2>3 DEF GenDns
  <1>5. CASE GenBegin(x)
    <2>1. req'[x] \in Local /\ \A y \in Actor \ {x} : req'[y] = req[y]
      <3>1. Open \in SUBSET RunId /\ slot \in 0..MaxSlot /\ runs \in 0..MaxRun
        BY BoundAssumption DEF Open
      <3>2. [req[x] EXCEPT !.left = Open, !.at = slot, !.from = runs] \in Local
        BY <3>1, ZenonT(60) DEF Local
      <3> QED BY <1>5, <3>2 DEF GenBegin
    <2>2. /\ pc' \in [Actor -> PC] /\ ~ Applying(x)' /\ pc'[x] # "discard_set"
          /\ \A y \in Actor \ {x} : pc'[y] = pc[y]
      BY <1>5 DEF GenBegin, PC
    <2> QED BY <1>5, <2>1, <2>2 DEF GenBegin
  <1>6. CASE GenCommit(x)
    <2>1. req'[x] \in Local /\ \A y \in Actor \ {x} : req'[y] = req[y]
      BY <1>6, BlankType, BoundAssumption DEF GenCommit
    <2>2. /\ pc' \in [Actor -> PC] /\ ~ Applying(x)' /\ pc'[x] # "discard_set"
          /\ \A y \in Actor \ {x} : pc'[y] = pc[y]
      BY <1>6 DEF GenCommit, AfterGen, PC
    <2>3. /\ status' \in [RunId -> Status] /\ items' \in [RunId -> Rows]
          /\ schedSlot' \in [RunId -> 0..MaxSlot] /\ runs' \in 0..MaxRun
          /\ born' \in [RunId -> 0..MaxRun]
      <3>1. /\ runs + 1 \in RunId /\ req[x].rows \in Rows /\ req[x].at \in 0..MaxSlot /\ 0 \in 0..MaxSlot
            /\ req[x].from \in 0..MaxRun
        BY <1>6, BoundAssumption DEF GenCommit, RunId, Local
      <3>2. status' \in [RunId -> Status]
        BY <1>6 DEF GenCommit, Status
      <3> QED BY <1>6, <3>1, <3>2, BoundAssumption DEF GenCommit, RunId
    <2> QED BY <1>6, <2>1, <2>2, <2>3 DEF GenCommit
  <1> QED BY <1>1, <1>2, <1>3, <1>4, <1>5, <1>6 DEF Generate

\* The steps of the scheduler.
LEMMA TypeSchedule ==
    ASSUME TypeInv, NEW w \in Worker, Schedule(w)
    PROVE  TypeInv'
  BY BlankType, BoundAssumption
     DEF Schedule, SchedDue, SchedLock, SchedUnlock, Goto, Done, Actor, outside, tables, history,
         budget, TypeInv, TypeOK, RowInHand, Applying, PC

\* Tables after store.set_items and store.decide.
LEMMA TypeSetItems ==
    ASSUME TypeInv, NEW x \in Actor, SetItems(x)
    PROVE  items' \in [RunId -> Rows]
  BY DEF TypeInv, TypeOK, SetItems, Local

\* store.decide leaves rows and a status in the table.
LEMMA TypeDecide ==
    ASSUME TypeInv, NEW x \in Actor, NEW s \in Status, NEW rows \in Rows, Decide(x, s, rows)
    PROVE  items' \in [RunId -> Rows] /\ status' \in [RunId -> Status]
  BY DEF TypeInv, TypeOK, Decide

\* The steps of the review.
LEMMA TypeReview ==
    ASSUME TypeInv, NEW x \in Admin, Review(x)
    PROVE  TypeInv'
  <1> USE DEF Goto, Done, Actor, outside, tables, history, budget, TypeInv, TypeOK, RowInHand, Applying
  <1>1. CASE CreateRun(x)
    BY <1>1 DEF CreateRun, PC
  <1>2. CASE ToggleGet(x)
    <2>1. PICK r \in Open, ids \in (SUBSET Addr) \ {{}}, on \in BOOLEAN :
             /\ req' = [req EXCEPT ![x].rid = r, ![x].rows = Toggled(items[r], ids, on)]
             /\ picked' = picked \cup {<<r, a>> : a \in IF on THEN ids ELSE {}}
      BY <1>2 DEF ToggleGet
    <2>2. r \in RunId /\ r \in 0..MaxRun /\ Toggled(items[r], ids, on) \in Rows
      BY ToggledType, BoundAssumption DEF Open, RunId
    <2>3. req' \in [Actor -> Local]
      <3>1. [req[x] EXCEPT !.rid = r, !.rows = Toggled(items[r], ids, on)] \in Local
        BY <2>2, ZenonT(60) DEF Local
      <3> QED BY <2>1, <3>1
    <2>4. picked' \subseteq RunId \X Addr
      BY <2>1, <2>2
    <2>5. pc' \in [Actor -> PC] /\ ~ Applying(x)' /\ pc'[x] # "discard_set"
      BY <1>2 DEF ToggleGet, PC
    <2> QED BY <1>2, <2>1, <2>3, <2>4, <2>5 DEF ToggleGet
  <1>3. CASE ToggleSet(x)
    BY <1>3, TypeSetItems, BlankType, BoundAssumption DEF ToggleSet, PC
  <1>4. CASE DiscardGet(x)
    <2>1. /\ req' \in [Actor -> Local] /\ req'[x].rid \in RunId
          /\ \A y \in Actor \ {x} : req'[y] = req[y]
      <3>1. PICK r \in Open : req' = [req EXCEPT ![x].rid = r]
        BY <1>4 DEF DiscardGet
      <3>2. r \in RunId /\ r \in 0..MaxRun
        BY BoundAssumption DEF Open, RunId
      <3>3. [req[x] EXCEPT !.rid = r] \in Local /\ [req[x] EXCEPT !.rid = r].rid = r
        BY <3>2 DEF Local
      <3> QED BY <3>1, <3>2, <3>3
    <2> QED BY <1>4, <2>1 DEF DiscardGet, PC
  <1>5. CASE DiscardSet(x)
    <2>1. items[req[x].rid] \in Rows \/ req[x].rid \notin RunId
      OBVIOUS
    <2>2. items' \in [RunId -> Rows] /\ status' \in [RunId -> Status]
      BY <1>5 DEF DiscardSet, Decide, Status
    <2> QED BY <1>5, <2>2, BlankType, BoundAssumption DEF DiscardSet, PC
  <1> QED BY <1>1, <1>2, <1>3, <1>4, <1>5 DEF Review

\* The steps of POST and DELETE /ignore.
LEMMA TypeIgnoring ==
    ASSUME TypeInv, NEW x \in Admin, Ignoring(x)
    PROVE  TypeInv'
  <1> USE DEF Goto, Done, Actor, outside, tables, history, budget, TypeInv, TypeOK, RowInHand, Applying
  <1>1. CASE IgnoreAdd(x)
    <2>1. PICK a \in Addr : ignored' = ignored \cup {a} /\ req' = [req EXCEPT ![x].row = a]
      BY <1>1 DEF IgnoreAdd
    <2>2. [req[x] EXCEPT !.row = a] \in Local
      BY DEF Local
    <2>3. req' \in [Actor -> Local] /\ \A y \in Actor \ {x} : req'[y] = req[y]
      BY <2>1, <2>2
    <2> QED BY <1>1, <2>1, <2>3 DEF IgnoreAdd, PC
  <1>2. CASE IgnoreList(x)
    <2>1. {r \in Open : Recent(r)} \in SUBSET RunId
      BY DEF Open
    <2>2. [req[x] EXCEPT !.left = {r \in Open : Recent(r)}] \in Local
      BY <2>1 DEF Local
    <2>3. req' \in [Actor -> Local] /\ \A y \in Actor \ {x} : req'[y] = req[y]
      BY <1>2, <2>2 DEF IgnoreList
    <2> QED BY <1>2, <2>3 DEF IgnoreList, PC
  <1>3. CASE IgnoreGet(x)
    <2>1. CASE req[x].left = {} /\ Done(x)
      BY <1>3, <2>1, BlankType, BoundAssumption DEF IgnoreGet, PC
    <2>2. CASE Goto(x, "ign_set") /\ ~ Done(x)
      <3>1. PICK r \in req[x].left :
               req' = [req EXCEPT ![x].rid = r, ![x].left = @ \ {r},
                                  ![x].rows = [items[r] EXCEPT ![req[x].row] = NoItem]]
        BY <1>3, <2>2 DEF IgnoreGet
      <3>2. r \in RunId /\ r \in 0..MaxRun /\ req[x].left \ {r} \in SUBSET RunId
        BY BoundAssumption DEF Local, RunId
      <3>3. [items[r] EXCEPT ![req[x].row] = NoItem] \in Rows
        BY <3>2 DEF Rows
      <3>4. [req[x] EXCEPT !.rid = r, !.left = @ \ {r},
                           !.rows = [items[r] EXCEPT ![req[x].row] = NoItem]] \in Local
        BY <3>2, <3>3, ZenonT(60) DEF Local
      <3>5. req' \in [Actor -> Local] /\ \A y \in Actor \ {x} : req'[y] = req[y]
        BY <3>1, <3>4
      <3> QED BY <1>3, <2>2, <3>5 DEF IgnoreGet, PC
    <2> QED BY <1>3, <2>1, <2>2 DEF IgnoreGet
  <1>4. CASE IgnoreSet(x)
    BY <1>4, TypeSetItems DEF IgnoreSet, PC
  <1>5. CASE Unignore(x)
    BY <1>5 DEF Unignore
  <1> QED BY <1>1, <1>2, <1>3, <1>4, <1>5 DEF Ignoring

\* The steps of a release.
LEMMA TypeApply ==
    ASSUME TypeInv, NEW x \in Admin, Apply(x)
    PROVE  TypeInv'
  <1> USE DEF Goto, Done, Actor, outside, tables, history, budget, TypeInv, TypeOK, RowInHand, Applying
  <1>0. req[x] \in Local /\ req[x].rows \in Rows
    BY DEF Local
  <1>1. CASE ApplyGet(x)
    <2>1. PICK r \in Open : req' = [req EXCEPT ![x].rid = r, ![x].rows = items[r]]
      BY <1>1 DEF ApplyGet, Passes
    <2>2. [req[x] EXCEPT !.rid = r, !.rows = items[r]] \in Local
      <3>1. r \in RunId /\ r \in 0..MaxRun /\ items[r] \in Rows
        BY BoundAssumption DEF Open, RunId
      <3> QED BY <3>1, ZenonT(60) DEF Local
    <2>3. req' \in [Actor -> Local] /\ \A y \in Actor \ {x} : req'[y] = req[y]
      BY <2>1, <2>2
    <2>4. req'[x].rid \in RunId
      BY <1>0, <2>1 DEF Open, Local
    <2>5. blurred' \subseteq RunId
      BY <1>1 DEF ApplyGet, Passes, Open
    <2> QED BY <1>1, <2>3, <2>4, <2>5 DEF ApplyGet, PC
  <1>2. CASE ApplyCheck(x)
    BY <1>2, BlankType, BoundAssumption DEF ApplyCheck, PC
  <1>3. CASE ApplyDns(x)
    <2>1. [req[x] EXCEPT !.dns = [a \in Addr |-> IF a \in Todo(req[x].rows) THEN ptr[a] ELSE {}]] \in Local
      BY DEF Local
    <2>2. req' \in [Actor -> Local] /\ \A y \in Actor \ {x} : req'[y] = req[y]
      BY <1>3, <2>1 DEF ApplyDns
    <2>3. edits' \in 0..MaxEdit /\ faults' \in 0..MaxFault /\ crashes' \in 0..MaxCrash
      BY <1>3, BoundAssumption DEF ApplyDns, Fault
    <2>4. req'[x].rid = req[x].rid /\ pc[x] = "apply_dns"
      BY <1>0, <1>3 DEF ApplyDns, Local
    <2> QED BY <1>3, <2>2, <2>3, <2>4 DEF ApplyDns, PC
  <1>4. CASE RowGet(x)
    <2>1. PICK a \in Pending(req[x].rows) :
             \/ /\ req' = [req EXCEPT ![x].row = a]
                /\ Goto(x, "row_put") /\ moved' = moved \ {x} /\ UNCHANGED budget
             \/ /\ \/ req' = [req EXCEPT ![x].rows = WithResult(@, a, "skipped")] /\ UNCHANGED budget
                   \/ req' = [req EXCEPT ![x].rows = WithResult(@, a, "error")] /\ Fault
                /\ UNCHANGED <<pc, moved>>
      BY <1>4 DEF RowGet
    <2>2. a \in Todo(req[x].rows) /\ a \in Addr
      BY DEF Pending, Todo
    <2>3. [req[x] EXCEPT !.row = a] \in Local
      BY <1>0, <2>2 DEF Local
    <2>4. \A res \in Result : [req[x] EXCEPT !.rows = WithResult(@, a, res)] \in Local
      BY <1>0, <2>2, WithResultType DEF Local
    <2>5. edits' \in 0..MaxEdit /\ faults' \in 0..MaxFault /\ crashes' \in 0..MaxCrash
      BY <2>1, BoundAssumption DEF Fault
    <2>6. UNCHANGED <<outside, tables, slot, lock, written, picked, blurred, raced>> /\ pc[x] = "row_get"
      BY <1>4 DEF RowGet
    <2>7. req' \in [Actor -> Local] /\ \A y \in Actor \ {x} : req'[y] = req[y]
      BY <2>1, <2>3, <2>4 DEF Result
    <2>8. RowInHand'
      <3>1. ASSUME NEW y \in Actor
            PROVE  /\ (Applying(y) \/ pc[y] = "discard_set")' => req'[y].rid \in RunId
                   /\ pc'[y] = "row_put" => req'[y].row \in Todo(req'[y].rows)
        <4>1. CASE y # x
          BY <2>1, <2>7, <3>1, <4>1
        <4>2. CASE y = x
          <5>1. pc'[x] \in {"row_get", "row_put"} /\ req'[x].rid = req[x].rid /\ req[x].rid \in RunId
            BY <1>0, <2>1, <2>6 DEF Local
          <5>2. pc'[x] = "row_put" => req'[x].row = a /\ req'[x].rows = req[x].rows
            BY <1>0, <2>1, <2>6 DEF Local
          <5> QED BY <2>2, <4>2, <5>1, <5>2
        <4> QED BY <4>1, <4>2
      <3> QED BY <3>1
    <2> QED BY <2>1, <2>5, <2>6, <2>7, <2>8 DEF PC
  <1>5. CASE RowPut(x)
    <2> DEFINE a == req[x].row
    <2>1. PICK res \in Result :
             req' = [req EXCEPT ![x].rows = WithResult(@, a, res), ![x].row = NoAddr]
      BY <1>5 DEF RowPut, Answer, Result
    <2>2. a \in Todo(req[x].rows) /\ a \in Addr /\ pc[x] = "row_put"
      BY <1>5 DEF RowPut, Todo
    <2>3. req[x].rows[a].name \in DnsName
      BY <1>0, <2>2 DEF Todo, Rows, Item
    <2>4. [req[x] EXCEPT !.rows = WithResult(@, a, res), !.row = NoAddr] \in Local
      BY <1>0, <2>2, WithResultType DEF Local
    <2>5. req' \in [Actor -> Local] /\ \A y \in Actor \ {x} : req'[y] = req[y]
      BY <2>1, <2>4
    <2>6. itop' \in [Addr -> ItopName]
      BY <1>5, <2>2, <2>3 DEF RowPut, ItopName, Name
    <2>7. moved' \subseteq Actor
      BY <1>5 DEF RowPut, Overtaken
    <2>8. edits' \in 0..MaxEdit /\ faults' \in 0..MaxFault /\ crashes' \in 0..MaxCrash
      BY <1>5, BoundAssumption DEF RowPut, Fault
    <2>9. /\ pc' = [pc EXCEPT ![x] = "row_get"]
          /\ UNCHANGED <<released, ptr, writeOn, tables, slot, lock, picked, blurred, raced>>
      BY <1>5 DEF RowPut
    <2>10. written' \subseteq RunId \X Addr
      BY <1>5, <2>2 DEF RowPut
    <2>11. req'[x].rid = req[x].rid
      BY <1>0, <2>1 DEF Local
    <2>12. RowInHand'
      BY <2>2, <2>5, <2>9, <2>11
    <2> QED BY <2>5, <2>6, <2>7, <2>8, <2>9, <2>10, <2>12 DEF PC
  <1>6. CASE ApplyDecide(x)
    <2>1. Verdict(req[x].rows) \in Status
      BY DEF Verdict, Status
    <2>2. items' \in [RunId -> Rows] /\ status' \in [RunId -> Status]
      BY <1>0, <1>6, <2>1, TypeDecide DEF ApplyDecide
    <2> QED BY <1>6, <2>2, BlankType, BoundAssumption DEF ApplyDecide, PC
  <1> QED BY <1>1, <1>2, <1>3, <1>4, <1>5, <1>6 DEF Apply

\* A request that breaks off notes runs and addresses.
LEMMA TypeBreakOff ==
    ASSUME TypeInv, NEW ys \in SUBSET Actor, BreakOff(ys)
    PROVE  blurred' \subseteq RunId /\ raced' \subseteq Addr
  BY DEF TypeInv, TypeOK, RowInHand, BreakOff

\* A request that ends in HTTP 500.
LEMMA TypeFails ==
    ASSUME TypeInv, NEW x \in Admin, HandlerFails(x)
    PROVE  TypeInv'
  <1> USE DEF Goto, Done, Actor, outside, tables, budget, TypeInv, TypeOK, RowInHand, Applying
  <1>1. blurred' \subseteq RunId /\ raced' \subseteq Addr
    BY TypeBreakOff DEF HandlerFails
  <1>2. edits' \in 0..MaxEdit /\ faults' \in 0..MaxFault /\ crashes' \in 0..MaxCrash
    BY BoundAssumption DEF HandlerFails, Fault
  <1>3. pc' \in [Actor -> PC] /\ req' \in [Actor -> Local]
    BY BlankType, BoundAssumption DEF HandlerFails, PC
  <1> QED BY <1>1, <1>2, <1>3 DEF HandlerFails

\* What everybody else does, crashes included.
LEMMA TypeEnvironment ==
    ASSUME TypeInv, Environment \/ \E w \in Worker : Crash(w)
    PROVE  TypeInv'
  <1> USE DEF outside, tables, history, budget, TypeInv, TypeOK, RowInHand, Applying
  <1>1. CASE EditItop
    <2>1. itop' \in [Addr -> ItopName] /\ moved' \subseteq Actor
      BY <1>1 DEF EditItop, Overtaken
    <2> QED BY <1>1, <2>1, BoundAssumption DEF EditItop, Edit
  <1>2. CASE Release \/ EditDns \/ FlipWrite
    <2>1. released' \subseteq Addr /\ ptr' \in [Addr -> SUBSET DnsName] /\ writeOn' \in BOOLEAN
      BY <1>2 DEF Release, EditDns, FlipWrite
    <2>2. edits' \in 0..MaxEdit /\ UNCHANGED <<faults, crashes>>
      BY <1>2, BoundAssumption DEF Release, EditDns, FlipWrite, Edit
    <2>3. UNCHANGED <<itop, tables, slot, lock, pc, req, history>>
      BY <1>2 DEF Release, EditDns, FlipWrite
    <2> QED BY <2>1, <2>2, <2>3
  <1>3. CASE NewSlot
    BY <1>3, BoundAssumption DEF NewSlot
  <1>4. CASE \E w \in Worker : Crash(w)
    <2>1. PICK w \in Worker : Crash(w)
      BY <1>4
    <2>2. blurred' \subseteq RunId /\ raced' \subseteq Addr
      BY <2>1, TypeBreakOff DEF Crash, Actor
    <2> QED BY <2>1, <2>2, BlankType, BoundAssumption DEF Crash, PC
  <1> QED BY <1>1, <1>2, <1>3, <1>4 DEF Environment

\* Every step keeps the variables well typed.
LEMMA TypeNext == TypeInv /\ [Next]_vars => TypeInv'
  <1> SUFFICES ASSUME TypeInv, [Next]_vars PROVE TypeInv'
    OBVIOUS
  <1>1. CASE UNCHANGED vars
    BY <1>1 DEF vars, outside, tables, history, budget, TypeInv, TypeOK, RowInHand, Applying, Todo
  <1>2. CASE Next
    BY <1>2, TypeGenerate, TypeReview, TypeIgnoring, TypeApply, TypeFails, TypeSchedule, TypeEnvironment DEF Next
  <1> QED BY <1>1, <1>2

\* The tables and the local variables of every handler are well typed in every
\* reachable state, for every set of admins and workers and every bound.
THEOREM TypeCorrect == Spec => []TypeOK
  <1>1. Spec => []TypeInv
    BY TypeInit, TypeNext, PTL DEF Spec
  <1>2. TypeInv => TypeOK
    BY DEF TypeInv
  <1> QED BY <1>1, <1>2, PTL
----------------------------------------------------------------------------
(* Names put in by others survive, except in the window *)

\* A handler about to update its row: unless the object was changed since, iTop
\* still has the name the proposal was made from.
WindowInv == \A x \in Actor : pc[x] = "row_put" /\ x \notin moved
                                => itop[req[x].row] = req[x].rows[req[x].row].base

\* The steps that touch neither iTop nor a handler that is about to update a row.
LEMMA WindowFrame ==
    ASSUME TypeInv, [Next]_vars, ~ EditItop,
           ~ \E x \in Admin : RowGet(x) \/ RowPut(x),
           ~ \E w \in Worker : Crash(w)
    PROVE  /\ UNCHANGED <<itop, moved>>
           /\ \A y \in Actor : pc'[y] = "row_put" => pc[y] = "row_put" /\ req'[y] = req[y]
  <1> USE DEF Goto, Done, Actor, outside, tables, history, TypeInv, TypeOK
  <1>1. CASE UNCHANGED vars
    BY <1>1 DEF vars
  <1>2. ASSUME NEW x \in Actor, Generate(x) PROVE UNCHANGED <<itop, moved>> /\ pc'[x] # "row_put"
                /\ \A y \in Actor \ {x} : pc'[y] = pc[y] /\ req'[y] = req[y]
    BY <1>2 DEF Generate, GenRead, GenFail, GenIgnored, GenDns, GenBegin, GenCommit, AfterGen
  <1>3. ASSUME NEW x \in Admin, Review(x) PROVE UNCHANGED <<itop, moved>> /\ pc'[x] # "row_put"
                /\ \A y \in Actor \ {x} : pc'[y] = pc[y] /\ req'[y] = req[y]
    BY <1>3 DEF Review, CreateRun, ToggleGet, ToggleSet, DiscardGet, DiscardSet
  <1>4. ASSUME NEW x \in Admin, IgnoreAdd(x) \/ IgnoreList(x) \/ IgnoreGet(x) \/ IgnoreSet(x)
        PROVE UNCHANGED <<itop, moved>> /\ pc'[x] # "row_put"
                /\ \A y \in Actor \ {x} : pc'[y] = pc[y] /\ req'[y] = req[y]
    BY <1>4 DEF IgnoreAdd, IgnoreList, IgnoreGet, IgnoreSet
  <1>5. ASSUME NEW x \in Admin, Unignore(x) PROVE UNCHANGED <<itop, moved, pc, req>>
    BY <1>5 DEF Unignore
  <1>6. ASSUME NEW x \in Admin, ApplyGet(x) \/ ApplyCheck(x) \/ ApplyDns(x) \/ ApplyDecide(x)
        PROVE UNCHANGED <<itop, moved>> /\ pc'[x] # "row_put"
                /\ \A y \in Actor \ {x} : pc'[y] = pc[y] /\ req'[y] = req[y]
    BY <1>6 DEF ApplyGet, ApplyCheck, ApplyDns, ApplyDecide
  <1>7. ASSUME NEW w \in Worker, Schedule(w) PROVE UNCHANGED <<itop, moved>> /\ pc'[w] # "row_put"
                /\ \A y \in Actor \ {w} : pc'[y] = pc[y] /\ req'[y] = req[y]
    BY <1>7 DEF Schedule, SchedDue, SchedLock, SchedUnlock
  <1>8. CASE Release \/ EditDns \/ FlipWrite \/ NewSlot
    BY <1>8 DEF Release, EditDns, FlipWrite, NewSlot
  <1>9. ASSUME NEW x \in Admin, HandlerFails(x) PROVE UNCHANGED <<itop, moved>> /\ pc'[x] # "row_put"
                /\ \A y \in Actor \ {x} : pc'[y] = pc[y] /\ req'[y] = req[y]
    BY <1>9 DEF HandlerFails
  <1> QED
    BY <1>1, <1>2, <1>3, <1>4, <1>5, <1>6, <1>7, <1>8, <1>9 DEF Next, Ignoring, Apply, Environment

\* Every step keeps WindowInv: only EditItop and writes of others change a name in iTop.
LEMMA WindowNext ==
    ASSUME TypeInv, WindowInv, [Next]_vars
    PROVE  WindowInv'
  <1> USE DEF outside, tables, history, TypeInv, TypeOK, Goto
  <1>1. ASSUME NEW x \in Admin, RowGet(x) PROVE WindowInv'
    <2>1. x \in Actor /\ req[x] \in Local
      BY DEF Actor
    <2>2. PICK a \in Pending(req[x].rows) :
             \/ /\ RowFit(x, a, itop[a])
                /\ req' = [req EXCEPT ![x].row = a]
                /\ moved' = moved \ {x}
             \/ /\ \E res \in Result : req' = [req EXCEPT ![x].rows = WithResult(@, a, res)]
                /\ UNCHANGED <<pc, moved>>
      BY <1>1 DEF RowGet, Result
    <2>3. UNCHANGED itop /\ pc[x] = "row_get" /\ \A y \in Actor \ {x} : pc'[y] = pc[y] /\ req'[y] = req[y]
      BY <1>1, <2>1 DEF RowGet
    <2>4. ASSUME NEW y \in Actor, pc'[y] = "row_put", y \notin moved'
          PROVE  itop'[req'[y].row] = req'[y].rows[req'[y].row].base
      <3>1. CASE y # x
        BY <2>2, <2>3, <2>4, <3>1 DEF WindowInv
      <3>2. CASE y = x
        <4>1. RowFit(x, a, itop[a]) /\ req' = [req EXCEPT ![x].row = a]
          BY <2>2, <2>3, <2>4, <3>2
        <4>2. req'[x].row = a /\ req'[x].rows = req[x].rows
          BY <2>1, <4>1 DEF Local
        <4> QED BY <2>3, <3>2, <4>1, <4>2 DEF RowFit
      <3> QED BY <3>1, <3>2
    <2> QED BY <2>4 DEF WindowInv
  <1>2. ASSUME NEW x \in Admin, RowPut(x) PROVE WindowInv'
    <2>1. x \in Actor /\ pc'[x] = "row_get" /\ \A y \in Actor \ {x} : pc'[y] = pc[y] /\ req'[y] = req[y]
      BY <1>2 DEF RowPut, Actor
    <2>2. \/ UNCHANGED itop /\ moved' = moved \ {x}
          \/ /\ itop' = [itop EXCEPT ![req[x].row] = req[x].rows[req[x].row].name]
             /\ moved' = (moved \cup Overtaken(req[x].row)) \ {x}
      BY <1>2 DEF RowPut
    <2>3. ASSUME NEW y \in Actor, pc'[y] = "row_put", y \notin moved'
          PROVE  itop'[req'[y].row] = req'[y].rows[req'[y].row].base
      <3>1. y # x /\ pc[y] = "row_put" /\ req'[y] = req[y] /\ y \notin moved
        BY <2>1, <2>2, <2>3
      <3>2. itop[req[y].row] = req[y].rows[req[y].row].base
        BY <3>1 DEF WindowInv
      <3>3. UNCHANGED itop \/ req[y].row # req[x].row
        BY <2>2, <2>3, <3>1 DEF Overtaken
      <3>4. itop'[req[y].row] = itop[req[y].row]
        BY <2>2, <3>1, <3>3 DEF RowInHand, Todo
      <3> QED BY <3>1, <3>2, <3>4
    <2> QED BY <2>3 DEF WindowInv
  <1>3. CASE EditItop
    <2>1. PICK a \in Addr, v \in ItopName :
             itop' = [itop EXCEPT ![a] = v] /\ moved' = moved \cup Overtaken(a)
      BY <1>3 DEF EditItop
    <2>2. UNCHANGED <<pc, req>>
      BY <1>3 DEF EditItop
    <2> QED BY <2>1, <2>2 DEF WindowInv, Overtaken
  <1>4. ASSUME NEW w \in Worker, Crash(w) PROVE WindowInv'
    <2> DEFINE lost == {w} \cup {a \in Admin : Home[a] = w}
    <2>1. /\ pc' = [x \in Actor |-> IF x \in lost THEN "idle" ELSE pc[x]]
          /\ req' = [x \in Actor |-> IF x \in lost THEN Blank ELSE req[x]]
          /\ moved' = moved \ lost /\ UNCHANGED itop
      BY <1>4 DEF Crash
    <2> QED BY <2>1 DEF WindowInv
  <1>5. CASE ~ EditItop /\ ~ (\E x \in Admin : RowGet(x) \/ RowPut(x)) /\ ~ \E w \in Worker : Crash(w)
    BY <1>5, WindowFrame DEF WindowInv
  <1> QED BY <1>1, <1>2, <1>3, <1>4, <1>5

\* The check before a write works: whatever the interleaving, a name somebody
\* else put into iTop is overwritten only if it came between re-read and update.
THEOREM OverwritesOnlyInWindow == Spec => OverwriteOnlyInWindow
  <1>1. Init => WindowInv
    BY DEF Init, WindowInv
  <1>2. TypeInv /\ WindowInv /\ [Next]_vars => WindowInv'
    BY WindowNext
  <1>3. Spec => [](TypeInv /\ WindowInv)
    BY <1>1, <1>2, TypeInit, TypeNext, PTL DEF Spec
  <1>4. TypeInv /\ WindowInv =>
          [\A x \in Admin : RowPut(x) /\ itop' # itop =>
              x \in moved \/ itop[req[x].row] = req[x].rows[req[x].row].base]_vars
    BY DEF WindowInv, RowPut, Actor
  <1> QED BY <1>3, <1>4, PTL DEF OverwriteOnlyInWindow
----------------------------------------------------------------------------
(* What a list claims was ticked and written *)

\* Row i of a list of run r: a result "ok" was written, a ticked mismatch was
\* ticked by an admin.
RowJustified(i, r, a) ==
    i # NoItem => /\ i.result = "ok" => <<r, a>> \in written
                  /\ i.selected /\ i.base # NoName => <<r, a>> \in picked

\* It holds of the stored lists and of every copy a handler may yet store back; a
\* list still being built belongs to no run, so nothing can justify it but itself.
BookInv ==
    /\ \A r \in RunId, a \in Addr : RowJustified(items[r][a], r, a)
    /\ \A x \in Actor, a \in Addr : RowJustified(req[x].rows[a], req[x].rid, a)
    /\ \A x \in Actor : pc[x] \in Generating \cup {"idle", "due", "unlock"} => req[x].rid = 0

\* A fresh list has no results and ticks no mismatch.
LEMMA ProposalsFresh ==
    ASSUME NEW seen, NEW names, NEW zones,
           NEW rows \in Proposals(seen, names, zones), NEW a \in Addr, rows[a] # NoItem
    PROVE  rows[a].result = "none" /\ (rows[a].selected => rows[a].base = NoName)
  <1>1. PICK n \in Candidates(a, names[a]) :
           rows[a] = IF Agrees(seen[a], n) THEN NoItem ELSE Proposal(a, seen[a], n, zones)
    BY DEF Proposals
  <1>2. rows[a] = Proposal(a, seen[a], n, zones)
    BY <1>1
  <1>3. rows[a].result = "none" /\ rows[a].base = seen[a]
    BY <1>2 DEF Proposal
  <1>4. rows[a].selected = (n \in Forward[a] /\ n \in zones /\ seen[a] = NoName)
    BY <1>2 DEF Proposal, Preselected
  <1> QED BY <1>3, <1>4

\* A new list has no results yet and ticks no mismatch.
LEMMA BookGenerate ==
    ASSUME TypeInv, BookInv, NEW x \in Actor, Generate(x)
    PROVE  BookInv'
  <1> USE DEF Goto, tables, history, TypeInv, TypeOK
  <1>0. /\ req[x] \in Local /\ UNCHANGED <<written, picked>>
        /\ Blank.rid = 0 /\ \A a \in Addr : Blank.rows[a] = NoItem
    BY DEF Blank, NoRows, Generate, GenRead, GenFail, GenIgnored, GenDns, GenBegin, GenCommit
  <1>1. CASE GenRead(x) \/ GenIgnored(x) \/ GenBegin(x)
    <2>1. UNCHANGED items /\ \A y \in Actor : req'[y].rows = req[y].rows /\ req'[y].rid = req[y].rid
      <3>1. CASE GenRead(x)
        BY <1>0, <3>1 DEF GenRead, Local
      <3>2. CASE GenIgnored(x)
        BY <1>0, <3>2 DEF GenIgnored, Local
      <3>3. CASE GenBegin(x)
        BY <1>0, <3>3 DEF GenBegin, Local
      <3> QED BY <1>1, <3>1, <3>2, <3>3
    <2>2. pc[x] \in Generating /\ \A y \in Actor \ {x} : pc'[y] = pc[y]
      BY <1>1 DEF GenRead, GenIgnored, GenBegin, Generating
    <2> QED BY <1>0, <2>1, <2>2 DEF BookInv, RowJustified
  <1>2. CASE GenDns(x)
    <2>0. PICK names \in {ptr} \cup {[ptr EXCEPT ![b] = {}] : b \in Addr}, zones \in {Zoned, {}} :
             \E rows \in Proposals(req[x].seen, names, zones) :
                req' = [req EXCEPT ![x] = [Blank EXCEPT !.rows = rows]]
      BY <1>2 DEF GenDns
    <2>1. PICK rows \in Proposals(req[x].seen, names, zones) :
             req' = [req EXCEPT ![x] = [Blank EXCEPT !.rows = rows]]
      BY <2>0
    <2>2. req'[x].rows = rows /\ req'[x].rid = 0 /\ \A y \in Actor \ {x} : req'[y] = req[y]
      BY <2>1 DEF Blank
    <2>3. UNCHANGED items /\ \A y \in Actor \ {x} : pc'[y] = pc[y]
      BY <1>2 DEF GenDns
    <2>4. \A a \in Addr : RowJustified(rows[a], 0, a)'
      BY <2>1, ProposalsFresh DEF RowJustified
    <2> QED BY <1>0, <2>2, <2>3, <2>4 DEF BookInv, RowJustified
  <1>3. CASE GenCommit(x)
    <2> DEFINE r == runs + 1
    <2>1. /\ items' = [items EXCEPT ![r] = req[x].rows]
          /\ req' = [req EXCEPT ![x] = Blank]
          /\ pc[x] = "gen_commit" /\ \A y \in Actor \ {x} : pc'[y] = pc[y]
      BY <1>3 DEF GenCommit
    <2>2. \A a \in Addr : RowJustified(req[x].rows[a], 0, a)
      BY <2>1 DEF BookInv, Generating
    <2>3. \A a \in Addr : <<0, a>> \notin written /\ <<0, a>> \notin picked
      BY BoundAssumption DEF RunId
    <2>4. \A a \in Addr : RowJustified(req[x].rows[a], r, a)
      BY <2>2, <2>3 DEF RowJustified
    <2>5. \A s \in RunId, a \in Addr : RowJustified(items'[s][a], s, a)
      BY <2>1, <2>4 DEF BookInv
    <2>6. \A y \in Actor, a \in Addr : RowJustified(req'[y].rows[a], req'[y].rid, a)
      BY <1>0, <2>1 DEF BookInv, RowJustified
    <2>7. \A y \in Actor : pc'[y] \in Generating \cup {"idle", "due", "unlock"} => req'[y].rid = 0
      BY <1>0, <2>1 DEF BookInv
    <2> QED BY <1>0, <2>5, <2>6, <2>7 DEF BookInv, RowJustified
  <1>4. CASE GenFail(x)
    <2>1. UNCHANGED items /\ req' = [req EXCEPT ![x] = Blank] /\ \A y \in Actor \ {x} : pc'[y] = pc[y]
      BY <1>4 DEF GenFail
    <2> QED BY <1>0, <2>1 DEF BookInv, RowJustified
  <1> QED BY <1>1, <1>2, <1>3, <1>4 DEF Generate

\* Storing a copy back, or deciding a run, stores justified rows.
LEMMA BookSetItems ==
    ASSUME TypeInv, BookInv, NEW x \in Actor, SetItems(x)
    PROVE  \A r \in RunId, a \in Addr : RowJustified(items'[r][a], r, a)
  BY DEF BookInv, SetItems, TypeInv, TypeOK

\* A toggle ticks in the name of an admin and leaves the results alone.
LEMMA BookReview ==
    ASSUME TypeInv, BookInv, NEW x \in Admin, Review(x)
    PROVE  BookInv'
  <1> USE DEF Goto, Done, Actor, tables, history, TypeInv, TypeOK
  <1>0. req[x] \in Local /\ Blank.rid = 0 /\ \A a \in Addr : Blank.rows[a] = NoItem
    BY DEF Blank, NoRows
  <1>1. CASE CreateRun(x)
    BY <1>1 DEF CreateRun, BookInv, RowJustified, Generating
  <1>2. CASE ToggleGet(x)
    <2>1. PICK r \in Open, ids \in (SUBSET Addr) \ {{}}, on \in BOOLEAN :
             /\ req' = [req EXCEPT ![x].rid = r, ![x].rows = Toggled(items[r], ids, on)]
             /\ picked' = picked \cup {<<r, a>> : a \in IF on THEN ids ELSE {}}
      BY <1>2 DEF ToggleGet
    <2>2. req'[x].rid = r /\ req'[x].rows = Toggled(items[r], ids, on)
      BY <1>0, <2>1 DEF Local
    <2>3. /\ UNCHANGED <<items, written>> /\ pc' = [pc EXCEPT ![x] = "toggle_set"]
          /\ \A y \in Actor \ {x} : req'[y] = req[y]
      BY <1>2 DEF ToggleGet
    <2>4. \A a \in Addr : RowJustified(items[r][a], r, a) /\ items[r][a] \in Item \cup {NoItem}
      BY DEF BookInv, Open, Rows
    <2>5. ASSUME NEW a \in Addr
          PROVE  RowJustified(Toggled(items[r], ids, on)[a], r, a)'
      <3>1. CASE a \in ids /\ items[r][a] # NoItem /\ items[r][a].selectable
        <4>1. Toggled(items[r], ids, on)[a] = [items[r][a] EXCEPT !.selected = on]
          BY <3>1 DEF Toggled
        <4>2. items[r][a] \in Item
          BY <2>4, <3>1
        <4>3. /\ Toggled(items[r], ids, on)[a].result = items[r][a].result
              /\ Toggled(items[r], ids, on)[a].selected = on
          BY <4>1, <4>2 DEF Item
        <4>4. on => <<r, a>> \in picked'
          BY <2>1, <3>1
        <4> QED BY <2>3, <2>4, <3>1, <4>3, <4>4 DEF RowJustified
      <3>2. CASE ~ (a \in ids /\ items[r][a] # NoItem /\ items[r][a].selectable)
        <4>1. Toggled(items[r], ids, on)[a] = items[r][a]
          BY <3>2 DEF Toggled
        <4> QED BY <2>1, <2>3, <2>4, <4>1 DEF RowJustified
      <3> QED BY <3>1, <3>2
    <2>6. \A s \in RunId, a \in Addr : RowJustified(items[s][a], s, a)'
      BY <2>1, <2>3 DEF BookInv, RowJustified
    <2>7. \A y \in Actor, a \in Addr : RowJustified(req[y].rows[a], req[y].rid, a)'
      BY <2>1, <2>2, <2>3, <2>5 DEF BookInv, RowJustified
    <2>8. \A y \in Actor : pc'[y] \in Generating \cup {"idle", "due", "unlock"} => req'[y].rid = 0
      BY <2>3 DEF BookInv, Generating
    <2> QED BY <2>6, <2>7, <2>8 DEF BookInv
  <1>3. CASE ToggleSet(x)
    <2>1. /\ \A r \in RunId, a \in Addr : RowJustified(items'[r][a], r, a)
          /\ UNCHANGED <<written, picked>>
          /\ pc' = [pc EXCEPT ![x] = "idle"] /\ req' = [req EXCEPT ![x] = Blank]
      BY <1>3, BookSetItems DEF ToggleSet
    <2> QED BY <1>0, <2>1 DEF BookInv, RowJustified
  <1>4. CASE DiscardGet(x)
    <2>1. PICK r \in Open : req' = [req EXCEPT ![x].rid = r]
      BY <1>4 DEF DiscardGet
    <2>2. req'[x].rows = req[x].rows /\ req[x].rid = 0
      BY <1>0, <1>4, <2>1 DEF Local, DiscardGet, BookInv
    <2>3. \A a \in Addr : RowJustified(req[x].rows[a], r, a)
      <3>1. \A a \in Addr : <<0, a>> \notin written /\ <<0, a>> \notin picked
        BY BoundAssumption DEF RunId
      <3> QED BY <2>2, <3>1 DEF BookInv, RowJustified
    <2>4. /\ UNCHANGED <<items, written, picked>> /\ pc' = [pc EXCEPT ![x] = "discard_set"]
          /\ \A y \in Actor \ {x} : req'[y] = req[y] /\ req'[x].rid = r
      BY <1>0, <1>4, <2>1 DEF DiscardGet, Local
    <2> QED BY <2>1, <2>2, <2>3, <2>4 DEF BookInv, RowJustified, Generating
  <1>5. CASE DiscardSet(x)
    <2>1. /\ \A r \in RunId : items'[r] = items[r]
          /\ UNCHANGED <<written, picked>>
          /\ pc' = [pc EXCEPT ![x] = "idle"] /\ req' = [req EXCEPT ![x] = Blank]
      BY <1>5 DEF DiscardSet, Decide
    <2> QED BY <1>0, <2>1 DEF BookInv, RowJustified
  <1> QED BY <1>1, <1>2, <1>3, <1>4, <1>5 DEF Review

\* Exempting an address only takes rows out.
LEMMA BookIgnoring ==
    ASSUME TypeInv, BookInv, NEW x \in Admin, Ignoring(x)
    PROVE  BookInv'
  <1> USE DEF Goto, Done, Actor, tables, history, TypeInv, TypeOK
  <1>0. req[x] \in Local /\ Blank.rid = 0 /\ \A a \in Addr : Blank.rows[a] = NoItem
    BY DEF Blank, NoRows
  <1>1. CASE IgnoreAdd(x) \/ IgnoreList(x)
    <2>1. \A y \in Actor : req'[y].rows = req[y].rows /\ req'[y].rid = req[y].rid
      <3>1. CASE IgnoreAdd(x)
        BY <1>0, <3>1 DEF IgnoreAdd, Local
      <3>2. CASE IgnoreList(x)
        BY <1>0, <3>2 DEF IgnoreList, Local
      <3> QED BY <1>1, <3>1, <3>2
    <2>2. /\ UNCHANGED <<items, written, picked>> /\ pc'[x] \in {"ign_list", "ign_get"}
          /\ \A y \in Actor \ {x} : pc'[y] = pc[y]
      BY <1>1 DEF IgnoreAdd, IgnoreList
    <2> QED BY <2>1, <2>2 DEF BookInv, RowJustified, Generating
  <1>2. CASE IgnoreGet(x)
    <2>1. UNCHANGED <<items, written, picked>> /\ \A y \in Actor \ {x} : pc'[y] = pc[y] /\ req'[y] = req[y]
      BY <1>2 DEF IgnoreGet
    <2>2. CASE Done(x)
      BY <1>0, <2>1, <2>2 DEF BookInv, RowJustified
    <2>3. CASE Goto(x, "ign_set") /\ ~ Done(x)
      <3>1. PICK r \in req[x].left :
               req' = [req EXCEPT ![x].rid = r, ![x].left = @ \ {r},
                                  ![x].rows = [items[r] EXCEPT ![req[x].row] = NoItem]]
        BY <1>2, <2>3 DEF IgnoreGet
      <3>2. r \in RunId /\ req'[x].rid = r /\ req'[x].rows = [items[r] EXCEPT ![req[x].row] = NoItem]
        BY <1>0, <3>1 DEF Local
      <3>3. \A a \in Addr : req'[x].rows[a] \in {items[r][a], NoItem}
        BY <3>2 DEF Rows
      <3>4. \A y \in Actor, a \in Addr : RowJustified(req'[y].rows[a], req'[y].rid, a)
        <4>1. \A a \in Addr : RowJustified(items[r][a], r, a) /\ RowJustified(NoItem, r, a)
          BY <3>2 DEF BookInv, RowJustified
        <4>2. \A a \in Addr : RowJustified(req'[x].rows[a], req'[x].rid, a)
          BY <3>2, <3>3, <4>1
        <4>3. \A y \in Actor \ {x}, a \in Addr : RowJustified(req'[y].rows[a], req'[y].rid, a)
          BY <2>1 DEF BookInv
        <4> QED BY <4>2, <4>3
      <3>5. \A y \in Actor : pc'[y] \in Generating \cup {"idle", "due", "unlock"} => req'[y].rid = 0
        BY <2>1, <2>3 DEF BookInv, Generating
      <3> QED BY <2>1, <3>4, <3>5 DEF BookInv, RowJustified
    <2> QED BY <1>2, <2>2, <2>3 DEF IgnoreGet
  <1>3. CASE IgnoreSet(x)
    <2>1. /\ \A r \in RunId, a \in Addr : RowJustified(items'[r][a], r, a)
          /\ UNCHANGED <<written, picked, req>> /\ pc' = [pc EXCEPT ![x] = "ign_get"]
      BY <1>3, BookSetItems DEF IgnoreSet
    <2> QED BY <2>1 DEF BookInv, RowJustified, Generating
  <1>4. CASE Unignore(x)
    BY <1>4 DEF Unignore, BookInv, RowJustified
  <1> QED BY <1>1, <1>2, <1>3, <1>4 DEF Ignoring
\* A release notes "ok" only of a row iTop took over.
LEMMA BookApply ==
    ASSUME TypeInv, BookInv, NEW x \in Admin, Apply(x)
    PROVE  BookInv'
  <1> USE DEF Goto, Done, Actor, tables, history, TypeInv, TypeOK
  <1>0. /\ req[x] \in Local /\ req[x].rows \in Rows
        /\ Blank.rid = 0 /\ \A a \in Addr : Blank.rows[a] = NoItem
    BY DEF Blank, NoRows, Local
  <1>1. CASE ApplyGet(x)
    <2>1. PICK r \in Open : req' = [req EXCEPT ![x].rid = r, ![x].rows = items[r]]
      BY <1>1 DEF ApplyGet, Passes
    <2>2. r \in RunId /\ req'[x].rid = r /\ req'[x].rows = items[r]
      BY <1>0, <2>1 DEF Open, Local
    <2>3. /\ UNCHANGED <<items, written, picked>> /\ pc' = [pc EXCEPT ![x] = "apply_check"]
          /\ \A y \in Actor \ {x} : req'[y] = req[y]
      BY <1>1 DEF ApplyGet
    <2> QED BY <2>2, <2>3 DEF BookInv, RowJustified, Generating
  <1>2. CASE ApplyCheck(x)
    BY <1>0, <1>2 DEF ApplyCheck, BookInv, RowJustified, Generating
  <1>3. CASE ApplyDns(x)
    <2>1. \A y \in Actor : req'[y].rows = req[y].rows /\ req'[y].rid = req[y].rid
      <3>1. CASE UNCHANGED req
        BY <3>1
      <3>2. CASE req' = [req EXCEPT ![x].dns = [a \in Addr |-> IF a \in Todo(req[x].rows)
                                                              THEN ptr[a] ELSE {}]]
        BY <1>0, <3>2 DEF Local
      <3> QED BY <1>3, <3>1, <3>2 DEF ApplyDns
    <2>2. UNCHANGED <<items, written, picked>> /\ pc' = [pc EXCEPT ![x] = "row_get"]
      BY <1>3 DEF ApplyDns
    <2> QED BY <2>1, <2>2 DEF BookInv, RowJustified, Generating
  <1>4. CASE RowGet(x)
    <2>1. PICK a \in Pending(req[x].rows) :
             \/ req' = [req EXCEPT ![x].row = a] /\ Goto(x, "row_put")
             \/ /\ \E res \in {"skipped", "error"} :
                      req' = [req EXCEPT ![x].rows = WithResult(@, a, res)]
                /\ UNCHANGED pc
      BY <1>4 DEF RowGet
    <2>2. a \in Addr /\ req[x].rows[a] \in Item /\ pc[x] = "row_get"
      BY <1>0, <1>4 DEF Pending, Todo, Rows, RowGet
    <2>3. UNCHANGED <<items, written, picked>> /\ \A y \in Actor \ {x} : pc'[y] = pc[y] /\ req'[y] = req[y]
      BY <1>4 DEF RowGet
    <2>4. pc'[x] \in {"row_get", "row_put"} /\ req'[x].rid = req[x].rid
      BY <1>0, <2>1, <2>2 DEF Local
    <2>5. \A b \in Addr : RowJustified(req'[x].rows[b], req[x].rid, b)
      <3>1. CASE req'[x].rows = req[x].rows
        BY <3>1 DEF BookInv
      <3>2. CASE req'[x].rows # req[x].rows
        <4>1. PICK res \in {"skipped", "error"} : req'[x].rows = WithResult(req[x].rows, a, res)
          BY <1>0, <2>1, <3>2 DEF Local
        <4>2. req'[x].rows[a] = [req[x].rows[a] EXCEPT !.result = res]
          BY <1>0, <2>2, <4>1 DEF WithResult, Rows
        <4>3. /\ req'[x].rows[a].result # "ok"
              /\ req'[x].rows[a].selected = req[x].rows[a].selected
              /\ req'[x].rows[a].base = req[x].rows[a].base
          BY <2>2, <4>2 DEF Item
        <4>4. \A b \in Addr \ {a} : req'[x].rows[b] = req[x].rows[b]
          BY <1>0, <4>1 DEF WithResult, Rows
        <4>5. req[x].rows[a] # NoItem
          BY DEF Pending, Todo
        <4> QED BY <4>3, <4>4, <4>5 DEF BookInv, RowJustified
      <3> QED BY <3>1, <3>2
    <2> QED BY <2>3, <2>4, <2>5 DEF BookInv, RowJustified, Generating
  <1>5. CASE RowPut(x)
    <2> DEFINE a == req[x].row
               r == req[x].rid
    <2>1. PICK res \in Result :
             /\ req' = [req EXCEPT ![x].rows = WithResult(@, a, res), ![x].row = NoAddr]
             /\ res = "ok" => <<r, a>> \in written'
      BY <1>5 DEF RowPut, Answer, Result
    <2>2. a \in Addr /\ req[x].rows[a] \in Item /\ req[x].rows[a] # NoItem
      BY <1>0, <1>5 DEF RowInHand, Todo, Rows, RowPut
    <2>3. /\ UNCHANGED <<items, picked>> /\ written \subseteq written'
          /\ pc'[x] = "row_get" /\ \A y \in Actor \ {x} : pc'[y] = pc[y] /\ req'[y] = req[y]
      BY <1>5 DEF RowPut
    <2>4. req'[x].rid = r /\ req'[x].rows = WithResult(req[x].rows, a, res)
      BY <1>0, <2>1 DEF Local
    <2>5. \A b \in Addr : RowJustified(req[x].rows[b], req[x].rid, b)'
      <3>1. req'[x].rows[a] = [req[x].rows[a] EXCEPT !.result = res]
        BY <1>0, <2>2, <2>4 DEF WithResult, Rows
      <3>2. /\ req'[x].rows[a].result = res
            /\ req'[x].rows[a].selected = req[x].rows[a].selected
            /\ req'[x].rows[a].base = req[x].rows[a].base
        BY <2>2, <3>1 DEF Item
      <3>3. \A b \in Addr \ {a} : req'[x].rows[b] = req[x].rows[b]
        BY <1>0, <2>4 DEF WithResult, Rows
      <3>4. RowJustified(req[x].rows[a], r, a) /\ \A b \in Addr : RowJustified(req[x].rows[b], r, b)
        BY <2>2 DEF BookInv
      <3>5. ASSUME NEW b \in Addr, b = a PROVE RowJustified(req[x].rows[b], req[x].rid, b)'
        <4>1. /\ req'[x].rows[a].result = "ok" => <<r, a>> \in written'
              /\ req'[x].rows[a].selected /\ req'[x].rows[a].base # NoName => <<r, a>> \in picked'
          <5>1. req[x].rows[a].selected /\ req[x].rows[a].base # NoName => <<r, a>> \in picked
            BY <2>2, <3>4 DEF RowJustified
          <5>2. picked' = picked
            BY <2>3
          <5> QED BY <5>1, <5>2, <2>1, <3>2
        <4>2. req'[x].rid = r
          BY <2>4
        <4> HIDE DEF a, r
        <4> QED BY <4>1, <4>2, <3>5 DEF RowJustified
      <3>6. ASSUME NEW b \in Addr, b # a PROVE RowJustified(req[x].rows[b], req[x].rid, b)'
        BY <2>3, <2>4, <3>3, <3>4, <3>6 DEF RowJustified
      <3> QED BY <3>5, <3>6
    <2>6. \A s \in RunId, b \in Addr : RowJustified(items[s][b], s, b)'
      BY <2>3 DEF BookInv, RowJustified
    <2>7. \A y \in Actor \ {x}, b \in Addr : RowJustified(req[y].rows[b], req[y].rid, b)'
      BY <2>3 DEF BookInv, RowJustified
    <2>8. \A y \in Actor : pc'[y] \in Generating \cup {"idle", "due", "unlock"} => req'[y].rid = 0
      BY <2>3 DEF BookInv, Generating
    <2> QED BY <2>5, <2>6, <2>7, <2>8 DEF BookInv
  <1>6. CASE ApplyDecide(x)
    <2>1. /\ items' = [items EXCEPT ![req[x].rid] = req[x].rows]
          /\ UNCHANGED <<written, picked>>
          /\ pc' = [pc EXCEPT ![x] = "idle"] /\ req' = [req EXCEPT ![x] = Blank]
      BY <1>6 DEF ApplyDecide, Decide
    <2>2. \A r \in RunId, a \in Addr : RowJustified(items'[r][a], r, a)
      BY <2>1 DEF BookInv
    <2> QED BY <1>0, <2>1, <2>2 DEF BookInv, RowJustified
  <1> QED BY <1>1, <1>2, <1>3, <1>4, <1>5, <1>6 DEF Apply

\* Every step keeps each row justified.
LEMMA BookNext ==
    ASSUME TypeInv, BookInv, [Next]_vars
    PROVE  BookInv'
  <1> USE DEF TypeInv, TypeOK, tables, history
  <1>0. Blank.rid = 0 /\ \A a \in Addr : Blank.rows[a] = NoItem
    BY DEF Blank, NoRows
  <1>1. CASE UNCHANGED vars
    BY <1>1 DEF vars, BookInv, RowJustified
  <1>2. ASSUME NEW w \in Worker, Schedule(w) PROVE BookInv'
    BY <1>0, <1>2 DEF Schedule, SchedDue, SchedLock, SchedUnlock, Goto, Done, BookInv, RowJustified,
                      Generating
  <1>3. ASSUME NEW w \in Worker, Crash(w) PROVE BookInv'
    BY <1>0, <1>3 DEF Crash, BookInv, RowJustified
  <1>4. CASE Environment
    <2>1. UNCHANGED <<items, pc, req, written, picked>>
      BY <1>4 DEF Environment, EditItop, Release, EditDns, FlipWrite, NewSlot
    <2> QED BY <2>1 DEF BookInv, RowJustified
  <1>5. ASSUME NEW x \in Admin, HandlerFails(x) PROVE BookInv'
    BY <1>0, <1>5 DEF HandlerFails, Done, Goto, Actor, BookInv, RowJustified
  <1> QED BY <1>1, <1>2, <1>3, <1>4, <1>5, BookGenerate, BookReview, BookIgnoring, BookApply DEF Next

\* There are no rows at first.
LEMMA BookInit == Init => BookInv
  BY DEF Init, BookInv, RowJustified, Blank, NoRows, RunId

\* Each row of a table or of a copy is justified at any time.
LEMMA BookAlways == Spec => []BookInv
  <1>1. TypeInv /\ BookInv /\ [Next]_vars => BookInv'
    BY BookNext
  <1> QED BY <1>1, BookInit, TypeInit, TypeNext, PTL DEF Spec

\* However many releases and reviews race and whatever fails, a run records "ok"
\* only for a row that iTop took over.
THEOREM OkRowsWereWritten == Spec => []OkMeansWritten
  <1>1. BookInv => OkMeansWritten
    BY DEF BookInv, RowJustified, OkMeansWritten
  <1> QED BY <1>1, BookAlways, PTL

\* However many stale copies are stored back, a row that replaces a name is
\* ticked only if an admin ticked it.
THEOREM MismatchNeedsAdmin == Spec => []MismatchSelectedByAdmin
  <1>1. BookInv => MismatchSelectedByAdmin
    BY DEF BookInv, RowJustified, MismatchSelectedByAdmin
  <1> QED BY <1>1, BookAlways, PTL
----------------------------------------------------------------------------
(* The scheduler: the advisory lock, one run per slot *)

\* A worker that generates, or is about to unlock, holds the advisory lock; no
\* admin request stands in the scheduler.
LockInv == /\ \A w \in Worker : pc[w] \in Generating \cup {"unlock"} => lock = w
           /\ \A x \in Admin : pc[x] \notin {"due", "unlock"}

\* Every step keeps the lock with the worker that creates.
LEMMA LockNext ==
    ASSUME TypeInv, LockInv, [Next]_vars
    PROVE  LockInv'
  <1> USE ActorAssumption DEF Goto, Done, Actor, TypeInv, TypeOK, Generating
  <1>1. CASE UNCHANGED vars
    BY <1>1 DEF vars, LockInv
  <1>2. ASSUME NEW x \in Actor, Generate(x) PROVE LockInv'
    BY <1>2 DEF Generate, GenRead, GenFail, GenIgnored, GenDns, GenBegin, GenCommit, AfterGen, LockInv
  <1>3. ASSUME NEW x \in Admin, Review(x) \/ Ignoring(x) \/ Apply(x)
        PROVE  /\ UNCHANGED lock /\ pc'[x] \notin {"due", "unlock"}
               /\ \A y \in Actor \ {x} : pc'[y] = pc[y]
    <2>1. CASE Review(x)
      BY <1>3, <2>1 DEF Review, CreateRun, ToggleGet, ToggleSet, DiscardGet, DiscardSet
    <2>2. CASE Ignoring(x)
      BY <1>3, <2>2 DEF Ignoring, IgnoreAdd, IgnoreList, IgnoreGet, IgnoreSet, Unignore
    <2>3. CASE Apply(x)
      BY <1>3, <2>3 DEF Apply, ApplyGet, ApplyCheck, ApplyDns, RowGet, RowPut, ApplyDecide
    <2> QED BY <1>3, <2>1, <2>2, <2>3
  <1>4. ASSUME NEW w \in Worker, Schedule(w) PROVE LockInv'
    BY <1>4 DEF Schedule, SchedDue, SchedLock, SchedUnlock, LockFree, LockInv
  <1>5. ASSUME NEW w \in Worker, Crash(w) PROVE LockInv'
    BY <1>5 DEF Crash, LockInv
  <1>6. CASE Environment
    BY <1>6 DEF Environment, EditItop, Release, EditDns, FlipWrite, NewSlot, LockInv
  <1>7. ASSUME NEW x \in Admin, HandlerFails(x) PROVE LockInv'
    BY <1>7 DEF HandlerFails, LockInv
  <1> QED BY <1>1, <1>2, <1>3, <1>4, <1>5, <1>6, <1>7 DEF Next, LockInv

\* Who creates a list holds the lock, at any time.
LEMMA LockAlways == Spec => [](TypeInv /\ LockInv)
  <1>1. Init => LockInv
    BY DEF Init, LockInv, Generating, Actor
  <1>2. TypeInv /\ LockInv /\ [Next]_vars => LockInv'
    BY LockNext
  <1> QED BY <1>1, <1>2, TypeInit, TypeNext, PTL DEF Spec

\* From the moment a worker finds a slot due until its run is stored, no
\* scheduled run is that young; rows not created yet have no slot.
SlotInv ==
    /\ \A r \in RunId : schedSlot[r] <= slot /\ (r > runs => schedSlot[r] = 0)
    /\ \A w \in Worker : pc[w] \in Generating \cup {"due"} => \A r \in RunId : schedSlot[r] < slot
    /\ \A w \in Worker : pc[w] = "gen_commit" => \A r \in RunId : schedSlot[r] < req[w].at
    /\ \A w \in Worker : req[w].at <= slot
    /\ ScheduledOnce

\* Every step keeps the slots of the scheduled runs apart, with one worker.
LEMMA SlotNext ==
    ASSUME TypeInv, SlotInv, \A v, w \in Worker : v = w, [Next]_vars
    PROVE  SlotInv'
  <1> USE ActorAssumption, BoundAssumption DEF Goto, Done, Actor, tables, TypeInv, TypeOK
  <1>1. CASE UNCHANGED vars
    BY <1>1 DEF vars, SlotInv, ScheduledOnce
  <1>2. ASSUME NEW w \in Worker, GenRead(w) \/ GenFail(w) \/ GenIgnored(w) \/ GenDns(w) PROVE SlotInv'
    <2>1. UNCHANGED <<schedSlot, runs, slot>> /\ pc[w] \in Generating /\ pc'[w] # "gen_commit"
      BY <1>2 DEF GenRead, GenFail, GenIgnored, GenDns, AfterGen, Generating
    <2>2. req'[w].at \in {req[w].at, 0}
      <3>1. CASE GenRead(w)
        BY <3>1 DEF GenRead, Local
      <3>2. CASE GenFail(w)
        BY <3>2 DEF GenFail, Blank
      <3>3. CASE GenIgnored(w)
        BY <3>3 DEF GenIgnored, Local
      <3>4. CASE GenDns(w)
        <4>1. PICK rows : req' = [req EXCEPT ![w] = [Blank EXCEPT !.rows = rows]]
          BY <3>4 DEF GenDns
        <4> QED BY <4>1 DEF Blank
      <3> QED BY <1>2, <3>1, <3>2, <3>3, <3>4
    <2>3. 0 <= slot /\ \A v \in Worker : v = w
      OBVIOUS
    <2> QED BY <2>1, <2>2, <2>3 DEF SlotInv, ScheduledOnce
  <1>3. ASSUME NEW w \in Worker, GenBegin(w) PROVE SlotInv'
    <2>1. UNCHANGED <<schedSlot, runs, slot>> /\ pc[w] = "gen_begin" /\ pc' = [pc EXCEPT ![w] = "gen_commit"]
          /\ req' = [req EXCEPT ![w].left = Open, ![w].at = slot, ![w].from = runs]
      BY <1>3 DEF GenBegin
    <2>2. req'[w].at = slot /\ slot <= slot
      BY <2>1 DEF Local
    <2> QED BY <2>1, <2>2 DEF SlotInv, ScheduledOnce, Generating
  <1>4. ASSUME NEW w \in Worker, GenCommit(w) PROVE SlotInv'
    <2> DEFINE r == runs + 1
    <2>1. /\ pc[w] = "gen_commit" /\ pc'[w] = "unlock" /\ r \in RunId /\ runs' = r
          /\ schedSlot' = [schedSlot EXCEPT ![r] = req[w].at]
          /\ UNCHANGED slot /\ req' = [req EXCEPT ![w] = Blank]
      BY <1>4 DEF GenCommit, AfterGen, RunId
    <2>2. req[w].at \in 0..MaxSlot /\ req'[w].at = 0 /\ 0 <= slot
      BY <2>1 DEF Local, Blank
    <2>3. \A s \in RunId : schedSlot[s] < req[w].at /\ req[w].at <= slot
      BY <2>1 DEF SlotInv
    <2>4. \A s \in RunId : schedSlot'[s] <= slot /\ (s > r => schedSlot'[s] = 0)
      BY <2>1, <2>2, <2>3 DEF SlotInv, RunId
    <2>5. ScheduledOnce'
      BY <2>1, <2>2, <2>3 DEF SlotInv, ScheduledOnce
    <2> QED BY <2>1, <2>2, <2>4, <2>5 DEF SlotInv, Generating
  <1>5. ASSUME NEW x \in Admin, GenCommit(x) PROVE SlotInv'
    <2> DEFINE r == runs + 1
    <2>0. x \notin Worker
      OBVIOUS
    <2>1. /\ r \in RunId /\ runs' = r /\ schedSlot' = [schedSlot EXCEPT ![r] = 0] /\ UNCHANGED slot
          /\ \A y \in Actor \ {x} : pc'[y] = pc[y] /\ req'[y] = req[y]
      BY <1>5, <2>0 DEF GenCommit, RunId
    <2>2. schedSlot[r] = 0
      BY <2>1 DEF SlotInv
    <2>3. \A s \in RunId : schedSlot'[s] = schedSlot[s]
      BY <2>1, <2>2
    <2>4. \A w \in Worker : w \in Actor \ {x}
      OBVIOUS
    <2>5. \A w \in Worker : pc'[w] = pc[w] /\ req'[w] = req[w]
      BY <2>1, <2>4
    <2>6. \A s \in RunId : s > runs' => s > runs
      BY <2>1 DEF RunId
    <2> QED BY <2>1, <2>3, <2>5, <2>6 DEF SlotInv, ScheduledOnce
  <1>6. ASSUME NEW x \in Admin, (Generate(x) /\ ~ GenCommit(x)) \/ Review(x) \/ Ignoring(x) \/ Apply(x)
                            \/ HandlerFails(x)
        PROVE  SlotInv'
    <2>1. UNCHANGED <<schedSlot, runs, slot>> /\ \A y \in Actor \ {x} : pc'[y] = pc[y] /\ req'[y] = req[y]
      <3>1. CASE Generate(x) /\ ~ GenCommit(x)
        BY <3>1 DEF Generate, GenRead, GenFail, GenIgnored, GenDns, GenBegin
      <3>2. CASE Review(x)
        <4>1. CASE CreateRun(x)
          BY <4>1 DEF CreateRun
        <4>2. CASE ToggleGet(x)
          BY <4>2 DEF ToggleGet
        <4>3. CASE ToggleSet(x)
          BY <4>3 DEF ToggleSet
        <4>4. CASE DiscardGet(x)
          BY <4>4 DEF DiscardGet
        <4>5. CASE DiscardSet(x)
          BY <4>5 DEF DiscardSet
        <4> QED BY <3>2, <4>1, <4>2, <4>3, <4>4, <4>5 DEF Review
      <3>3. CASE Ignoring(x)
        BY <3>3 DEF Ignoring, IgnoreAdd, IgnoreList, IgnoreGet, IgnoreSet, Unignore
      <3>4. CASE Apply(x)
        BY <3>4 DEF Apply, ApplyGet, ApplyCheck, ApplyDns, RowGet, RowPut, ApplyDecide
      <3>5. CASE HandlerFails(x)
        BY <3>5 DEF HandlerFails
      <3> QED BY <1>6, <3>1, <3>2, <3>3, <3>4, <3>5
    <2>2. \A w \in Worker : w \in Actor \ {x}
      OBVIOUS
    <2>3. \A w \in Worker : pc'[w] = pc[w] /\ req'[w] = req[w]
      BY <2>1, <2>2
    <2> QED BY <2>1, <2>3 DEF SlotInv, ScheduledOnce
  <1>7. ASSUME NEW w \in Worker, SchedDue(w) PROVE SlotInv'
    <2>1. UNCHANGED <<schedSlot, runs, slot, req>> /\ pc' = [pc EXCEPT ![w] = "due"]
      BY <1>7 DEF SchedDue
    <2>2. \A s \in RunId : schedSlot[s] < slot
      BY <1>7 DEF SchedDue, SchedServed
    <2> QED BY <2>1, <2>2 DEF SlotInv, ScheduledOnce, Generating
  <1>8. ASSUME NEW w \in Worker, SchedLock(w) \/ SchedUnlock(w) PROVE SlotInv'
    <2>1. UNCHANGED <<schedSlot, runs, slot>> /\ req'[w] \in {req[w], Blank}
      BY <1>8 DEF SchedLock, SchedUnlock
    <2>2. pc[w] \in {"due", "unlock"} /\ (pc[w] = "unlock" => pc'[w] = "idle")
          /\ pc'[w] \in {"gen_read", "idle"}
      BY <1>8 DEF SchedLock, SchedUnlock
    <2>3. Blank.at = 0 /\ 0 <= slot /\ \A v \in Worker : v = w
      BY DEF Blank
    <2> QED BY <2>1, <2>2, <2>3 DEF SlotInv, ScheduledOnce, Generating
  <1>9. ASSUME NEW w \in Worker, Crash(w) PROVE SlotInv'
    <2>1. UNCHANGED <<schedSlot, runs, slot>> /\ pc'[w] = "idle" /\ req'[w] = Blank
      BY <1>9 DEF Crash
    <2>2. Blank.at = 0 /\ 0 <= slot /\ \A v \in Worker : v = w
      BY DEF Blank
    <2> QED BY <2>1, <2>2 DEF SlotInv, ScheduledOnce, Generating
  <1>10. CASE Environment
    <2>1. UNCHANGED <<schedSlot, runs, pc, req>> /\ slot' \in {slot, slot + 1}
      BY <1>10 DEF Environment, EditItop, Release, EditDns, FlipWrite, NewSlot
    <2>2. slot <= slot' /\ \A w \in Worker : req[w].at \in 0..MaxSlot
      BY <2>1 DEF Local
    <2> QED BY <2>1, <2>2 DEF SlotInv, ScheduledOnce
  <1> QED
    BY <1>1, <1>2, <1>3, <1>4, <1>5, <1>6, <1>7, <1>8, <1>9, <1>10 DEF Next, Generate, Schedule

\* A single API worker makes one list per slot, in spite of crashes and of admins
\* who make lists of their own.
THEOREM OneRunPerSlot ==
    ASSUME \A v, w \in Worker : v = w
    PROVE  Spec => []ScheduledOnce
  <1>1. Init => SlotInv
    BY BoundAssumption DEF Init, SlotInv, ScheduledOnce, Blank, Generating, Actor, RunId
  <1>2. TypeInv /\ SlotInv /\ [Next]_vars => SlotInv'
    BY SlotNext
  <1>3. SlotInv => ScheduledOnce
    BY DEF SlotInv
  <1> QED BY <1>1, <1>2, <1>3, TypeInit, TypeNext, PTL DEF Spec
----------------------------------------------------------------------------
(* Runs are numbered as they are created *)

\* The rows of dns_sync_run are numbered as they are created, and a handler knows no others.
Known(l) == l.rid <= runs /\ \A r \in l.left : r <= runs
KnownInv ==
    /\ \A r \in RunId : r > runs => status[r] = "none"
    /\ \A x \in Actor : Known(req[x])

\* The run created gets the next number.
LEMMA KnownGenerate == ASSUME TypeInv, KnownInv, NEW x \in Actor, Generate(x) PROVE KnownInv'
  <1> USE DEF Goto, Done, tables, history, TypeInv, TypeOK
  <1>0. /\ runs \in Nat /\ Blank.rid = 0 /\ Blank.left = {} /\ req[x] \in Local
        /\ Known(req[x]) /\ \A r \in Open : r <= runs
    BY BoundAssumption DEF Blank, KnownInv, Open, RunId
  <1>1. ASSUME GenRead(x) \/ GenFail(x) \/ GenIgnored(x) \/ GenDns(x) \/ GenBegin(x)
        PROVE  KnownInv'
    <2>1. UNCHANGED <<status, runs>> /\ \A y \in Actor \ {x} : req'[y] = req[y]
      BY <1>1 DEF GenRead, GenFail, GenIgnored, GenDns, GenBegin
    <2>2. Known(req'[x])
      <3>1. CASE GenRead(x)
        BY <1>0, <3>1 DEF GenRead, Local, Known
      <3>2. CASE GenFail(x)
        BY <1>0, <3>2 DEF GenFail, Known
      <3>3. CASE GenIgnored(x)
        BY <1>0, <3>3 DEF GenIgnored, Local, Known
      <3>4. CASE GenDns(x)
        <4>1. PICK rows : req' = [req EXCEPT ![x] = [Blank EXCEPT !.rows = rows]]
          BY <3>4 DEF GenDns
        <4>2. [Blank EXCEPT !.rows = rows].rid = 0 /\ [Blank EXCEPT !.rows = rows].left = {}
          BY DEF Blank
        <4> QED BY <1>0, <4>1, <4>2 DEF Known
      <3>5. CASE GenBegin(x)
        BY <1>0, <3>5 DEF GenBegin, Local, Known
      <3> QED BY <1>1, <3>1, <3>2, <3>3, <3>4, <3>5
    <2> QED BY <1>0, <2>1, <2>2 DEF KnownInv, Known
  <1>2. ASSUME GenCommit(x) PROVE KnownInv'
    <2>1. /\ runs' = runs + 1 /\ req' = [req EXCEPT ![x] = Blank]
          /\ status' = [s \in RunId |-> IF s = runs + 1 THEN "open"
                                        ELSE IF s \in Superseded(x) THEN "superseded" ELSE status[s]]
      BY <1>2 DEF GenCommit
    <2>2. \A s \in RunId : s > runs + 1 => s > runs /\ s # runs + 1
      BY <1>0 DEF RunId
    <2>3. \A s \in RunId : s > runs + 1 => status'[s] = "none"
      BY <2>1, <2>2 DEF KnownInv, Superseded, Open
    <2>4. ASSUME NEW y \in Actor PROVE Known(req[y])'
      <3>1. req'[y].rid \in 0..MaxRun /\ req'[y].left \in SUBSET RunId
        BY <1>0, <2>1, BlankType, BoundAssumption DEF Local
      <3>2. req'[y].rid <= runs /\ \A r \in req'[y].left : r <= runs
        BY <1>0, <2>1 DEF KnownInv, Known
      <3> QED BY <1>0, <2>1, <3>1, <3>2, BoundAssumption DEF Known, RunId
    <2> QED BY <2>1, <2>3, <2>4 DEF KnownInv
  <1> QED BY <1>1, <1>2 DEF Generate

\* A request takes a run in hand that exists.
LEMMA KnownGet ==
    ASSUME TypeInv, KnownInv, NEW x \in Admin,
           \/ ToggleGet(x) \/ DiscardGet(x) \/ ApplyGet(x)
           \/ IgnoreAdd(x) \/ IgnoreList(x) \/ IgnoreGet(x)
    PROVE  KnownInv'
  <1> USE DEF Goto, Done, Actor, tables, history, TypeInv, TypeOK
  <1>0. /\ runs \in Nat /\ Blank.rid = 0 /\ Blank.left = {} /\ req[x] \in Local
        /\ Known(req[x]) /\ \A r \in Open : r <= runs
    BY BoundAssumption DEF Blank, KnownInv, Open, RunId
  <1>1. UNCHANGED <<status, runs>> /\ \A y \in Actor \ {x} : req'[y] = req[y]
    BY DEF ToggleGet, DiscardGet, ApplyGet, IgnoreAdd, IgnoreList, IgnoreGet
  <1>2. Known(req'[x])
    <2>1. CASE ToggleGet(x)
      <3>1. PICK r \in Open, ids \in (SUBSET Addr) \ {{}}, on \in BOOLEAN :
               req' = [req EXCEPT ![x].rid = r, ![x].rows = Toggled(items[r], ids, on)]
        BY <2>1 DEF ToggleGet
      <3>2. req'[x].rid = r /\ req'[x].left = req[x].left
        BY <1>0, <3>1 DEF Local
      <3> QED BY <1>0, <3>2 DEF Known
    <2>2. CASE DiscardGet(x)
      <3>1. PICK r \in Open : req' = [req EXCEPT ![x].rid = r]
        BY <2>2 DEF DiscardGet
      <3>2. req'[x].rid = r /\ req'[x].left = req[x].left
        BY <1>0, <3>1 DEF Local
      <3> QED BY <1>0, <3>2 DEF Known
    <2>3. CASE ApplyGet(x)
      <3>1. PICK r \in Open : req' = [req EXCEPT ![x].rid = r, ![x].rows = items[r]]
        BY <2>3 DEF ApplyGet, Passes
      <3>2. req'[x].rid = r /\ req'[x].left = req[x].left
        BY <1>0, <3>1 DEF Local
      <3> QED BY <1>0, <3>2 DEF Known
    <2>4. CASE IgnoreAdd(x)
      <3>1. PICK a : req' = [req EXCEPT ![x].row = a]
        BY <2>4 DEF IgnoreAdd
      <3>2. req'[x].rid = req[x].rid /\ req'[x].left = req[x].left
        BY <1>0, <3>1 DEF Local
      <3> QED BY <1>0, <3>2 DEF Known
    <2>5. CASE IgnoreList(x)
      <3>1. req'[x].rid = req[x].rid /\ req'[x].left \subseteq Open
        BY <1>0, <2>5 DEF Local, IgnoreList
      <3> QED BY <1>0, <3>1 DEF Known
    <2>6. CASE IgnoreGet(x)
      <3>1. CASE req' = [req EXCEPT ![x] = Blank]
        BY <1>0, <3>1 DEF Known
      <3>2. CASE req' # [req EXCEPT ![x] = Blank]
        <4>1. PICK r \in req[x].left :
                    req' = [req EXCEPT ![x].rid = r, ![x].left = @ \ {r},
                                       ![x].rows = [items[r] EXCEPT ![req[x].row] = NoItem]]
          BY <2>6, <3>2 DEF IgnoreGet
        <4>2. req'[x].rid = r /\ req'[x].left = req[x].left \ {r}
          BY <1>0, <4>1 DEF Local
        <4> QED BY <1>0, <4>2 DEF Known
      <3> QED BY <3>1, <3>2
    <2> QED BY <2>1, <2>2, <2>3, <2>4, <2>5, <2>6
  <1> QED BY <1>1, <1>2 DEF KnownInv, Known

\* A handler forgets its run, or keeps it and gets on.
LEMMA KnownPut ==
    ASSUME TypeInv, KnownInv, NEW x \in Admin,
           \/ CreateRun(x) \/ ToggleSet(x) \/ DiscardSet(x) \/ IgnoreSet(x) \/ Unignore(x)
           \/ ApplyCheck(x) \/ ApplyDns(x) \/ RowGet(x) \/ RowPut(x) \/ ApplyDecide(x) \/ HandlerFails(x)
    PROVE  KnownInv'
  <1> USE DEF Goto, Done, Actor, tables, history, TypeInv, TypeOK
  <1>0. /\ runs \in Nat /\ Blank.rid = 0 /\ Blank.left = {} /\ req[x] \in Local
        /\ Known(req[x])
    BY DEF Blank, KnownInv
  <1>1. UNCHANGED runs /\ \A y \in Actor \ {x} : req'[y] = req[y]
    BY DEF CreateRun, ToggleSet, DiscardSet, IgnoreSet, Unignore, ApplyCheck, ApplyDns, RowGet, RowPut,
           ApplyDecide, HandlerFails
  <1>2. Known(req'[x])
    <2>1. req' = [req EXCEPT ![x] = Blank] \/ (req'[x].rid = req[x].rid /\ req'[x].left = req[x].left)
      <3>1. CASE CreateRun(x) \/ ToggleSet(x) \/ DiscardSet(x) \/ IgnoreSet(x) \/ Unignore(x)
                 \/ ApplyCheck(x) \/ ApplyDecide(x) \/ HandlerFails(x)
        BY <3>1 DEF CreateRun, ToggleSet, DiscardSet, IgnoreSet, Unignore, ApplyCheck, ApplyDecide,
                    HandlerFails
      <3>2. CASE ApplyDns(x)
        <4>1. UNCHANGED req \/ \E d : req' = [req EXCEPT ![x].dns = d]
          BY <3>2 DEF ApplyDns
        <4> QED BY <1>0, <4>1 DEF Local
      <3>3. CASE RowGet(x)
        <4>1. (\E a : req' = [req EXCEPT ![x].row = a]) \/ (\E rows : req' = [req EXCEPT ![x].rows = rows])
          BY <3>3 DEF RowGet
        <4> QED BY <1>0, <4>1 DEF Local
      <3>4. CASE RowPut(x)
        <4>1. \E rows : req' = [req EXCEPT ![x].rows = rows, ![x].row = NoAddr]
          BY <3>4 DEF RowPut
        <4> QED BY <1>0, <4>1 DEF Local
      <3> QED BY <3>1, <3>2, <3>3, <3>4
    <2> QED BY <1>0, <2>1 DEF Known
  <1>3. \A r \in RunId : r > runs => status'[r] = "none"
    <2>1. UNCHANGED status \/ \E s : status' = [status EXCEPT ![req[x].rid] = s]
      BY DEF CreateRun, ToggleSet, DiscardSet, IgnoreSet, Unignore, ApplyCheck, ApplyDns, RowGet, RowPut,
             ApplyDecide, Decide, HandlerFails
    <2>2. req[x].rid <= runs /\ req[x].rid \in 0..MaxRun
      BY <1>0 DEF Known, Local
    <2>3. \A r \in RunId : r > runs => r # req[x].rid
      BY <1>0, <2>2, BoundAssumption DEF RunId
    <2> QED BY <2>1, <2>3 DEF KnownInv
  <1> QED BY <1>1, <1>2, <1>3 DEF KnownInv, Known

\* Every step keeps to runs that exist.
LEMMA KnownNext == ASSUME TypeInv, KnownInv, [Next]_vars PROVE KnownInv'
  <1> USE DEF Goto, Done, Actor, tables, history, TypeInv, TypeOK
  <1>0. runs \in Nat /\ Blank.rid = 0 /\ Blank.left = {}
    BY DEF Blank
  <1>1. CASE UNCHANGED vars
    BY <1>1 DEF vars, KnownInv, Known
  <1>2. ASSUME NEW w \in Worker, Schedule(w) PROVE KnownInv'
    BY <1>0, <1>2 DEF Schedule, SchedDue, SchedLock, SchedUnlock, KnownInv, Known
  <1>3. ASSUME NEW w \in Worker, Crash(w) PROVE KnownInv'
    BY <1>0, <1>3 DEF Crash, KnownInv, Known
  <1>4. CASE Environment
    BY <1>4 DEF Environment, EditItop, Release, EditDns, FlipWrite, NewSlot, KnownInv, Known
  <1>5. ASSUME NEW x \in Admin, Review(x) \/ Ignoring(x) \/ Apply(x) \/ HandlerFails(x) PROVE KnownInv'
    BY <1>5, KnownGet, KnownPut DEF Review, Ignoring, Apply
  <1> QED BY <1>1, <1>2, <1>3, <1>4, <1>5, KnownGenerate DEF Next

\* There are no runs at first.
LEMMA KnownInit == Init => KnownInv
  BY DEF Init, KnownInv, Known, Blank

----------------------------------------------------------------------------
(* Lists that are open together *)

\* The transaction of store.create has in `left` every open run that was there at its
\* start, and a worker's, which holds the lock, every open run of the scheduler.
OverlapInv ==
    /\ \A x \in Actor : pc[x] = "gen_commit" =>
          /\ req[x].from <= runs
          /\ \A r \in Open : r <= req[x].from => r \in req[x].left
          /\ x \in Worker => \A r \in Open : schedSlot[r] # 0 => r \in req[x].left
    /\ OpenOnlyIfOverlapping

\* Steps that neither begin nor end a transaction of store.create open no run.
LEMMA OverlapFrame ==
    ASSUME TypeInv, OverlapInv, UNCHANGED <<schedSlot, born, runs>>, Open' \subseteq Open,
           \A y \in Actor : pc'[y] = "gen_commit" => pc[y] = "gen_commit" /\ req'[y] = req[y]
    PROVE  OverlapInv'
  BY DEF OverlapInv, OpenOnlyIfOverlapping

\* The other steps of an actor are of that kind.
LEMMA OverlapQuiet ==
    ASSUME TypeInv, NEW x \in Actor,
           \/ GenRead(x) \/ GenFail(x) \/ GenIgnored(x) \/ GenDns(x)
           \/ x \in Admin /\ (Review(x) \/ Ignoring(x) \/ Apply(x) \/ HandlerFails(x))
           \/ x \in Worker /\ Schedule(x)
    PROVE  /\ UNCHANGED <<schedSlot, born, runs>> /\ Open' \subseteq Open
           /\ \A y \in Actor : pc'[y] = "gen_commit" => pc[y] = "gen_commit" /\ req'[y] = req[y]
  <1> USE DEF Goto, Done, tables, TypeInv, TypeOK
  <1>1. CASE GenRead(x) \/ GenFail(x) \/ GenIgnored(x) \/ GenDns(x)
    BY <1>1 DEF GenRead, GenFail, GenIgnored, GenDns, AfterGen, Open
  <1>2. CASE x \in Admin /\ Review(x)
    BY <1>2 DEF Review, CreateRun, ToggleGet, ToggleSet, DiscardGet, DiscardSet, Decide, Open
  <1>3. CASE x \in Admin /\ Ignoring(x)
    BY <1>3 DEF Ignoring, IgnoreAdd, IgnoreList, IgnoreGet, IgnoreSet, Unignore, Open
  <1>4. CASE x \in Admin /\ Apply(x)
    BY <1>4 DEF Apply, ApplyGet, ApplyCheck, ApplyDns, RowGet, RowPut, ApplyDecide, Decide, Verdict, Open
  <1>5. CASE x \in Admin /\ HandlerFails(x)
    BY <1>5 DEF HandlerFails, Open
  <1>6. CASE x \in Worker /\ Schedule(x)
    BY <1>6 DEF Schedule, SchedDue, SchedLock, SchedUnlock, Open
  <1> QED BY <1>1, <1>2, <1>3, <1>4, <1>5, <1>6

\* Every step keeps the lists that are open together to those whose creations overlapped.
LEMMA OverlapNext ==
    ASSUME TypeInv, LockInv, KnownInv, OverlapInv, [Next]_vars
    PROVE  OverlapInv'
  <1> USE ActorAssumption DEF Goto, Done, tables, TypeInv, TypeOK
  <1>1. CASE UNCHANGED vars
    BY <1>1, OverlapFrame DEF vars, Open
  <1>2. ASSUME NEW x \in Actor, GenBegin(x) PROVE OverlapInv'
    <2>1. /\ UNCHANGED <<status, schedSlot, born, runs>> /\ pc' = [pc EXCEPT ![x] = "gen_commit"]
          /\ req' = [req EXCEPT ![x].left = Open, ![x].at = slot, ![x].from = runs]
      BY <1>2 DEF GenBegin
    <2>2. req'[x].left = Open /\ req'[x].from = runs /\ Open' = Open /\ runs <= runs
      <3>1. req[x] \in Local
        OBVIOUS
      <3>2. req'[x] = [req[x] EXCEPT !.left = Open, !.at = slot, !.from = runs]
        BY <2>1
      <3>3. req'[x].left = Open /\ req'[x].from = runs
        BY <3>1, <3>2 DEF Local
      <3>4. runs <= runs
        BY BoundAssumption
      <3>5. Open' = Open
        BY <2>1 DEF Open
      <3> QED BY <3>3, <3>4, <3>5
    <2>3. \A y \in Actor \ {x} : pc'[y] = pc[y] /\ req'[y] = req[y]
      BY <2>1
    <2> QED BY <2>1, <2>2, <2>3 DEF OverlapInv, OpenOnlyIfOverlapping
  <1>3. ASSUME NEW x \in Actor, GenCommit(x) PROVE OverlapInv'
    <2> DEFINE n == runs + 1
    <2>1. /\ pc[x] = "gen_commit" /\ pc'[x] # "gen_commit" /\ runs' = n
          /\ \A y \in Actor \ {x} : pc'[y] = pc[y] /\ req'[y] = req[y]
          /\ status' = [s \in RunId |-> IF s = n THEN "open"
                                        ELSE IF s \in Superseded(x) THEN "superseded" ELSE status[s]]
          /\ schedSlot' = [schedSlot EXCEPT ![n] = IF x \in Worker THEN req[x].at ELSE 0]
          /\ born' = [born EXCEPT ![n] = req[x].from]
      BY <1>3 DEF GenCommit, AfterGen
    <2>2. n \in RunId /\ runs \in Nat /\ \A r \in Open : r <= runs
      BY <1>3, BoundAssumption DEF GenCommit, KnownInv, Open, RunId
    <2>3. \A r \in Open' : r = n \/ r \in Open \ req[x].left
      BY <2>1 DEF Open, Superseded
    <2>4. \A r \in Open : schedSlot'[r] = schedSlot[r] /\ born'[r] = born[r]
      BY <2>1, <2>2
    <2>5. /\ born'[n] = req[x].from /\ req[x].from \in 0..MaxRun
          /\ schedSlot'[n] # 0 => x \in Worker
      BY <2>1, <2>2 DEF Local
    <2>6. ASSUME NEW r \in Open', NEW s \in Open', r < s
          PROVE  born'[s] < r /\ ~ (schedSlot'[r] # 0 /\ schedSlot'[s] # 0)
      <3>0. r \in Nat /\ s \in Nat
        BY DEF Open, RunId
      <3>1. CASE s = n
        <4>1. r \in Open \ req[x].left
          BY <2>2, <2>3, <2>6, <3>0, <3>1
        <4>2. ~ (r <= req[x].from) /\ (x \in Worker => schedSlot[r] = 0)
          BY <2>1, <4>1 DEF OverlapInv
        <4> QED BY <2>4, <2>5, <3>0, <3>1, <4>1, <4>2
      <3>2. CASE s # n
        <4>1. s \in Open /\ r \in Open
          BY <2>2, <2>3, <2>6, <3>0, <3>2
        <4> QED BY <2>4, <2>6, <4>1 DEF OverlapInv, OpenOnlyIfOverlapping
      <3> QED BY <3>1, <3>2
    <2>7. ASSUME NEW y \in Actor, pc'[y] = "gen_commit"
          PROVE  /\ req'[y].from <= runs'
                 /\ \A r \in Open' : r <= req'[y].from => r \in req'[y].left
                 /\ y \in Worker => \A r \in Open' : schedSlot'[r] # 0 => r \in req'[y].left
      <3>1. y # x /\ pc[y] = "gen_commit" /\ req'[y] = req[y]
        BY <2>1, <2>7
      <3>2. req[y].from \in 0..MaxRun /\ req[y].from <= runs
        BY <3>1 DEF OverlapInv, Local
      <3>3. y \in Worker => x \notin Worker
        BY <2>1, <3>1 DEF LockInv, Generating
      <3> QED BY <2>1, <2>2, <2>3, <2>4, <2>5, <3>1, <3>2, <3>3 DEF OverlapInv
    <2> QED BY <2>6, <2>7 DEF OverlapInv, OpenOnlyIfOverlapping
  <1>4. ASSUME NEW w \in Worker, Crash(w) PROVE OverlapInv'
    BY <1>4, OverlapFrame DEF Crash, Open
  <1>5. CASE Environment
    BY <1>5, OverlapFrame DEF Environment, EditItop, Release, EditDns, FlipWrite, NewSlot, Open
  <1> QED BY <1>1, <1>2, <1>3, <1>4, <1>5, OverlapQuiet, OverlapFrame DEF Next, Generate, Actor

\* Whoever creates lists, admins and workers of any number: two of them are open only if the
\* younger one's transaction began before the older was there, and never two of the
\* scheduler's, which its advisory lock keeps apart.
THEOREM ScheduledRunsSupersede == Spec => []OpenOnlyIfOverlapping
  <1>1. Init => OverlapInv
    BY DEF Init, OverlapInv, OpenOnlyIfOverlapping, Open
  <1>2. TypeInv /\ LockInv /\ KnownInv /\ OverlapInv /\ [Next]_vars => OverlapInv'
    BY OverlapNext
  <1>3. TypeInv /\ KnownInv /\ [Next]_vars => KnownInv'
    BY KnownNext
  <1>4. OverlapInv => OpenOnlyIfOverlapping
    BY DEF OverlapInv
  <1> QED BY <1>1, <1>2, <1>3, <1>4, KnownInit, LockAlways, PTL DEF Spec
----------------------------------------------------------------------------
(* What was written stays on record *)

\* A row that carries a result of its update.
Rec(i) == i # NoItem /\ i.result \in {"ok", "error"}

\* A run that is not blurred is released by one request at a time.  What was written is
\* noted in the copy that release works on, and once it is over in the run, which is then
\* closed for good.
RecordInv ==
    /\ \A x \in Admin : Applying(x) /\ req[x].rid \notin blurred =>
          /\ \A a \in Addr : <<req[x].rid, a>> \in written => pc[x] # "apply_check" /\ Rec(req[x].rows[a])
          /\ \A y \in Admin \ {x} : ~ (Applying(y) /\ req[y].rid = req[x].rid)
    /\ \A r \in RunId \ blurred, a \in Addr : <<r, a>> \in written =>
          \/ Rec(items[r][a]) /\ status[r] \notin {"none", "open"}
          \/ \E x \in Admin : Applying(x) /\ req[x].rid = r

\* Steps that neither release nor lose a recorded row.
LEMMA RecordFrame ==
    ASSUME RecordInv, UNCHANGED <<written, blurred>>,
           \A x \in Admin : Applying(x)' <=> Applying(x),
           \A x \in Admin : Applying(x) => pc'[x] = pc[x] /\ req'[x] = req[x],
           \A r \in RunId, a \in Addr :
              <<r, a>> \in written /\ Rec(items[r][a]) /\ status[r] \notin {"none", "open"}
                 => Rec(items'[r][a]) /\ status'[r] \notin {"none", "open"}
    PROVE  RecordInv'
  <1>1. ASSUME NEW x \in Admin, Applying(x)', req'[x].rid \notin blurred'
        PROVE  /\ \A a \in Addr : <<req'[x].rid, a>> \in written' =>
                     pc'[x] # "apply_check" /\ Rec(req'[x].rows[a])
               /\ \A y \in Admin \ {x} : ~ (Applying(y)' /\ req'[y].rid = req'[x].rid)
    BY <1>1 DEF RecordInv
  <1>2. ASSUME NEW r \in RunId \ blurred', NEW a \in Addr, <<r, a>> \in written'
        PROVE  \/ Rec(items'[r][a]) /\ status'[r] \notin {"none", "open"}
               \/ \E x \in Admin : Applying(x)' /\ req'[x].rid = r
    BY <1>2 DEF RecordInv
  <1> QED BY <1>1, <1>2 DEF RecordInv, Rec

\* A new list supersedes the open ones and leaves their rows as they are.
LEMMA RecordGenerate ==
    ASSUME TypeInv, KnownInv, RecordInv, NEW x \in Actor, Generate(x)
    PROVE  RecordInv'
  <1> USE DEF Goto, tables, history, TypeInv, TypeOK
  <1>1. CASE GenRead(x) \/ GenFail(x) \/ GenIgnored(x) \/ GenDns(x) \/ GenBegin(x)
    <2>1. /\ UNCHANGED <<status, items, written, blurred>> /\ ~ Applying(x) /\ ~ Applying(x)'
          /\ \A y \in Actor \ {x} : pc'[y] = pc[y] /\ req'[y] = req[y]
      BY <1>1 DEF GenRead, GenFail, GenIgnored, GenDns, GenBegin, Applying, AfterGen, Generating
    <2> QED BY <2>1, RecordFrame DEF Applying, Actor
  <1>2. CASE GenCommit(x)
    <2>1. /\ UNCHANGED <<written, blurred>> /\ ~ Applying(x) /\ ~ Applying(x)'
          /\ \A y \in Actor \ {x} : pc'[y] = pc[y] /\ req'[y] = req[y]
          /\ status' = [s \in RunId |-> IF s = runs + 1 THEN "open"
                                        ELSE IF s \in Superseded(x) THEN "superseded" ELSE status[s]]
          /\ items' = [items EXCEPT ![runs + 1] = req[x].rows]
      BY <1>2 DEF GenCommit, Applying, AfterGen
    <2>2. runs + 1 > runs
      BY BoundAssumption
    <2>3. ASSUME NEW r \in RunId, NEW a \in Addr, Rec(items[r][a]), status[r] \notin {"none", "open"}
          PROVE  Rec(items'[r][a]) /\ status'[r] \notin {"none", "open"}
      <3>1. r # runs + 1 /\ r \notin Superseded(x)
        BY <2>2, <2>3 DEF KnownInv, Superseded, Open
      <3> QED BY <2>1, <2>3, <3>1
    <2> QED BY <2>1, <2>3, RecordFrame DEF Applying, Actor
  <1> QED BY <1>1, <1>2 DEF Generate

\* Toggling and exempting change the rows of open runs only; a discard closes its run.
LEMMA RecordReview ==
    ASSUME TypeInv, RecordInv, NEW x \in Admin, Review(x) \/ Ignoring(x)
    PROVE  RecordInv'
  <1> USE DEF Goto, Done, tables, history, TypeInv, TypeOK, Actor
  <1>1. CASE \/ CreateRun(x) \/ ToggleGet(x) \/ DiscardGet(x) \/ IgnoreAdd(x) \/ IgnoreList(x)
             \/ IgnoreGet(x) \/ Unignore(x)
    <2>1. /\ UNCHANGED <<status, items, written, blurred>> /\ ~ Applying(x) /\ ~ Applying(x)'
          /\ \A y \in Actor \ {x} : pc'[y] = pc[y] /\ req'[y] = req[y]
      BY <1>1 DEF CreateRun, ToggleGet, DiscardGet, IgnoreAdd, IgnoreList, IgnoreGet, Unignore, Applying
    <2> QED BY <2>1, RecordFrame DEF Applying
  <1>2. CASE ToggleSet(x) \/ IgnoreSet(x)
    <2>1. /\ UNCHANGED <<status, written, blurred>> /\ ~ Applying(x) /\ ~ Applying(x)' /\ SetItems(x)
          /\ \A y \in Actor \ {x} : pc'[y] = pc[y] /\ req'[y] = req[y]
      BY <1>2 DEF ToggleSet, IgnoreSet, Applying
    <2>2. \A r \in RunId : status[r] # "open" => items'[r] = items[r]
      BY <2>1 DEF SetItems, StillEditable
    <2> QED BY <2>1, <2>2, RecordFrame DEF Applying
  <1>3. CASE DiscardSet(x)
    <2>1. /\ UNCHANGED <<written, blurred>> /\ ~ Applying(x) /\ ~ Applying(x)'
          /\ \A y \in Actor \ {x} : pc'[y] = pc[y] /\ req'[y] = req[y]
          /\ status' = [status EXCEPT ![req[x].rid] = "discarded"]
          /\ \A r \in RunId : items'[r] = items[r]
      BY <1>3 DEF DiscardSet, Decide, Applying
    <2> QED BY <2>1, RecordFrame DEF Applying
  <1> QED BY <1>1, <1>2, <1>3 DEF Review, Ignoring

\* A step of release x leaves the invariant if it keeps it for its own run and copy.
LEMMA RecordStep ==
    ASSUME TypeInv, RecordInv, NEW x \in Admin,
           \A y \in Admin \ {x} : pc'[y] = pc[y] /\ req'[y] = req[y],
           blurred \subseteq blurred',
           \A s \in RunId, a \in Addr : <<s, a>> \in written' \ written =>
              Applying(x) /\ Applying(x)' /\ s = req[x].rid,
           Applying(x)' /\ req'[x].rid \notin blurred' =>
              /\ \A a \in Addr : <<req'[x].rid, a>> \in written' =>
                    pc'[x] # "apply_check" /\ Rec(req'[x].rows[a])
              /\ \A y \in Admin \ {x} : ~ (Applying(y) /\ req[y].rid = req'[x].rid),
           Applying(x) /\ Applying(x)' => req'[x].rid = req[x].rid,
           \A s \in RunId \ blurred', a \in Addr :
              /\ <<s, a>> \in written'
              /\ (Rec(items[s][a]) /\ status[s] \notin {"none", "open"}) \/ (Applying(x) /\ ~ Applying(x)' /\ req[x].rid = s)
              => Rec(items'[s][a]) /\ status'[s] \notin {"none", "open"}
    PROVE  RecordInv'
  <1> USE DEF TypeInv, TypeOK, RowInHand, Actor
  <1>1. ASSUME NEW y \in Admin, Applying(y)', req'[y].rid \notin blurred'
        PROVE  /\ \A a \in Addr : <<req'[y].rid, a>> \in written' =>
                     pc'[y] # "apply_check" /\ Rec(req'[y].rows[a])
               /\ \A z \in Admin \ {y} : ~ (Applying(z)' /\ req'[z].rid = req'[y].rid)
    <2>1. CASE y = x
      BY <1>1, <2>1 DEF Applying
    <2>2. CASE y # x
      <3>1. Applying(y) /\ req[y].rid \notin blurred /\ req'[y].rid = req[y].rid /\ req'[y].rows = req[y].rows
            /\ pc'[y] = pc[y] /\ req[y].rid \in RunId
        BY <1>1, <2>2 DEF Applying
      <3>2. Applying(x) => req[x].rid # req[y].rid
        BY <2>2, <3>1 DEF RecordInv
      <3>3. Applying(x)' => req'[x].rid # req'[y].rid
        BY <1>1, <2>2, <3>1
      <3>4. \A a \in Addr : <<req[y].rid, a>> \in written' => <<req[y].rid, a>> \in written
        BY <3>1, <3>2
      <3>5. \A z \in Admin \ {y} : z # x => ~ (Applying(z)' /\ req'[z].rid = req'[y].rid)
        BY <3>1 DEF RecordInv, Applying
      <3> QED BY <3>1, <3>3, <3>4, <3>5 DEF RecordInv, Rec
    <2> QED BY <2>1, <2>2
  <1>2. ASSUME NEW s \in RunId \ blurred', NEW a \in Addr, <<s, a>> \in written'
        PROVE  \/ Rec(items'[s][a]) /\ status'[s] \notin {"none", "open"}
               \/ \E y \in Admin : Applying(y)' /\ req'[y].rid = s
    <2>1. CASE <<s, a>> \in written
      <3>1. CASE \E y \in Admin \ {x} : Applying(y) /\ req[y].rid = s
        BY <3>1 DEF Applying
      <3>2. CASE ~ \E y \in Admin \ {x} : Applying(y) /\ req[y].rid = s
        BY <1>2, <2>1, <3>2 DEF RecordInv
      <3> QED BY <3>1, <3>2
    <2>2. CASE <<s, a>> \notin written
      BY <1>2, <2>2
    <2> QED BY <2>1, <2>2
  <1> QED BY <1>1, <1>2 DEF RecordInv, Rec

\* A release notes each row it wrote in its copy and stores the copy at its end.
LEMMA RecordApply ==
    ASSUME TypeInv, RecordInv, NEW x \in Admin, Apply(x)
    PROVE  RecordInv'
  <1> USE DEF Goto, Done, tables, history, TypeInv, TypeOK, Actor, Applying
  <1> DEFINE r == req[x].rid
  <1>0. /\ req[x] \in Local /\ req[x].rows \in Rows
        /\ Applying(x) => r \in RunId
        /\ Applying(x) /\ r \notin blurred =>
              /\ \A a \in Addr : <<r, a>> \in written => pc[x] # "apply_check" /\ Rec(req[x].rows[a])
              /\ \A y \in Admin \ {x} : ~ (Applying(y) /\ req[y].rid = r)
    BY DEF Local, RowInHand, RecordInv, Rec
  <1>1. CASE ApplyGet(x)
    <2>1. PICK s \in Open :
             /\ req' = [req EXCEPT ![x].rid = s, ![x].rows = items[s]]
             /\ blurred' = blurred \cup {q \in {s} : \E y \in Admin : Applying(y) /\ req[y].rid = q}
      BY <1>1 DEF ApplyGet, Passes
    <2>2. /\ req'[x].rid = s /\ pc'[x] = "apply_check" /\ pc[x] = "idle" /\ s \in RunId
          /\ status[s] = "open" /\ UNCHANGED <<status, items, written>>
          /\ \A y \in Actor \ {x} : pc'[y] = pc[y] /\ req'[y] = req[y]
      BY <1>0, <1>1, <2>1 DEF ApplyGet, Local, Open
    <2>3. s \notin blurred' => \A y \in Admin : ~ (Applying(y) /\ req[y].rid = s)
      BY <2>1
    <2>4. s \notin blurred' => \A a \in Addr : <<s, a>> \notin written
      BY <2>1, <2>2, <2>3 DEF RecordInv
    <2> QED BY <1>0, <2>1, <2>2, <2>3, <2>4, RecordStep
  <1>2. CASE ApplyCheck(x)
    <2>1. r \notin blurred => \A a \in Addr : <<r, a>> \notin written
      BY <1>0, <1>2 DEF ApplyCheck
    <2>2. /\ UNCHANGED <<status, items, written, blurred>> /\ pc'[x] \in {"apply_dns", "idle"}
          /\ pc'[x] = "apply_dns" => req'[x] = req[x]
          /\ pc[x] = "apply_check" /\ \A y \in Actor \ {x} : pc'[y] = pc[y] /\ req'[y] = req[y]
      BY <1>2 DEF ApplyCheck
    <2> QED BY <1>0, <2>1, <2>2, RecordStep
  <1>3. CASE ApplyDns(x)
    <2>1. UNCHANGED req \/ \E d : req' = [req EXCEPT ![x].dns = d]
      BY <1>3 DEF ApplyDns
    <2>2. /\ req'[x].rid = r /\ req'[x].rows = req[x].rows /\ pc'[x] = "row_get" /\ pc[x] = "apply_dns"
          /\ UNCHANGED <<status, items, written, blurred>>
          /\ \A y \in Actor \ {x} : pc'[y] = pc[y] /\ req'[y] = req[y]
      BY <1>0, <1>3, <2>1 DEF ApplyDns, Local
    <2> QED BY <1>0, <2>2, RecordStep
  <1>4. CASE RowGet(x)
    <2>1. PICK a \in Pending(req[x].rows) :
             \/ req' = [req EXCEPT ![x].row = a]
             \/ \E res \in Result : req' = [req EXCEPT ![x].rows = WithResult(@, a, res)]
      BY <1>4 DEF RowGet, Result
    <2>2. /\ pc[x] = "row_get" /\ pc'[x] \in {"row_get", "row_put"} /\ req'[x].rid = r
          /\ UNCHANGED <<status, items, written, blurred>>
          /\ \A y \in Actor \ {x} : pc'[y] = pc[y] /\ req'[y] = req[y]
      BY <1>0, <1>4, <2>1 DEF RowGet, Local
    <2>3. a \in Addr /\ ~ Rec(req[x].rows[a])
      BY DEF Pending, Todo, Rec
    <2>4. \A b \in Addr : b # a => req'[x].rows[b] = req[x].rows[b]
      BY <1>0, <2>1, <2>3 DEF Local, WithResult, Rows
    <2>5. r \notin blurred => \A b \in Addr : <<r, b>> \in written => Rec(req'[x].rows[b])
      BY <1>0, <2>2, <2>3, <2>4
    <2> QED BY <1>0, <2>2, <2>5, RecordStep
  <1>5. CASE RowPut(x)
    <2> DEFINE a == req[x].row
    <2>1. PICK res \in {"ok", "error"} :
             req' = [req EXCEPT ![x].rows = WithResult(@, a, res), ![x].row = NoAddr]
      BY <1>5 DEF RowPut, Answer
    <2>2. /\ pc[x] = "row_put" /\ pc'[x] = "row_get" /\ req'[x].rid = r
          /\ req'[x].rows = WithResult(req[x].rows, a, res)
          /\ written' \subseteq written \cup {<<r, a>>} /\ UNCHANGED <<status, items, blurred>>
          /\ written \subseteq written'
          /\ \A y \in Actor \ {x} : pc'[y] = pc[y] /\ req'[y] = req[y]
      BY <1>0, <1>5, <2>1 DEF RowPut, Local
    <2>3. a \in Addr /\ req[x].rows[a] \in Item /\ req[x].rows[a] # NoItem
      BY <1>0, <2>2 DEF RowInHand, Todo, Rows
    <2>4. Rec(req'[x].rows[a])
      <3>1. req'[x].rows[a] = [req[x].rows[a] EXCEPT !.result = res]
        BY <1>0, <2>2, <2>3 DEF WithResult, Rows
      <3>2. req'[x].rows[a] \in Item /\ req'[x].rows[a].result = res
        BY <2>3, <3>1 DEF Item, Result
      <3> QED BY <3>2, ItemAssumption DEF Rec
    <2>5. \A b \in Addr : b # a => req'[x].rows[b] = req[x].rows[b]
      BY <1>0, <2>2, <2>3 DEF WithResult, Rows
    <2>6. r \notin blurred => \A b \in Addr : <<r, b>> \in written' => Rec(req'[x].rows[b])
      BY <1>0, <2>2, <2>4, <2>5
    <2>7. \A s \in RunId, b \in Addr : <<s, b>> \in written' \ written => s = r
      BY <2>2
    <2> HIDE DEF a
    <2>8. \A s \in RunId \ blurred', b \in Addr : Rec(items[s][b]) => Rec(items'[s][b])
      BY <1>0, <2>2
    <2> QED BY <1>0, <2>2, <2>6, <2>7, <2>8, RecordStep
  <1>6. CASE ApplyDecide(x)
    <2>1. /\ pc[x] = "row_get" /\ pc'[x] = "idle" /\ UNCHANGED <<written, blurred>>
          /\ status' = [status EXCEPT ![r] = Verdict(req[x].rows)]
          /\ items' = [items EXCEPT ![r] = req[x].rows]
          /\ \A y \in Actor \ {x} : pc'[y] = pc[y] /\ req'[y] = req[y]
      BY <1>6 DEF ApplyDecide, Decide
    <2>2. Verdict(req[x].rows) \notin {"none", "open"}
      BY DEF Verdict
    <2>3. r \notin blurred => \A a \in Addr : <<r, a>> \in written =>
             Rec(items'[r][a]) /\ status'[r] \notin {"none", "open"}
      BY <1>0, <2>1, <2>2
    <2>4. \A s \in RunId, a \in Addr : s # r /\ Rec(items[s][a]) /\ status[s] \notin {"none", "open"} =>
             Rec(items'[s][a]) /\ status'[s] \notin {"none", "open"}
      BY <1>0, <2>1
    <2> QED BY <1>0, <2>1, <2>3, <2>4, RecordStep
  <1> QED BY <1>1, <1>2, <1>3, <1>4, <1>5, <1>6 DEF Apply

\* Requests that break off blur the runs they were releasing.
LEMMA RecordBreakOff ==
    ASSUME TypeInv, RecordInv, NEW ys \in SUBSET Actor, BreakOff(ys),
           UNCHANGED <<status, items, written>>, \A y \in ys : pc'[y] = "idle",
           \A y \in Actor \ ys : pc'[y] = pc[y] /\ req'[y] = req[y]
    PROVE  RecordInv'
  <1> USE DEF TypeInv, TypeOK, Actor
  <1>1. /\ blurred \subseteq blurred'
        /\ \A y \in Admin : Applying(y)' => Applying(y) /\ pc'[y] = pc[y] /\ req'[y] = req[y]
        /\ \A y \in Admin : Applying(y) /\ ~ Applying(y)' => req[y].rid \in blurred'
    BY DEF BreakOff, Applying
  <1>2. ASSUME NEW y \in Admin, Applying(y)', req'[y].rid \notin blurred'
        PROVE  /\ \A a \in Addr : <<req'[y].rid, a>> \in written' =>
                     pc'[y] # "apply_check" /\ Rec(req'[y].rows[a])
               /\ \A z \in Admin \ {y} : ~ (Applying(z)' /\ req'[z].rid = req'[y].rid)
    BY <1>1, <1>2 DEF RecordInv, Rec
  <1>3. ASSUME NEW s \in RunId \ blurred', NEW a \in Addr, <<s, a>> \in written'
        PROVE  \/ Rec(items'[s][a]) /\ status'[s] \notin {"none", "open"}
               \/ \E y \in Admin : Applying(y)' /\ req'[y].rid = s
    BY <1>1, <1>3 DEF RecordInv, Rec
  <1> QED BY <1>2, <1>3 DEF RecordInv, Rec

\* Every step keeps the record of what was written.
LEMMA RecordNext ==
    ASSUME TypeInv, KnownInv, RecordInv, [Next]_vars
    PROVE  RecordInv'
  <1> USE DEF Goto, Done, tables, history, TypeInv, TypeOK, Actor
  <1>1. CASE UNCHANGED vars
    BY <1>1 DEF vars, RecordInv, Rec, Applying
  <1>2. ASSUME NEW w \in Worker, Schedule(w) PROVE RecordInv'
    <2>1. /\ UNCHANGED <<status, items, written, blurred>> /\ ~ Applying(w) /\ ~ Applying(w)'
          /\ \A y \in Actor \ {w} : pc'[y] = pc[y] /\ req'[y] = req[y]
      BY <1>2 DEF Schedule, SchedDue, SchedLock, SchedUnlock, Applying
    <2> QED BY <2>1, RecordFrame DEF Applying
  <1>3. ASSUME NEW w \in Worker, Crash(w) PROVE RecordInv'
    <2> DEFINE lost == {w} \cup {a \in Admin : Home[a] = w}
    <2>1. /\ lost \in SUBSET Actor /\ BreakOff(lost) /\ UNCHANGED <<status, items, written>>
          /\ \A y \in lost : pc'[y] = "idle"
          /\ \A y \in Actor \ lost : pc'[y] = pc[y] /\ req'[y] = req[y]
      BY <1>3 DEF Crash
    <2> QED BY <2>1, RecordBreakOff
  <1>4. CASE Environment
    <2>1. UNCHANGED <<status, items, written, blurred, pc, req>>
      BY <1>4 DEF Environment, EditItop, Release, EditDns, FlipWrite, NewSlot
    <2> QED BY <2>1, RecordFrame DEF Applying
  <1>5. ASSUME NEW x \in Admin, HandlerFails(x) PROVE RecordInv'
    <2>1. /\ {x} \in SUBSET Actor /\ BreakOff({x}) /\ UNCHANGED <<status, items, written>>
          /\ \A y \in {x} : pc'[y] = "idle"
          /\ \A y \in Actor \ {x} : pc'[y] = pc[y] /\ req'[y] = req[y]
      BY <1>5 DEF HandlerFails
    <2> QED BY <2>1, RecordBreakOff
  <1> QED BY <1>1, <1>2, <1>3, <1>4, <1>5, RecordApply, RecordGenerate, RecordReview DEF Next

\* However many admins review and release, whatever lists the scheduler makes in the meantime
\* and whichever calls fail: each row that iTop took over is recorded on its run as written
\* or failed when the release is through - unless a second release of the same run ran beside
\* it or the release broke off (service.apply, store.decide).
THEOREM WritesAreRecorded == Spec => []WrittenRowsRecorded
  <1>1. Init => RecordInv
    BY DEF Init, RecordInv, Applying, Actor
  <1>2. TypeInv /\ KnownInv /\ RecordInv /\ [Next]_vars => RecordInv'
    BY RecordNext
  <1>3. TypeInv /\ KnownInv /\ [Next]_vars => KnownInv'
    BY KnownNext
  <1>4. RecordInv => WrittenRowsRecorded
    BY DEF RecordInv, WrittenRowsRecorded, Rec
  <1> QED BY <1>1, <1>2, <1>3, <1>4, KnownInit, TypeInit, TypeNext, PTL DEF Spec
----------------------------------------------------------------------------
(* Exempt addresses stay out of the open lists *)

\* The request of x that exempts address a is still to take it out of run r.
Covers(x, r, a) ==
    /\ req[x].row = a
    /\ \/ pc[x] = "ign_list"
       \/ pc[x] \in {"ign_get", "ign_set"} /\ r \in req[x].left
       \/ pc[x] = "ign_set" /\ req[x].rid = r
Covered(r, a) == \E x \in Admin : Covers(x, r, a)

\* As long as an exempt address is in an open list, or in a copy to be stored there, a
\* request is on its way to take it out, and before a list that is being built.
ExemptAt(a) ==
    /\ \A r \in Open : Recent(r) => items[r][a] = NoItem \/ Covered(r, a)
    /\ \A r \in Open, y \in Admin : Recent(r) /\ Holding(y, r, a) => Covered(r, a)
    /\ \A y \in Actor : Building(y, a) => \E x \in Admin : pc[x] = "ign_list" /\ req[x].row = a
TakenOut(y) == pc[y] = "ign_set" /\ req[y].row \in Addr => req[y].rows[req[y].row] = NoItem

ExemptInv == (\A y \in Admin : TakenOut(y)) /\ \A a \in ignored \ raced : ExemptAt(a)

\* A step of x that neither exempts nor edits, brings back no address and opens no list.
LEMMA ExemptFrame ==
    ASSUME TypeInv, ExemptInv, NEW x \in Actor,
           ignored' \subseteq ignored, raced \subseteq raced', runs' = runs,
           Open' \subseteq Open, \A r \in Open' : items'[r] = items[r],
           \A y \in Actor \ {x} : pc'[y] = pc[y] /\ req'[y] = req[y],
           pc[x] \notin {"ign_list", "ign_get", "ign_set"},
           pc'[x] \notin {"ign_list", "ign_get", "ign_set", "toggle_set"},
           \A a \in ignored : Building(x, a)' => Building(x, a)
    PROVE  ExemptInv'
  <1> USE DEF Actor
  <1>1. ASSUME NEW a \in ignored' \ raced' PROVE ExemptAt(a)'
    <2>1. ExemptAt(a)
      BY DEF ExemptInv
    <2>2. \A z \in Admin, r \in Open : Covers(z, r, a) => Covers(z, r, a)'
      BY DEF Covers
    <2>3. \A r \in Open : Covered(r, a) => Covered(r, a)'
      BY <2>2 DEF Covered
    <2>4. \A r \in Open', y \in Admin : Holding(y, r, a)' => Holding(y, r, a)
      BY DEF Holding
    <2>5. \A y \in Actor : Building(y, a)' => Building(y, a)
      BY DEF Building
    <2>6. \A r \in RunId : Recent(r)' <=> Recent(r)
      BY DEF Recent
    <2>7. \A r \in Open' : Recent(r)' => items'[r][a] = NoItem \/ Covered(r, a)'
      BY <2>1, <2>3, <2>6 DEF ExemptAt, Open
    <2>8. \A r \in Open', y \in Admin : Recent(r)' /\ Holding(y, r, a)' => Covered(r, a)'
      BY <2>1, <2>3, <2>4, <2>6 DEF ExemptAt, Open
    <2>9. \A y \in Actor : Building(y, a)' => \E z \in Admin : pc'[z] = "ign_list" /\ req'[z].row = a
      BY <2>1, <2>5 DEF ExemptAt
    <2> QED BY <2>7, <2>8, <2>9 DEF ExemptAt
  <1>2. \A y \in Admin : TakenOut(y)'
    BY DEF ExemptInv, TakenOut
  <1> QED BY <1>1, <1>2 DEF ExemptInv

\* A list built without the exempt addresses does not propose them.
LEMMA ProposalsClean ==
    ASSUME NEW seen, NEW names, NEW zones, NEW rows \in Proposals(seen, names, zones),
           NEW a \in Addr, seen[a] = Gone
    PROVE  rows[a] = NoItem
  BY DEF Proposals

\* A list is built without the exempt addresses; one exempted meanwhile is taken out of it
\* by a request that has not looked at the lists yet.
LEMMA ExemptGenerate ==
    ASSUME TypeInv, KnownInv, ExemptInv, NEW x \in Actor, Generate(x)
    PROVE  ExemptInv'
  <1> USE DEF Goto, tables, history, TypeInv, TypeOK
  <1>1. CASE GenRead(x) \/ GenFail(x)
    <2>1. /\ UNCHANGED <<ignored, raced, runs, status, items>> /\ pc[x] \in Generating
          /\ pc'[x] \in {"gen_ignored", "unlock", "idle"}
          /\ \A y \in Actor \ {x} : pc'[y] = pc[y] /\ req'[y] = req[y]
      BY <1>1 DEF GenRead, GenFail, AfterGen, Generating
    <2> QED BY <2>1, ExemptFrame DEF Generating, Open, Building
  <1>2. CASE GenIgnored(x)
    <2>1. /\ UNCHANGED <<ignored, raced, runs, status, items>> /\ pc[x] = "gen_ignored" /\ pc'[x] = "gen_dns"
          /\ \A y \in Actor \ {x} : pc'[y] = pc[y] /\ req'[y] = req[y]
          /\ req' = [req EXCEPT ![x].seen = NotIgnored(@)]
      BY <1>2 DEF GenIgnored
    <2>2. \A a \in ignored : req'[x].seen[a] = Gone
      BY <2>1 DEF Local, NotIgnored
    <2> QED BY <2>1, <2>2, ExemptFrame DEF Open, Building
  <1>3. CASE GenDns(x)
    <2>1. /\ UNCHANGED <<ignored, raced, runs, status, items>> /\ pc[x] = "gen_dns" /\ pc'[x] = "gen_begin"
          /\ \A y \in Actor \ {x} : pc'[y] = pc[y] /\ req'[y] = req[y]
      BY <1>3 DEF GenDns
    <2>2. PICK names, zones : \E rows \in Proposals(req[x].seen, names, zones) :
             req' = [req EXCEPT ![x] = [Blank EXCEPT !.rows = rows]]
      BY <1>3 DEF GenDns
    <2>3. PICK rows \in Proposals(req[x].seen, names, zones) :
             req' = [req EXCEPT ![x] = [Blank EXCEPT !.rows = rows]]
      BY <2>2
    <2>4. req'[x].rows = rows
      BY <2>3 DEF Blank
    <2>5. \A a \in Addr : req[x].seen[a] = Gone => req'[x].rows[a] = NoItem
      BY <2>3, <2>4, ProposalsClean
    <2> QED BY <2>1, <2>5, ExemptFrame DEF Open, Building
  <1>4. CASE GenBegin(x)
    <2>1. /\ UNCHANGED <<ignored, raced, runs, status, items>> /\ pc[x] = "gen_begin" /\ pc'[x] = "gen_commit"
          /\ \A y \in Actor \ {x} : pc'[y] = pc[y] /\ req'[y] = req[y]
      BY <1>4 DEF GenBegin
    <2>2. req'[x].rows = req[x].rows
      BY <1>4 DEF GenBegin, Local
    <2> QED BY <2>1, <2>2, ExemptFrame DEF Open, Building
  <1>5. CASE GenCommit(x)
    <2> DEFINE n == runs + 1
    <2>1. /\ UNCHANGED <<ignored, raced>> /\ pc[x] = "gen_commit" /\ pc'[x] \in {"unlock", "idle"}
          /\ \A y \in Actor \ {x} : pc'[y] = pc[y] /\ req'[y] = req[y]
          /\ status' = [s \in RunId |-> IF s = n THEN "open"
                                        ELSE IF s \in Superseded(x) THEN "superseded" ELSE status[s]]
          /\ items' = [items EXCEPT ![n] = req[x].rows] /\ runs' = n
      BY <1>5 DEF GenCommit, AfterGen
    <2>2. runs \in Nat /\ \A y \in Admin : req[y].rid # n
      BY BoundAssumption DEF KnownInv, Known, Actor, Local
    <2>3. \A r \in Open' : \/ r = n /\ items'[r] = req[x].rows
                           \/ r # n /\ r \in Open /\ items'[r] = items[r]
      <3>1. n \in RunId /\ items'[n] = req[x].rows /\ \A r \in RunId \ {n} : items'[r] = items[r]
        BY <1>5, <2>1, BoundAssumption DEF GenCommit, RunId
      <3>2. \A r \in Open' : r = n \/ r \in Open
        BY <2>1 DEF Open
      <3>3. Open' \subseteq RunId
        BY DEF Open
      <3> QED BY <3>1, <3>2, <3>3
    <2>4. \A r \in RunId : Recent(r)' => Recent(r)
      BY <2>1, <2>2 DEF Recent, RunId, ListLimit
    <2>5. ASSUME NEW a \in ignored' \ raced' PROVE ExemptAt(a)'
      <3>1. ExemptAt(a)
        BY <2>1 DEF ExemptInv
      <3>2. \A r, z \in Admin : pc[z] = "ign_list" /\ req[z].row = a => pc'[z] = "ign_list" /\ req'[z].row = a
        BY <2>1 DEF Actor
      <3>3. \A r \in RunId : Covered(r, a) => Covered(r, a)'
        BY <2>1 DEF Covered, Covers, Actor
      <3>4. \A y \in Actor : Building(y, a)' => Building(y, a)
        BY <2>1 DEF Building
      <3>5. req[x].rows[a] # NoItem => \E z \in Admin : pc'[z] = "ign_list" /\ req'[z].row = a
        BY <2>1, <3>1, <3>2 DEF ExemptAt, Building
      <3>6. req[x].rows[a] # NoItem => \A r \in RunId : Covered(r, a)'
        BY <3>5 DEF Covered, Covers
      <3>7. \A y \in Admin, r \in RunId : Holding(y, r, a)' => Holding(y, r, a) /\ r # n
        BY <2>1, <2>2 DEF Holding, Actor
      <3>8. \A r \in Open' : Recent(r)' => items'[r][a] = NoItem \/ Covered(r, a)'
        BY <2>3, <2>4, <3>1, <3>3, <3>6 DEF ExemptAt, Open
      <3>9. \A r \in Open', y \in Admin : Recent(r)' /\ Holding(y, r, a)' => Covered(r, a)'
        BY <2>3, <2>4, <3>1, <3>3, <3>7 DEF ExemptAt, Open
      <3>10. \A y \in Actor : Building(y, a)' => \E z \in Admin : pc'[z] = "ign_list" /\ req'[z].row = a
        BY <3>1, <3>2, <3>4 DEF ExemptAt
      <3> QED BY <3>8, <3>9, <3>10 DEF ExemptAt
    <2>6. \A y \in Admin : TakenOut(y)'
      BY <2>1 DEF ExemptInv, TakenOut, Actor
    <2> QED BY <2>5, <2>6 DEF ExemptInv
  <1> QED BY <1>1, <1>2, <1>3, <1>4, <1>5 DEF Generate

\* A step of admin x that builds nothing and leaves the numbers and states of the runs alone
\* keeps address a out, if x covers as much as before, or has cleared what it covered, and
\* brings a back only where it was covered.
LEMMA ExemptEdit ==
    ASSUME TypeInv, NEW x \in Admin, NEW a \in Addr, ExemptAt(a), UNCHANGED <<status, runs>>,
           \A y \in Actor \ {x} : pc'[y] = pc[y] /\ req'[y] = req[y],
           ~ Building(x, a)',
           \A r \in Open : Covers(x, r, a) => Covers(x, r, a)' \/
              /\ Recent(r) => items'[r][a] = NoItem
              /\ \A y \in Admin : Recent(r) => ~ Holding(y, r, a)',
           \A r \in Open : \/ items'[r][a] = items[r][a] \/ items'[r][a] = NoItem
                           \/ Holding(x, r, a) /\ ~ Covers(x, r, a),
           \A r \in Open : Holding(x, r, a)' => Holding(x, r, a) \/ items[r][a] # NoItem \/ Covers(x, r, a)',
           pc[x] = "ign_list" /\ req[x].row = a /\ pc'[x] # "ign_list" => \A y \in Actor : ~ Building(y, a)',
           pc'[x] = "ign_list" => req'[x].row = req[x].row \/ pc[x] # "ign_list"
    PROVE  ExemptAt(a)'
  <1> USE DEF Actor
  <1>1. Open' = Open /\ \A r \in RunId : Recent(r)' <=> Recent(r)
    BY DEF Open, Recent
  <1>2. \A r, z \in Admin : z # x => (Covers(z, r, a)' <=> Covers(z, r, a))
    BY DEF Covers
  <1>3. \A y \in Admin, r \in Open : y # x => (Holding(y, r, a)' <=> Holding(y, r, a))
    BY DEF Holding
  <1>4. ASSUME NEW r \in Open, Recent(r), Covered(r, a)
        PROVE  \/ Covered(r, a)'
               \/ items'[r][a] = NoItem /\ \A y \in Admin : ~ Holding(y, r, a)'
    <2>1. PICK z \in Admin : Covers(z, r, a)
      BY <1>4 DEF Covered
    <2>2. CASE z = x
      BY <1>4, <2>1, <2>2 DEF Covered
    <2>3. CASE z # x
      <3>1. Covers(z, r, a)'
        BY <2>1, <2>3 DEF Covers
      <3> QED BY <3>1 DEF Covered
    <2> QED BY <2>2, <2>3
  <1>5. ASSUME NEW r \in Open, Recent(r) PROVE items'[r][a] = NoItem \/ Covered(r, a)'
    <2>1. CASE items'[r][a] = items[r][a]
      BY <1>4, <1>5, <2>1 DEF ExemptAt
    <2>2. CASE Holding(x, r, a) /\ ~ Covers(x, r, a)
      BY <1>4, <1>5, <2>2 DEF ExemptAt
    <2> QED BY <2>1, <2>2
  <1>6. ASSUME NEW r \in Open, NEW y \in Admin, Recent(r), Holding(y, r, a)' PROVE Covered(r, a)'
    <2>1. CASE Holding(y, r, a)
      BY <1>4, <1>6, <2>1 DEF ExemptAt
    <2>2. CASE y = x /\ ~ Holding(x, r, a)
      <3>1. CASE Covers(x, r, a)'
        BY <3>1 DEF Covered
      <3>2. CASE items[r][a] # NoItem
        BY <1>4, <1>6, <3>2 DEF ExemptAt
      <3> QED BY <1>6, <2>2, <3>1, <3>2
    <2> QED BY <1>3, <1>6, <2>1, <2>2
  <1>7. ASSUME NEW y \in Actor, Building(y, a)' PROVE \E z \in Admin : pc'[z] = "ign_list" /\ req'[z].row = a
    <2>1. y # x /\ Building(y, a)
      BY <1>7 DEF Building
    <2>2. PICK z \in Admin : pc[z] = "ign_list" /\ req[z].row = a
      BY <2>1 DEF ExemptAt
    <2> QED BY <1>7, <2>2
  <1>8. \A r \in Open' : Recent(r)' => items'[r][a] = NoItem \/ Covered(r, a)'
    BY <1>1, <1>5 DEF Open
  <1>9. \A r \in Open', y \in Admin : Recent(r)' /\ Holding(y, r, a)' => Covered(r, a)'
    BY <1>1, <1>6 DEF Open
  <1> QED BY <1>7, <1>8, <1>9 DEF ExemptAt

\* A toggle stores back what it read; a discard closes its run.
LEMMA ExemptReview ==
    ASSUME TypeInv, ExemptInv, NEW x \in Admin, Review(x)
    PROVE  ExemptInv'
  <1> USE DEF Goto, Done, tables, history, TypeInv, TypeOK, Actor
  <1>1. CASE CreateRun(x) \/ DiscardGet(x)
    <2>1. /\ UNCHANGED <<ignored, raced, runs, status, items>> /\ pc[x] = "idle"
          /\ pc'[x] \in {"gen_read", "discard_set"}
          /\ \A y \in Actor \ {x} : pc'[y] = pc[y] /\ req'[y] = req[y]
      BY <1>1 DEF CreateRun, DiscardGet
    <2> QED BY <2>1, ExemptFrame DEF Open, Building
  <1>2. CASE DiscardSet(x)
    <2>1. /\ UNCHANGED <<ignored, raced, runs>> /\ pc[x] = "discard_set" /\ pc'[x] = "idle"
          /\ Open' \subseteq Open /\ \A r \in RunId : items'[r] = items[r]
          /\ \A y \in Actor \ {x} : pc'[y] = pc[y] /\ req'[y] = req[y]
      BY <1>2 DEF DiscardSet, Decide, Open
    <2> QED BY <2>1, ExemptFrame DEF Open, Building
  <1>3. CASE ToggleGet(x)
    <2>1. /\ UNCHANGED <<ignored, raced, runs, status, items>> /\ pc[x] = "idle" /\ pc'[x] = "toggle_set"
          /\ \A y \in Actor \ {x} : pc'[y] = pc[y] /\ req'[y] = req[y]
      BY <1>3 DEF ToggleGet
    <2>2. PICK r \in Open, ids \in (SUBSET Addr) \ {{}}, on \in BOOLEAN :
             req' = [req EXCEPT ![x].rid = r, ![x].rows = Toggled(items[r], ids, on)]
      BY <1>3 DEF ToggleGet
    <2>3. req'[x].rows = Toggled(items[r], ids, on) /\ req'[x].rid = r
      BY <2>2 DEF Local
    <2>4. \A a \in Addr : items[r][a] = NoItem => req'[x].rows[a] = NoItem
      BY <2>3 DEF Toggled
    <2>5. \A a \in ignored' \ raced' : ExemptAt(a)'
      <3>1. ASSUME NEW a \in ignored' \ raced' PROVE ExemptAt(a)'
        <4>1. a \in Addr /\ ExemptAt(a) /\ ~ Building(x, a)' /\ \A s : ~ Covers(x, s, a)
          BY <2>1 DEF ExemptInv, Building, Covers
        <4>2. \A s \in Open : Holding(x, s, a)' => items[s][a] # NoItem
          BY <2>3, <2>4, <4>1 DEF Holding
        <4> QED BY <2>1, <4>1, <4>2, ExemptEdit
      <3> QED BY <3>1
    <2>6. \A y \in Admin : TakenOut(y)'
      BY <2>1 DEF ExemptInv, TakenOut
    <2> QED BY <2>5, <2>6 DEF ExemptInv
  <1>4. CASE ToggleSet(x)
    <2>1. /\ UNCHANGED <<ignored, raced, runs, status>> /\ pc[x] = "toggle_set" /\ pc'[x] = "idle"
          /\ \A y \in Actor \ {x} : pc'[y] = pc[y] /\ req'[y] = req[y]
      BY <1>4 DEF ToggleSet
    <2>2. \A r \in Open : IF r = req[x].rid THEN items'[r] = req[x].rows ELSE items'[r] = items[r]
      <3>1. SetItems(x)
        BY <1>4 DEF ToggleSet
      <3> QED BY <3>1 DEF SetItems, StillEditable, Open
    <2>3. \A a \in ignored' \ raced' : ExemptAt(a)'
      <3>1. ASSUME NEW a \in ignored' \ raced' PROVE ExemptAt(a)'
        <4>1. a \in Addr /\ ExemptAt(a) /\ ~ Building(x, a)' /\ \A s : ~ Covers(x, s, a) /\ ~ Holding(x, s, a)'
          BY <2>1 DEF ExemptInv, Building, Covers, Holding
        <4>2. \A r \in Open : \/ items'[r][a] = items[r][a] \/ items'[r][a] = NoItem \/ Holding(x, r, a)
          BY <2>1, <2>2 DEF Holding
        <4> QED BY <2>1, <4>1, <4>2, ExemptEdit
      <3> QED BY <3>1
    <2>4. \A y \in Admin : TakenOut(y)'
      BY <2>1 DEF ExemptInv, TakenOut
    <2> QED BY <2>3, <2>4 DEF ExemptInv
  <1> QED BY <1>1, <1>2, <1>3, <1>4 DEF Review

\* The request that exempts an address covers every open list until it has taken it out of
\* each; copies and lists that carry the address past it are noted in raced.
LEMMA ExemptIgnoring ==
    ASSUME TypeInv, ExemptInv, NEW x \in Admin, Ignoring(x)
    PROVE  ExemptInv'
  <1> USE DEF Goto, Done, tables, history, TypeInv, TypeOK, Actor
  <1>0. req[x] \in Local /\ TakenOut(x) /\ \A a \in ignored \ raced : ExemptAt(a)
    BY DEF ExemptInv
  <1>1. CASE IgnoreAdd(x)
    <2>1. PICK b \in Addr : /\ ignored' = ignored \cup {b} /\ raced' = raced \ {b}
                            /\ req' = [req EXCEPT ![x].row = b]
      BY <1>1 DEF IgnoreAdd
    <2>2. /\ UNCHANGED <<runs, status, items>> /\ pc[x] = "idle" /\ pc'[x] = "ign_list" /\ req'[x].row = b
          /\ \A y \in Actor \ {x} : pc'[y] = pc[y] /\ req'[y] = req[y]
      BY <1>0, <1>1, <2>1 DEF IgnoreAdd, Local
    <2>3. ASSUME NEW a \in ignored' \ raced' PROVE ExemptAt(a)'
      <3>1. CASE a = b
        <4>1. \A r : Covers(x, r, a)'
          BY <2>2, <3>1 DEF Covers
        <4> QED BY <2>2, <3>1, <4>1 DEF ExemptAt, Covered
      <3>2. CASE a # b
        <4>1. a \in Addr /\ ExemptAt(a) /\ ~ Building(x, a)' /\ \A s : ~ Covers(x, s, a) /\ ~ Holding(x, s, a)'
          BY <1>0, <2>1, <2>2, <2>3, <3>2 DEF Building, Covers, Holding
        <4> QED BY <2>2, <4>1, ExemptEdit
      <3> QED BY <3>1, <3>2
    <2>4. \A y \in Admin : TakenOut(y)'
      BY <2>2 DEF ExemptInv, TakenOut
    <2> QED BY <2>3, <2>4 DEF ExemptInv
  <1>2. CASE IgnoreList(x)
    <2>1. /\ UNCHANGED <<ignored, runs, status, items>> /\ pc[x] = "ign_list" /\ pc'[x] = "ign_get"
          /\ \A y \in Actor \ {x} : pc'[y] = pc[y] /\ req'[y] = req[y]
          /\ raced' = raced \cup {a \in Addr : Exempting(x, a) /\ \E y \in Actor : Building(y, a)}
      BY <1>2 DEF IgnoreList
    <2>2. req'[x].left = {r \in Open : Recent(r)} /\ req'[x].row = req[x].row
      BY <1>0, <1>2 DEF IgnoreList, Local
    <2>3. ASSUME NEW a \in ignored' \ raced' PROVE ExemptAt(a)'
      <3>1. a \in Addr /\ ExemptAt(a) /\ \A s : ~ Holding(x, s, a)'
        BY <1>0, <2>1, <2>3 DEF Holding
      <3>2. \A y \in Actor : Building(y, a)' => Building(y, a) /\ y # x
        BY <2>1 DEF Building
      <3>3. CASE req[x].row = a
        <4>1. \A y \in Actor : ~ Building(y, a)'
          BY <2>1, <2>3, <3>1, <3>2, <3>3 DEF Exempting
        <4>2. \A r \in Open : Recent(r) => Covers(x, r, a)'
          BY <2>1, <2>2, <3>3 DEF Covers
        <4>3. Open' = Open /\ \A r \in Open : Recent(r)' <=> Recent(r)
          BY <2>1 DEF Open, Recent
        <4>4. \A r \in Open' : Recent(r)' => Covered(r, a)'
          BY <4>2, <4>3 DEF Covered
        <4> QED BY <4>1, <4>4 DEF ExemptAt
      <3>4. CASE req[x].row # a
        <4>1. \A s : ~ Covers(x, s, a)
          BY <3>4 DEF Covers
        <4> QED BY <2>1, <3>1, <3>2, <3>4, <4>1, ExemptEdit
      <3> QED BY <3>3, <3>4
    <2>4. \A y \in Admin : TakenOut(y)'
      BY <2>1 DEF ExemptInv, TakenOut
    <2> QED BY <2>3, <2>4 DEF ExemptInv
  <1>3. CASE IgnoreGet(x) /\ req[x].left = {} /\ pc'[x] = "idle"
    <2>1. /\ UNCHANGED <<ignored, raced, runs, status, items>> /\ pc[x] = "ign_get"
          /\ \A y \in Actor \ {x} : pc'[y] = pc[y] /\ req'[y] = req[y]
      BY <1>3 DEF IgnoreGet
    <2>2. ASSUME NEW a \in ignored' \ raced' PROVE ExemptAt(a)'
      <3>1. a \in Addr /\ ExemptAt(a) /\ ~ Building(x, a)' /\ \A s : ~ Covers(x, s, a) /\ ~ Holding(x, s, a)'
        BY <1>0, <1>3, <2>1, <2>2 DEF Building, Covers, Holding
      <3> QED BY <1>3, <2>1, <3>1, ExemptEdit
    <2>3. \A y \in Admin : TakenOut(y)'
      BY <1>3, <2>1 DEF ExemptInv, TakenOut
    <2> QED BY <2>2, <2>3 DEF ExemptInv
  <1>4. CASE IgnoreGet(x) /\ ~ (req[x].left = {} /\ pc'[x] = "idle")
    <2>1. PICK r \in req[x].left :
             req' = [req EXCEPT ![x].rid = r, ![x].left = @ \ {r},
                                ![x].rows = [items[r] EXCEPT ![req[x].row] = NoItem]]
      BY <1>4 DEF IgnoreGet
    <2>2. /\ UNCHANGED <<ignored, raced, runs, status, items>> /\ pc[x] = "ign_get" /\ pc'[x] = "ign_set"
          /\ \A y \in Actor \ {x} : pc'[y] = pc[y] /\ req'[y] = req[y]
      BY <1>4 DEF IgnoreGet
    <2>3. /\ r \in RunId /\ req'[x].rid = r /\ req'[x].left = req[x].left \ {r}
          /\ req'[x].row = req[x].row /\ req'[x].rows = [items[r] EXCEPT ![req[x].row] = NoItem]
          /\ items[r] \in Rows
      BY <1>0, <2>1 DEF Local
    <2>4. ASSUME NEW a \in ignored' \ raced' PROVE ExemptAt(a)'
      <3>1. a \in Addr /\ ExemptAt(a) /\ ~ Building(x, a)'
        BY <1>0, <2>2, <2>4 DEF Building
      <3>2. \A s \in Open : Covers(x, s, a) => Covers(x, s, a)'
        BY <2>2, <2>3 DEF Covers
      <3>3. req'[x].rows[a] # NoItem => items[r][a] # NoItem
        BY <2>3, <3>1 DEF Rows
      <3>4. \A s \in Open : Holding(x, s, a)' => items[s][a] # NoItem
        BY <2>3, <3>3 DEF Holding
      <3> QED BY <2>2, <3>1, <3>2, <3>4, ExemptEdit
    <2>5. TakenOut(x)'
      BY <2>3 DEF TakenOut, Rows
    <2>6. \A y \in Admin : TakenOut(y)'
      BY <2>2, <2>5 DEF ExemptInv, TakenOut
    <2> QED BY <2>4, <2>6 DEF ExemptInv
  <1>5. CASE IgnoreSet(x)
    <2>1. /\ UNCHANGED <<ignored, runs, status, req>> /\ pc[x] = "ign_set" /\ pc'[x] = "ign_get" /\ SetItems(x)
          /\ \A y \in Actor \ {x} : pc'[y] = pc[y] /\ req'[y] = req[y]
          /\ raced' = raced \cup {a \in Addr : /\ Exempting(x, a)
                                             /\ \E y \in Admin \ {x} : Holding(y, req[x].rid, a)}
      BY <1>5 DEF IgnoreSet
    <2>2. \A r \in Open : IF r = req[x].rid THEN items'[r] = req[x].rows ELSE items'[r] = items[r]
      BY <2>1 DEF SetItems, StillEditable, Open
    <2>3. ASSUME NEW a \in ignored' \ raced' PROVE ExemptAt(a)'
      <3>1. a \in Addr /\ ExemptAt(a) /\ ~ Building(x, a)' /\ \A s : ~ Holding(x, s, a)'
        BY <1>0, <2>1, <2>3 DEF Building, Holding
      <3>2. CASE req[x].row = a
        <4>1. req[x].rows[a] = NoItem
          BY <1>0, <2>1, <3>1, <3>2 DEF TakenOut
        <4>2. \A y \in Admin \ {x} : ~ Holding(y, req[x].rid, a)
          BY <2>1, <2>3, <3>1, <3>2 DEF Exempting
        <4>3. \A y \in Admin : ~ Holding(y, req[x].rid, a)'
          BY <2>1, <3>1, <4>2 DEF Holding
        <4>4. \A s \in Open : Covers(x, s, a) => Covers(x, s, a)' \/ s = req[x].rid
          BY <2>1 DEF Covers
        <4>5. \A s \in Open : items'[s][a] = items[s][a] \/ items'[s][a] = NoItem
          BY <2>2, <4>1
        <4>6. \A s \in Open : s = req[x].rid => items'[s][a] = NoItem
          BY <2>2, <4>1
        <4> QED BY <2>1, <3>1, <4>3, <4>4, <4>5, <4>6, ExemptEdit
      <3>3. CASE req[x].row # a
        <4>1. \A s : ~ Covers(x, s, a)
          BY <3>3 DEF Covers
        <4>2. \A s \in Open : items'[s][a] = items[s][a] \/ items'[s][a] = NoItem \/ Holding(x, s, a)
          BY <2>1, <2>2 DEF Holding
        <4> QED BY <2>1, <3>1, <4>1, <4>2, ExemptEdit
      <3> QED BY <3>2, <3>3
    <2>4. \A y \in Admin : TakenOut(y)'
      BY <2>1 DEF ExemptInv, TakenOut
    <2> QED BY <2>3, <2>4 DEF ExemptInv
  <1>6. CASE Unignore(x)
    <2>1. UNCHANGED <<raced, runs, status, items, pc, req>> /\ ignored' \subseteq ignored /\ pc[x] = "idle"
      BY <1>6 DEF Unignore
    <2> QED BY <2>1, ExemptFrame DEF Open, Building
  <1>7. CASE IgnoreGet(x)
    BY <1>3, <1>4, <1>7
  <1> QED BY <1>1, <1>2, <1>5, <1>6, <1>7 DEF Ignoring

\* A release exempts and edits nothing, and the run it decides is closed.
LEMMA ExemptApply ==
    ASSUME TypeInv, ExemptInv, NEW x \in Admin, Apply(x)
    PROVE  ExemptInv'
  <1> USE DEF Goto, Done, tables, history, TypeInv, TypeOK, Actor
  <1>1. CASE ApplyGet(x) \/ ApplyCheck(x) \/ ApplyDns(x) \/ RowGet(x) \/ RowPut(x)
    <2>1. /\ UNCHANGED <<ignored, raced, runs, status, items>>
          /\ pc[x] = "idle" \/ Applying(x)
          /\ \A y \in Actor \ {x} : pc'[y] = pc[y] /\ req'[y] = req[y]
      BY <1>1 DEF ApplyGet, ApplyCheck, ApplyDns, RowGet, RowPut, Applying
    <2>2. pc'[x] \in {"idle", "apply_check", "apply_dns", "row_get", "row_put"}
      BY <1>1 DEF ApplyGet, ApplyCheck, ApplyDns, RowGet, RowPut
    <2> QED BY <2>1, <2>2, ExemptFrame DEF Open, Building, Applying
  <1>2. CASE ApplyDecide(x)
    <2>1. /\ UNCHANGED <<ignored, raced, runs>> /\ pc[x] = "row_get" /\ pc'[x] = "idle"
          /\ Open' \subseteq Open /\ \A r \in Open' : items'[r] = items[r]
          /\ \A y \in Actor \ {x} : pc'[y] = pc[y] /\ req'[y] = req[y]
      BY <1>2 DEF ApplyDecide, Decide, Verdict, Open
    <2> QED BY <2>1, ExemptFrame DEF Open, Building
  <1> QED BY <1>1, <1>2 DEF Apply

\* The addresses that requests breaking off were to take out are noted in raced.
LEMMA ExemptBreakOff ==
    ASSUME TypeInv, ExemptInv, NEW ys \in SUBSET Actor, BreakOff(ys),
           UNCHANGED <<ignored, status, items, runs>>, \A y \in ys : pc'[y] = "idle",
           \A y \in Actor \ ys : pc'[y] = pc[y] /\ req'[y] = req[y]
    PROVE  ExemptInv'
  <1> USE DEF Actor
  <1>1. ASSUME NEW a \in ignored' \ raced' PROVE ExemptAt(a)'
    <2>1. ExemptAt(a) /\ a \in Addr /\ \A y \in ys : ~ Exempting(y, a)
      BY DEF ExemptInv, BreakOff, TypeInv, TypeOK
    <2>2. \A r \in Open : Covered(r, a) => Covered(r, a)'
      BY <2>1 DEF Covered, Covers, Exempting
    <2>3. Open' = Open /\ \A r \in Open : Recent(r)' <=> Recent(r)
      BY DEF Open, Recent
    <2>4. \A r \in Open, y \in Admin : Holding(y, r, a)' => Holding(y, r, a)
      BY DEF Holding
    <2>5. \A y \in Actor : Building(y, a)' => Building(y, a)
      BY DEF Building
    <2>6. \A z \in Admin : pc[z] = "ign_list" /\ req[z].row = a => pc'[z] = "ign_list" /\ req'[z].row = a
      BY <2>1 DEF Exempting
    <2>7. \A r \in Open' : Recent(r)' => items'[r][a] = NoItem \/ Covered(r, a)'
      BY <2>1, <2>2, <2>3 DEF ExemptAt
    <2>8. \A r \in Open', y \in Admin : Recent(r)' /\ Holding(y, r, a)' => Covered(r, a)'
      BY <2>1, <2>2, <2>3, <2>4 DEF ExemptAt
    <2>9. \A y \in Actor : Building(y, a)' => \E z \in Admin : pc'[z] = "ign_list" /\ req'[z].row = a
      BY <2>1, <2>5, <2>6 DEF ExemptAt
    <2> QED BY <2>7, <2>8, <2>9 DEF ExemptAt
  <1>2. \A y \in Admin : TakenOut(y)'
    BY DEF ExemptInv, TakenOut
  <1> QED BY <1>1, <1>2 DEF ExemptInv

\* Every step keeps the exempt addresses out.
LEMMA ExemptNext ==
    ASSUME TypeInv, KnownInv, ExemptInv, [Next]_vars
    PROVE  ExemptInv'
  <1> USE DEF Goto, Done, tables, history, TypeInv, TypeOK, Actor
  <1>1. CASE UNCHANGED vars \/ Environment
    <2>1. UNCHANGED <<ignored, raced, runs, status, items, pc, req>>
      BY <1>1 DEF vars, Environment, EditItop, Release, EditDns, FlipWrite, NewSlot
    <2> QED BY <2>1 DEF ExemptInv, ExemptAt, TakenOut, Covered, Covers, Building, Holding, Open, Recent
  <1>2. ASSUME NEW w \in Worker, Schedule(w) PROVE ExemptInv'
    <2>1. /\ UNCHANGED <<ignored, raced, runs, status, items>> /\ pc[w] \in {"idle", "due", "unlock"}
          /\ pc'[w] \in {"idle", "due", "gen_read"}
          /\ \A y \in Actor \ {w} : pc'[y] = pc[y] /\ req'[y] = req[y]
      BY <1>2 DEF Schedule, SchedDue, SchedLock, SchedUnlock
    <2> QED BY <2>1, ExemptFrame DEF Open, Building
  <1>3. ASSUME NEW w \in Worker, Crash(w) PROVE ExemptInv'
    <2> DEFINE lost == {w} \cup {a \in Admin : Home[a] = w}
    <2>1. /\ lost \in SUBSET Actor /\ BreakOff(lost) /\ UNCHANGED <<ignored, status, items, runs>>
          /\ \A y \in lost : pc'[y] = "idle"
          /\ \A y \in Actor \ lost : pc'[y] = pc[y] /\ req'[y] = req[y]
      BY <1>3 DEF Crash
    <2> QED BY <2>1, ExemptBreakOff
  <1>4. ASSUME NEW x \in Admin, HandlerFails(x) PROVE ExemptInv'
    <2>1. /\ {x} \in SUBSET Actor /\ BreakOff({x}) /\ UNCHANGED <<ignored, status, items, runs>>
          /\ \A y \in {x} : pc'[y] = "idle"
          /\ \A y \in Actor \ {x} : pc'[y] = pc[y] /\ req'[y] = req[y]
      BY <1>4 DEF HandlerFails
    <2> QED BY <2>1, ExemptBreakOff
  <1> QED BY <1>1, <1>2, <1>3, <1>4, ExemptApply, ExemptGenerate, ExemptReview, ExemptIgnoring DEF Next

\* An exempt address is in none of the open lists among the last five, nor does it come back
\* with a copy stored later or a list created later, whatever admins and workers do side by
\* side - but for one whose exempting request broke off, or that a list in the making or a
\* copy of another request carried past it (add_ignore, generate).
THEOREM ExemptStayOut == Spec => []IgnoredNotProposed
  <1>1. Init => ExemptInv
    BY DEF Init, ExemptInv, TakenOut, Actor
  <1>2. TypeInv /\ KnownInv /\ ExemptInv /\ [Next]_vars => ExemptInv'
    BY ExemptNext
  <1>3. TypeInv /\ KnownInv /\ [Next]_vars => KnownInv'
    BY KnownNext
  <1>4. TypeInv /\ ExemptInv => IgnoredNotProposed
    BY DEF TypeInv, TypeOK, ExemptInv, ExemptAt, Covered, Covers, Exempting, IgnoredNotProposed, Recent
  <1> QED BY <1>1, <1>2, <1>3, <1>4, KnownInit, TypeInit, TypeNext, PTL DEF Spec
----------------------------------------------------------------------------
(* Reviewing implements ReviewLifecycle *)

\* How the claims change when requests begin or end their hold on a run.
LEMMA ClaimsKept ==
    ASSUME \A y \in Admin : InHand(y)' <=> InHand(y),
           \A y \in Admin : InHand(y) => req'[y].rid = req[y].rid
    PROVE  Claims' = Claims
  BY DEF Claims

\* Requests that lose their hold give their claims up and get no others.
LEMMA ClaimsDropped ==
    ASSUME \A y \in Admin : InHand(y)' => InHand(y) /\ req'[y].rid = req[y].rid
    PROVE  Claims' \subseteq Claims
  BY DEF Claims

\* A request that gets hold of a run adds its claim, having had none.
LEMMA ClaimBegins ==
    ASSUME NEW x \in Admin, ~ InHand(x), InHand(x)',
           \A y \in Admin \ {x} : pc'[y] = pc[y] /\ req'[y] = req[y]
    PROVE  /\ Claims' = Claims \cup {<<x, req'[x].rid>>}
           /\ \A c \in Claims : c[1] # x
  BY DEF Claims, InHand, Applying

\* One that lets go of its run takes its claim away.
LEMMA ClaimEnds ==
    ASSUME NEW x \in Admin, InHand(x), ~ InHand(x)',
           \A y \in Admin \ {x} : pc'[y] = pc[y] /\ req'[y] = req[y]
    PROVE  Claims' = Claims \ {<<x, req[x].rid>>}
  BY DEF Claims, InHand, Applying

\* A release claims the open run it read, writes rows under the claim and closes the run.
LEMMA ApplyLives ==
    ASSUME TypeInv, NEW x \in Admin, Apply(x)
    PROVE  Lifecycle!Next \/ UNCHANGED <<status, written, Claims>>
  <1> USE DEF Goto, Done, tables, history, TypeInv, TypeOK, Actor, RowInHand
  <1> DEFINE r == req[x].rid
  <1>0. /\ req[x] \in Local
        /\ InHand(x) => r \in RunId /\ <<x, r>> \in Claims
    BY DEF Claims, InHand
  <1>1. CASE ApplyGet(x)
    <2>1. PICK s \in Open : req' = [req EXCEPT ![x].rid = s, ![x].rows = items[s]]
      BY <1>1 DEF ApplyGet, Passes
    <2>2. /\ UNCHANGED <<status, written>> /\ ~ InHand(x) /\ InHand(x)' /\ req'[x].rid = s
          /\ s \in RunId /\ status[s] = "open"
          /\ \A y \in Admin \ {x} : pc'[y] = pc[y] /\ req'[y] = req[y]
      BY <1>0, <1>1, <2>1 DEF ApplyGet, InHand, Applying, Open, Local
    <2>3. Claims' = Claims \cup {<<x, s>>} /\ \A c \in Claims : c[1] # x
      BY <2>2, ClaimBegins
    <2>4. Lifecycle!Claim(x, s)
      BY <2>2, <2>3 DEF Lifecycle!Claim
    <2> QED BY <2>2, <2>4 DEF Lifecycle!Next
  <1>2. CASE ApplyCheck(x)
    <2>1. /\ UNCHANGED <<status, written>>
          /\ \A y \in Admin : InHand(y)' => InHand(y) /\ req'[y].rid = req[y].rid
      BY <1>2 DEF ApplyCheck, InHand, Applying
    <2>2. Lifecycle!Drop
      BY <2>1, ClaimsDropped DEF Lifecycle!Drop
    <2> QED BY <2>2 DEF Lifecycle!Next
  <1>3. CASE ApplyDns(x) \/ RowGet(x)
    <2>1. /\ UNCHANGED <<status, written>> /\ InHand(x) /\ InHand(x)'
          /\ \A y \in Admin \ {x} : pc'[y] = pc[y] /\ req'[y] = req[y]
      BY <1>3 DEF ApplyDns, RowGet, InHand, Applying
    <2>2. req'[x].rid = r
      <3>1. CASE ApplyDns(x)
        <4>1. UNCHANGED req \/ \E d : req' = [req EXCEPT ![x].dns = d]
          BY <3>1 DEF ApplyDns
        <4> QED BY <1>0, <4>1 DEF Local
      <3>2. CASE RowGet(x)
        <4>1. (\E a : req' = [req EXCEPT ![x].row = a]) \/ (\E rows : req' = [req EXCEPT ![x].rows = rows])
          BY <3>2 DEF RowGet
        <4> QED BY <1>0, <4>1 DEF Local
      <3> QED BY <1>3, <3>1, <3>2
    <2>3. Claims' = Claims
      BY <2>1, <2>2, ClaimsKept DEF InHand, Applying
    <2> QED BY <2>1, <2>3
  <1>4. CASE RowPut(x)
    <2>1. /\ UNCHANGED status
          /\ written' = written \/ written' = written \cup {<<r, req[x].row>>}
          /\ InHand(x) /\ InHand(x)' /\ pc[x] = "row_put"
          /\ \A y \in Admin \ {x} : pc'[y] = pc[y] /\ req'[y] = req[y]
      BY <1>4 DEF RowPut, InHand, Applying
    <2>2. req'[x].rid = r
      <3>1. \E rows : req' = [req EXCEPT ![x].rows = rows, ![x].row = NoAddr]
        BY <1>4 DEF RowPut
      <3> QED BY <1>0, <3>1 DEF Local
    <2>3. Claims' = Claims
      BY <2>1, <2>2, ClaimsKept DEF InHand, Applying
    <2>4. req[x].row \in Addr
      BY <2>1 DEF Todo
    <2>5. CASE written' = written \cup {<<r, req[x].row>>}
      <3>1. Lifecycle!Write(x, r, req[x].row)
        BY <1>0, <2>1, <2>3, <2>5 DEF Lifecycle!Write
      <3> QED BY <1>0, <2>1, <2>4, <3>1 DEF Lifecycle!Next
    <2> QED BY <2>1, <2>3, <2>5
  <1>5. CASE ApplyDecide(x)
    <2>1. /\ UNCHANGED written /\ InHand(x) /\ ~ InHand(x)'
          /\ status' = [status EXCEPT ![r] = Verdict(req[x].rows)]
          /\ \A y \in Admin \ {x} : pc'[y] = pc[y] /\ req'[y] = req[y]
      BY <1>5 DEF ApplyDecide, Decide, InHand, Applying
    <2>2. Verdict(req[x].rows) \in Lifecycle!Closing
      BY DEF Verdict, Lifecycle!Closing
    <2>3. Lifecycle!Close(x, r, Verdict(req[x].rows))
      BY <1>0, <2>1, ClaimEnds DEF Lifecycle!Close
    <2> QED BY <1>0, <2>1, <2>2, <2>3 DEF Lifecycle!Next
  <1> QED BY <1>1, <1>2, <1>3, <1>4, <1>5 DEF Apply

\* A discard claims an open run and closes it; toggles hold no claim.
LEMMA ReviewLives ==
    ASSUME TypeInv, NEW x \in Admin, Review(x)
    PROVE  Lifecycle!Next \/ UNCHANGED <<status, written, Claims>>
  <1> USE DEF Goto, Done, tables, history, TypeInv, TypeOK, Actor, RowInHand
  <1>1. CASE CreateRun(x) \/ ToggleGet(x) \/ ToggleSet(x)
    <2>1. /\ UNCHANGED <<status, written>> /\ ~ InHand(x) /\ ~ InHand(x)'
          /\ \A y \in Admin \ {x} : pc'[y] = pc[y] /\ req'[y] = req[y]
      BY <1>1 DEF CreateRun, ToggleGet, ToggleSet, InHand, Applying
    <2>2. Claims' = Claims
      BY <2>1, ClaimsKept DEF InHand, Applying
    <2> QED BY <2>1, <2>2
  <1>2. CASE DiscardGet(x)
    <2>1. PICK s \in Open : req' = [req EXCEPT ![x].rid = s]
      BY <1>2 DEF DiscardGet
    <2>2. /\ UNCHANGED <<status, written>> /\ ~ InHand(x) /\ InHand(x)' /\ req'[x].rid = s
          /\ s \in RunId /\ status[s] = "open"
          /\ \A y \in Admin \ {x} : pc'[y] = pc[y] /\ req'[y] = req[y]
      BY <1>2, <2>1 DEF DiscardGet, InHand, Applying, Open, Local
    <2>3. Claims' = Claims \cup {<<x, s>>} /\ \A c \in Claims : c[1] # x
      BY <2>2, ClaimBegins
    <2>4. Lifecycle!Claim(x, s)
      BY <2>2, <2>3 DEF Lifecycle!Claim
    <2> QED BY <2>2, <2>4 DEF Lifecycle!Next
  <1>3. CASE DiscardSet(x)
    <2>1. /\ UNCHANGED written /\ InHand(x) /\ ~ InHand(x)'
          /\ status' = [status EXCEPT ![req[x].rid] = "discarded"]
          /\ \A y \in Admin \ {x} : pc'[y] = pc[y] /\ req'[y] = req[y]
      BY <1>3 DEF DiscardSet, Decide, InHand, Applying
    <2>2. req[x].rid \in RunId /\ <<x, req[x].rid>> \in Claims
      BY <2>1 DEF Claims, InHand
    <2>3. Lifecycle!Close(x, req[x].rid, "discarded")
      BY <2>1, <2>2, ClaimEnds DEF Lifecycle!Close
    <2> QED BY <2>2, <2>3 DEF Lifecycle!Next, Lifecycle!Closing
  <1> QED BY <1>1, <1>2, <1>3 DEF Review

\* A new list opens a run and supersedes open ones; a generation holds no claim.
LEMMA GenerateLives ==
    ASSUME TypeInv, KnownInv, NEW x \in Actor, Generate(x)
    PROVE  Lifecycle!Next \/ UNCHANGED <<status, written, Claims>>
  <1> USE DEF Goto, tables, history, TypeInv, TypeOK, Actor
  <1>1. /\ UNCHANGED written /\ ~ InHand(x) /\ ~ InHand(x)'
        /\ \A y \in Actor \ {x} : pc'[y] = pc[y] /\ req'[y] = req[y]
    BY DEF Generate, GenRead, GenFail, GenIgnored, GenDns, GenBegin, GenCommit, AfterGen, Generating,
           InHand, Applying
  <1>2. Claims' = Claims
    BY <1>1, ClaimsKept DEF InHand, Applying
  <1>3. CASE GenCommit(x)
    <2> DEFINE n == runs + 1
    <2>1. status' = [s \in RunId |-> IF s = n THEN "open"
                                     ELSE IF s \in Superseded(x) THEN "superseded" ELSE status[s]]
      BY <1>3 DEF GenCommit
    <2>2. n \in RunId /\ n > runs
      BY <1>3, BoundAssumption DEF GenCommit, RunId
    <2>3. status[n] = "none"
      BY <2>2 DEF KnownInv
    <2>4. Superseded(x) \in SUBSET {s \in RunId : status[s] = "open"}
      BY DEF Superseded, Open
    <2>5. Lifecycle!OpenRun(n)
      BY <1>1, <1>2, <2>1, <2>3, <2>4 DEF Lifecycle!OpenRun
    <2> QED BY <2>2, <2>5 DEF Lifecycle!Next
  <1>4. CASE ~ GenCommit(x)
    <2>1. UNCHANGED status
      BY <1>4 DEF Generate, GenRead, GenFail, GenIgnored, GenDns, GenBegin
    <2> QED BY <1>1, <1>2, <2>1
  <1> QED BY <1>3, <1>4

\* Exempting holds no claim; a request that breaks off gives its claim up.
LEMMA OthersLive ==
    ASSUME TypeInv,
           \/ UNCHANGED vars \/ Environment
           \/ \E x \in Admin : Ignoring(x) \/ HandlerFails(x)
           \/ \E w \in Worker : Schedule(w) \/ Crash(w)
    PROVE  Lifecycle!Next \/ UNCHANGED <<status, written, Claims>>
  <1> USE DEF Goto, Done, tables, history, TypeInv, TypeOK, Actor
  <1>1. CASE UNCHANGED vars \/ Environment
    <2>1. UNCHANGED <<status, written, pc, req>>
      BY <1>1 DEF vars, Environment, EditItop, Release, EditDns, FlipWrite, NewSlot
    <2> QED BY <2>1 DEF Claims, InHand, Applying
  <1>2. ASSUME NEW x \in Admin, Ignoring(x) PROVE UNCHANGED <<status, written, Claims>>
    <2>1. /\ UNCHANGED <<status, written>> /\ ~ InHand(x) /\ ~ InHand(x)'
          /\ \A y \in Admin \ {x} : pc'[y] = pc[y] /\ req'[y] = req[y]
      BY <1>2 DEF Ignoring, IgnoreAdd, IgnoreList, IgnoreGet, IgnoreSet, Unignore, InHand, Applying
    <2>2. Claims' = Claims
      BY <2>1, ClaimsKept DEF InHand, Applying
    <2> QED BY <2>1, <2>2
  <1>3. ASSUME NEW w \in Worker, Schedule(w) PROVE UNCHANGED <<status, written, Claims>>
    <2>1. /\ UNCHANGED <<status, written>> /\ ~ InHand(w) /\ ~ InHand(w)'
          /\ \A y \in Actor \ {w} : pc'[y] = pc[y] /\ req'[y] = req[y]
      BY <1>3 DEF Schedule, SchedDue, SchedLock, SchedUnlock, InHand, Applying
    <2>2. Claims' = Claims
      BY <2>1, ClaimsKept DEF InHand, Applying
    <2> QED BY <2>1, <2>2
  <1>4. ASSUME NEW x \in Admin, HandlerFails(x) PROVE Lifecycle!Next
    <2>1. /\ UNCHANGED <<status, written>> /\ ~ InHand(x)'
          /\ \A y \in Admin \ {x} : pc'[y] = pc[y] /\ req'[y] = req[y]
      BY <1>4 DEF HandlerFails, InHand, Applying
    <2>2. \A y \in Admin : InHand(y)' => InHand(y) /\ req'[y].rid = req[y].rid
      BY <2>1 DEF InHand, Applying
    <2>3. Lifecycle!Drop
      BY <2>1, <2>2, ClaimsDropped DEF Lifecycle!Drop
    <2> QED BY <2>3 DEF Lifecycle!Next
  <1>5. ASSUME NEW w \in Worker, Crash(w) PROVE Lifecycle!Next
    <2>1. /\ UNCHANGED <<status, written>>
          /\ \A y \in Admin : pc'[y] = "idle" \/ (pc'[y] = pc[y] /\ req'[y] = req[y])
      BY <1>5 DEF Crash
    <2>2. \A y \in Admin : InHand(y)' => InHand(y) /\ req'[y].rid = req[y].rid
      BY <2>1 DEF InHand, Applying
    <2>3. Lifecycle!Drop
      BY <2>1, <2>2, ClaimsDropped DEF Lifecycle!Drop
    <2> QED BY <2>3 DEF Lifecycle!Next
  <1> QED BY <1>1, <1>2, <1>3, <1>4, <1>5

\* With any number of admins and workers, crashes and failing calls, reviewing follows the
\* life cycle of ReviewLifecycle: rows take effect in iTop only under a claim that a request
\* got on the run while it was open, a claim closes its run once at most, a new list
\* supersedes open ones only, and no run opens again (routers/dnssync.py, service.py, store.py).
THEOREM ReviewFollowsLifecycle == Spec => RefinesLifecycle
  <1>1. Init => Lifecycle!Init
    BY DEF Init, Lifecycle!Init, Claims, InHand, Applying, Actor
  <1>2. TypeInv /\ KnownInv /\ [Next]_vars => [Lifecycle!Next]_(Lifecycle!vars)
    <2> SUFFICES ASSUME TypeInv, KnownInv, [Next]_vars
                 PROVE  Lifecycle!Next \/ UNCHANGED <<status, written, Claims>>
      BY DEF Lifecycle!vars
    <2> QED BY ApplyLives, ReviewLives, GenerateLives, OthersLive DEF Next
  <1>3. TypeInv /\ KnownInv /\ [Next]_vars => KnownInv'
    BY KnownNext
  <1> QED BY <1>1, <1>2, <1>3, KnownInit, TypeInit, TypeNext, PTL DEF Spec, RefinesLifecycle, Lifecycle!Spec
=============================================================================
