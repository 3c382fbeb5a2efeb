--------------------------- MODULE FmgSync_proofs ---------------------------
(***************************************************************************)
(* Proofs about the synchronization of the FortiManager inventory, for     *)
(* every list of ADOMs, every data of the FortiManager and every bound:    *)
(* what is served never gets older, and a run that ends as "done" serves   *)
(* exactly what it read.                                                   *)
(***************************************************************************)
EXTENDS FmgSync, FunctionTheorems, SequenceTheorems, TLAPS

AllAdoms == ToSet(Adoms) \cup {Global}
Versions == 0..MaxChange
Rows     == [adom : Name, kind : Name, key : Seq(Name), ver : Versions]
VdomMaps == UNION {[D -> Names] : D \in SUBSET Name}
Reads    == [kind : Name, key : Seq(Name)]
Locals   == [adoms : Seq(Name), stage : Nat, read : Seq(Reads),
             items : SUBSET Rows, store : Seq(Name), packages : Names, devices : Names,
             vdoms : VdomMaps, built : SUBSET Rows, open : BOOLEAN, got : SUBSET Rows]

----------------------------------------------------------------------------
(* The inductive invariant.  The parts about a run are predicates of its local variables l, *)
(* the table R, the inventory S that is served and the version v of the FortiManager.       *)

StageKinds(n) == ToSet(KindsOf(Stages[n]))
AdomKinds == UNION {StageKinds(n) : n \in 2..Len(Stages)}
Later(n) == UNION {StageKinds(m) : m \in (n + 1)..Len(Stages)}

\* The rows of an ADOM are of kinds some stage stores.
Fits(r) == /\ r.adom \in AllAdoms
           /\ IF r.adom = Global THEN r.kind = "global_policy" ELSE r.kind \in AdomKinds

AdomOf(l)       == IF Stages[l.stage] = Global THEN Global ELSE Head(l.adoms)
Of(R, a)        == {r \in R : r.adom = a}
OfKind(R, a, k) == {r \in R : r.adom = a /\ r.kind = k}

\* A row stands once in the table, and nothing is older than what is served of it.
Unique(R)      == \A r, s \in R : Same(r, s) => r = s
NotOlder(S, R) == \A r \in S, s \in R : Same(r, s) => r.ver <= s.ver

BaseInv(l) ==
    /\ l \in Locals
    /\ l.adoms # <<>> /\ IsInjective(l.adoms) /\ ToSet(l.adoms) \subseteq ToSet(Adoms)
    /\ l.stage \in 1..Len(Stages)
    /\ IsInjective(l.store) /\ ToSet(l.store) \subseteq StageKinds(l.stage)
    /\ DOMAIN l.vdoms = ToSet(l.devices)

\* Kinds read one key after the other, all others come as a list.
ByKey == {"policy", "global_policy"} \cup ToSet(Hardware)
ReadKinds(n) == StageKinds(n) \cup (IF Stages[n] = Global THEN {"pkglist"} ELSE {})

\* What is still to be read was not read yet; no kind is stored before.
ReadInv(l) ==
    /\ \A i, j \in DOMAIN l.read : l.read[i] = l.read[j] => i = j
    /\ \A i \in DOMAIN l.read : LET r == l.read[i] IN
         /\ r.kind \in ReadKinds(l.stage)
         /\ \A q \in l.items : q.kind = r.kind => q.key # r.key
         /\ r.kind = "interface" =>
               /\ r.key[1] \in ToSet(l.devices)
               /\ \A j \in DOMAIN l.read : l.read[j].key[1] = r.key[1] => i = j
               /\ \A q \in l.items : q.key[1] # r.key[1]
         /\ r.kind \notin ByKey => Len(l.read) = 1 /\ l.items = {}
    /\ l.read # <<>> => l.store = KindsOf(Stages[l.stage])

ItemInv(l, S, v) ==
    /\ \A q \in l.items : q.adom = AdomOf(l) /\ q.kind \in StageKinds(l.stage) /\ q.ver <= v
    /\ Unique(l.items)
    /\ NotOlder(S, l.items)

\* The table agrees with what was read of a kind, or nothing of the global rules was.
Synced(l, R, a, k) == \/ OfKind(R, a, k) = OfKind(l.got, a, k)
                      \/ a = Global /\ OfKind(l.got, a, k) = {}
Agrees(l, R, a) == Of(R, a) = Of(l.got, a) \/ Of(l.got, a) = {}

Left(l, a) == IF a = Global THEN l.stage # 1 ELSE a \notin ToSet(l.adoms)
GotInv(l, R) ==
    /\ \A r \in l.got : Fits(r)
    /\ \A a \in AllAdoms : Left(l, a) => Agrees(l, R, a)
    /\ \A a \in ToSet(l.adoms) : a # AdomOf(l) => Of(l.got, a) = {}
    /\ \A k \in ToSet(l.store) :
          OfKind(l.got, AdomOf(l), k) = OfKind(l.items, AdomOf(l), k)
    /\ \A k \in Later(l.stage) : OfKind(l.got, AdomOf(l), k) = {}
    /\ \A k \in UNION {StageKinds(m) : m \in 1..l.stage} :
          /\ k \notin ToSet(l.store)
          /\ k \in AdomKinds \/ AdomOf(l) = Global
          => Synced(l, R, AdomOf(l), k)

LocalInv(l, R, S, v) == BaseInv(l) /\ ReadInv(l) /\ ItemInv(l, S, v) /\ GotInv(l, R)

DoneInv(l, R) == l \in Locals /\ \A r \in l.got : Fits(r) /\ Agrees(l, R, r.adom)

TableInv(R, S, v) ==
    /\ R \subseteq Rows /\ S \subseteq Rows
    /\ \A r \in R : Fits(r)
    /\ \A r \in R \cup S : r.ver <= v
    /\ Unique(R) /\ Unique(S) /\ NotOlder(S, R)

Busy == {"sync", "load", "publish"}
TypeInv ==
    /\ fmg \in Versions
    /\ phase \in {"idle", "running", "done", "error"}
    /\ pc \in [Runner -> {"idle", "dead", "ready", "close"} \cup Busy]
    /\ run \in [Runner -> Locals]

\* One run at a time.
ExclInv ==
    /\ \A x \in Runner : pc[x] \in Busy => phase = "running"
    /\ \A x, y \in Runner : pc[x] \in Busy /\ pc[y] \in Busy => x = y

RunInv(x) ==
    /\ pc[x] = "ready" => run[x] = [Local EXCEPT !.adoms = Adoms]
    /\ pc[x] = "sync" => /\ LocalInv(run[x], rows, served, fmg)
                         /\ run[x].read # <<>> \/ run[x].store # <<>>
    /\ pc[x] \in {"load", "publish"} => DoneInv(run[x], rows)
    /\ pc[x] = "publish" => run[x].built = rows

SyncInv == TypeInv /\ ExclInv /\ TableInv(rows, served, fmg) /\ \A x \in Runner : RunInv(x)

----------------------------------------------------------------------------
(* Sequences without repetition *)

\* Without its first name a list has the others, each once.
LEMMA TailOfNames ==
    ASSUME NEW T, NEW s \in Seq(T), s # <<>>, IsInjective(s)
    PROVE  /\ Tail(s) \in Seq(T) /\ IsInjective(Tail(s))
           /\ Head(s) \in T /\ Head(s) \in ToSet(s)
           /\ ToSet(Tail(s)) = ToSet(s) \ {Head(s)}
<1>1. /\ Tail(s) \in Seq(T) /\ Head(s) = s[1] /\ Len(s) \in Nat /\ Len(s) >= 1
      /\ DOMAIN s = 1..Len(s) /\ DOMAIN Tail(s) = 1..(Len(s) - 1)
      /\ \A i \in 1..(Len(s) - 1) : Tail(s)[i] = s[i + 1]
  OBVIOUS
<1>2. \A i, j \in 1..Len(s) : s[i] = s[j] => i = j
  BY <1>1 DEF IsInjective
<1>3. IsInjective(Tail(s))
  <2> SUFFICES ASSUME NEW i \in 1..(Len(s) - 1), NEW j \in 1..(Len(s) - 1), Tail(s)[i] = Tail(s)[j]
               PROVE  i = j
    BY <1>1 DEF IsInjective
  <2>1. s[i + 1] = s[j + 1] /\ i + 1 \in 1..Len(s) /\ j + 1 \in 1..Len(s)
    BY <1>1
  <2> QED  BY <1>1, <1>2, <2>1
<1>4. \A e \in ToSet(Tail(s)) : e \in ToSet(s) \ {Head(s)}
  <2> SUFFICES ASSUME NEW i \in 1..(Len(s) - 1) PROVE Tail(s)[i] \in ToSet(s) \ {Head(s)}
    BY <1>1 DEF ToSet
  <2>1. Tail(s)[i] = s[i + 1] /\ i + 1 \in 1..Len(s) /\ i + 1 # 1 /\ 1 \in 1..Len(s)
    BY <1>1
  <2> QED  BY <1>1, <1>2, <2>1 DEF ToSet
<1>5. \A e \in ToSet(s) \ {Head(s)} : e \in ToSet(Tail(s))
  <2> SUFFICES ASSUME NEW i \in 1..Len(s), s[i] # s[1] PROVE s[i] \in ToSet(Tail(s))
    BY <1>1 DEF ToSet
  <2>1. i - 1 \in 1..(Len(s) - 1) /\ (i - 1) + 1 = i
    BY <1>1
  <2>2. Tail(s)[i - 1] = s[i]
    BY <1>1, <2>1
  <2> QED  BY <1>1, <2>1, <2>2 DEF ToSet
<1>6. Head(s) \in T /\ Head(s) \in ToSet(s)
  BY <1>1 DEF ToSet
<1>7. ToSet(Tail(s)) = ToSet(s) \ {Head(s)}
  BY <1>4, <1>5
<1> QED  BY <1>1, <1>3, <1>6, <1>7

----------------------------------------------------------------------------
(* The stages of an ADOM *)

\* The stages of an ADOM: devices, packages, policies, the object kinds, the hardware.
LEMMA StagesAre ==
    /\ Stages \in Seq(Name)
    /\ Len(Stages) = Len(ObjKind) + 5 /\ Len(ObjKind) \in Nat
    /\ Stages[1] = Global /\ Stages[2] = "device" /\ Stages[3] = "package" /\ Stages[4] = "policy"
    /\ \A i \in 1..Len(ObjKind) : Stages[4 + i] = ObjKind[i]
    /\ Stages[Len(ObjKind) + 5] = "hardware"
<1>1. ObjKind \in Seq(Name) /\ Len(ObjKind) \in Nat
  BY KindAssumption DEF Names
<1> DEFINE front == <<Global, "device", "package", "policy">>
           most == front \o ObjKind
<1>2. /\ Len(front) = 4 /\ front[1] = Global /\ front[2] = "device"
      /\ front[3] = "package" /\ front[4] = "policy"
  OBVIOUS
<1>3. front \in Seq(Name)
  BY KindAssumption DEF OwnKinds
<1> HIDE DEF front
<1>4. /\ most \in Seq(Name) /\ Len(most) = 4 + Len(ObjKind)
      /\ \A i \in 1..4 + Len(ObjKind) : most[i] = IF i <= 4 THEN front[i] ELSE ObjKind[i - 4]
  <2>1. /\ front \o ObjKind \in Seq(Name)
        /\ Len(front \o ObjKind) = Len(front) + Len(ObjKind)
        /\ \A i \in 1..Len(front) + Len(ObjKind) : (front \o ObjKind)[i] =
              IF i <= Len(front) THEN front[i] ELSE ObjKind[i - Len(front)]
    BY <1>1, <1>3, ConcatProperties
  <2>2. most = front \o ObjKind
    OBVIOUS
  <2> HIDE DEF most
  <2> QED  BY <1>1, <1>2, <2>1, <2>2
<1> HIDE DEF most
<1>5. Stages = most \o <<"hardware">>
  BY DEF most, front, Stages
<1>6. <<"hardware">> \in Seq(Name) /\ Len(<<"hardware">>) = 1 /\ <<"hardware">>[1] = "hardware"
  BY KindAssumption DEF OwnKinds
<1>7. /\ Stages \in Seq(Name) /\ Len(Stages) = Len(ObjKind) + 5
      /\ \A i \in 1..Len(ObjKind) + 5 :
            Stages[i] = IF i <= 4 + Len(ObjKind) THEN most[i] ELSE <<"hardware">>[i - (4 + Len(ObjKind))]
  <2>1. /\ most \o <<"hardware">> \in Seq(Name)
        /\ Len(most \o <<"hardware">>) = Len(most) + 1
        /\ \A i \in 1..Len(most) + Len(<<"hardware">>) :
              (most \o <<"hardware">>)[i] =
                 IF i <= Len(most) THEN most[i] ELSE <<"hardware">>[i - Len(most)]
    BY <1>4, <1>6, ConcatProperties
  <2> QED  BY <1>1, <1>4, <1>5, <1>6, <2>1
<1>8. \A i \in 1..Len(ObjKind) + 4 :
         Stages[i] = IF i <= 4 THEN front[i] ELSE ObjKind[i - 4]
  BY <1>1, <1>4, <1>7
<1>9. Stages[1] = Global /\ Stages[2] = "device" /\ Stages[3] = "package" /\ Stages[4] = "policy"
  BY <1>1, <1>2, <1>8
<1>10. ASSUME NEW i \in 1..Len(ObjKind) PROVE Stages[4 + i] = ObjKind[i]
  <2>1. 4 + i \in 1..Len(ObjKind) + 4 /\ ~(4 + i <= 4) /\ (4 + i) - 4 = i
    BY <1>1
  <2> QED  BY <1>8, <2>1
<1>11. Stages[Len(ObjKind) + 5] = "hardware"
  <2>1. /\ Len(ObjKind) + 5 \in 1..Len(ObjKind) + 5 /\ ~(Len(ObjKind) + 5 <= 4 + Len(ObjKind))
        /\ (Len(ObjKind) + 5) - (4 + Len(ObjKind)) = 1
    BY <1>1
  <2> QED  BY <1>6, <1>7, <2>1
<1> QED  BY <1>1, <1>7, <1>9, <1>10, <1>11

\* No kind is stored in two stages, and none twice in one.
LEMMA KindsApart ==
    /\ \A n \in 1..Len(Stages) :
         /\ Stages[n] = Global <=> n = 1
         /\ KindsOf(Stages[n]) \in Seq(Name) /\ KindsOf(Stages[n]) # <<>>
         /\ IsInjective(KindsOf(Stages[n]))
    /\ \A n, m \in 1..Len(Stages) : n # m => StageKinds(n) \cap StageKinds(m) = {}
    /\ StageKinds(1) = {"global_policy"}
    /\ \A n \in 1..Len(Stages) \ {1, Len(Stages)} :
         /\ StageKinds(n) = {Stages[n]}
         /\ Stages[n] \notin {"hardware", "global_policy"} \cup ToSet(Hardware)
    /\ StageKinds(Len(Stages)) = ToSet(Hardware)
<1> DEFINE N == Len(ObjKind)
<1>1. /\ N \in Nat /\ Len(Stages) = N + 5 /\ \A n \in 1..N + 5 : Stages[n] \in Name
      /\ \A i, j \in 1..N : ObjKind[i] = ObjKind[j] => i = j
      /\ \A i \in 1..N : ObjKind[i] \notin OwnKinds
  <2>1. ObjKind \in Seq(Name) /\ IsInjective(ObjKind) /\ DOMAIN ObjKind = 1..N
    BY KindAssumption DEF Names
  <2>2. \A i, j \in 1..N : ObjKind[i] = ObjKind[j] => i = j
    BY <2>1 DEF IsInjective
  <2>3. \A i \in 1..N : ObjKind[i] \notin OwnKinds
    BY <2>1, KindAssumption DEF ToSet
  <2>4. Len(Stages) = N + 5 /\ N \in Nat /\ Stages \in Seq(Name)
    BY StagesAre
  <2> QED  BY <2>2, <2>3, <2>4
<1>2. /\ ToSet(Hardware) = {"interface", "route", "devzone"}
      /\ Hardware \in Seq(Name) /\ Hardware # <<>> /\ IsInjective(Hardware)
  <2>1. ToSet(Hardware) = {"interface", "route", "devzone"}
    BY DEF Hardware, ToSet
  <2>2. Hardware \in Seq(Name) /\ Hardware # <<>>
    BY <2>1, KindAssumption DEF Hardware, OwnKinds
  <2>3. IsInjective(Hardware)
    BY DEF Hardware, IsInjective
  <2> QED  BY <2>1, <2>2, <2>3
<1>3. ASSUME NEW n \in 1..N + 5, n # 1, n # N + 5
      PROVE  /\ Stages[n] \notin {Global, "hardware"} \cup {"global_policy"} \cup ToSet(Hardware)
             /\ \A m \in 1..N + 5 : Stages[m] = Stages[n] => m = n
  <2>1. ASSUME NEW m \in 1..N + 5
        PROVE  m = 1 \/ m = 2 \/ m = 3 \/ m = 4 \/ m = N + 5
               \/ (m - 4 \in 1..N /\ 4 + (m - 4) = m)
    BY <1>1
  <2>2. ASSUME NEW m \in 1..N + 5, m - 4 \in 1..N, 4 + (m - 4) = m
        PROVE  Stages[m] = ObjKind[m - 4]
    BY <2>2, StagesAre
  <2>3. {Global, "global_policy", "device", "package", "policy", "hardware", "interface", "route", "devzone"}
           \subseteq OwnKinds
    BY <1>2 DEF OwnKinds
  <2> HIDE DEF N
  <2>4. CASE n - 4 \in 1..N /\ 4 + (n - 4) = n
    <3>1. Stages[n] = ObjKind[n - 4] /\ Stages[n] \notin OwnKinds
      BY <1>1, <2>2, <2>4
    <3>2. ASSUME NEW m \in 1..N + 5, Stages[m] = Stages[n] PROVE m = n
      <4>1. m # 1 /\ m # 2 /\ m # 3 /\ m # 4 /\ m # N + 5
        BY <2>3, <3>1, <3>2, StagesAre DEF N
      <4>2. m - 4 \in 1..N /\ 4 + (m - 4) = m
        BY <2>1, <4>1
      <4>3. ObjKind[m - 4] = ObjKind[n - 4]
        BY <2>2, <3>1, <3>2, <4>2
      <4>4. m - 4 = n - 4
        BY <1>1, <2>4, <4>2, <4>3
      <4> QED  BY <2>4, <4>2, <4>4
    <3> QED  BY <1>2, <2>3, <3>1, <3>2
  <2>5. CASE n = 2 \/ n = 3 \/ n = 4
    <3>1. Stages[n] = IF n = 2 THEN "device" ELSE IF n = 3 THEN "package" ELSE "policy"
      BY <2>5, StagesAre
    <3>2. ASSUME NEW m \in 1..N + 5, Stages[m] = Stages[n] PROVE m = n
      <4>1. ~(m - 4 \in 1..N /\ 4 + (m - 4) = m)
        BY <1>1, <2>2, <2>3, <2>5, <3>1, <3>2
      <4>2. Stages[1] = "global" /\ Stages[N + 5] = "hardware"
        BY StagesAre DEF N, Global
      <4> QED  BY <2>1, <2>5, <3>1, <3>2, <4>1, <4>2, StagesAre
    <3>3. Stages[n] \in {"device", "package", "policy"}
      BY <2>5, <3>1
    <3> QED  BY <1>2, <3>2, <3>3 DEF Global
  <2> QED  BY <1>3, <2>1, <2>4, <2>5
<1>4. KindsOf(Stages[1]) = <<"global_policy">> /\ KindsOf(Stages[N + 5]) = Hardware
  BY StagesAre DEF KindsOf, Global
<1>5. \A n \in 1..N + 5 : n # 1 /\ n # N + 5 => KindsOf(Stages[n]) = <<Stages[n]>>
  BY <1>3 DEF KindsOf
<1>6. \A k \in Name : /\ <<k>> \in Seq(Name) /\ <<k>> # <<>> /\ IsInjective(<<k>>)
                      /\ ToSet(<<k>>) = {k}
  <2> TAKE k \in Name
  <2>1. ToSet(<<k>>) = {k}
    BY DEF ToSet
  <2>2. IsInjective(<<k>>)
    BY DEF IsInjective
  <2> QED  BY <2>1, <2>2
<1>7. \A n \in 1..N + 5 :
         /\ KindsOf(Stages[n]) \in Seq(Name) /\ KindsOf(Stages[n]) # <<>>
         /\ IsInjective(KindsOf(Stages[n]))
  <2> TAKE n \in 1..N + 5
  <2>1. CASE n = 1
    <3>1. "global_policy" \in Name
      BY KindAssumption DEF OwnKinds
    <3> QED  BY <1>4, <1>6, <2>1, <3>1
  <2>2. CASE n = N + 5
    BY <1>2, <1>4, <2>2
  <2>3. CASE n # 1 /\ n # N + 5
    BY <1>1, <1>5, <1>6, <2>3
  <2> QED  BY <2>1, <2>2, <2>3
<1>8. /\ StageKinds(1) = {"global_policy"} /\ StageKinds(N + 5) = ToSet(Hardware)
      /\ \A n \in 1..N + 5 : n # 1 /\ n # N + 5 => StageKinds(n) = {Stages[n]}
  <2>1. ToSet(<<"global_policy">>) = {"global_policy"}
    BY DEF ToSet
  <2> QED  BY <1>1, <1>4, <1>5, <1>6, <2>1 DEF StageKinds
<1>9. \A n \in 1..N + 5 : Stages[n] = Global <=> n = 1
  <2>1. Stages[N + 5] # Global /\ Stages[1] = Global
    BY StagesAre DEF Global
  <2> QED  BY <1>3, <2>1
<1>10. ASSUME NEW n \in 1..N + 5, NEW m \in 1..N + 5, n # m
       PROVE  StageKinds(n) \cap StageKinds(m) = {}
  <2>1. CASE n # 1 /\ n # N + 5
    <3>1. StageKinds(n) = {Stages[n]} /\ Stages[n] \notin {"global_policy"} \cup ToSet(Hardware)
      BY <1>3, <1>8, <2>1
    <3>2. m # 1 /\ m # N + 5 => Stages[m] # Stages[n]
      BY <1>3, <1>10, <2>1
    <3> QED  BY <1>8, <3>1, <3>2
  <2>2. CASE m # 1 /\ m # N + 5
    <3>1. StageKinds(m) = {Stages[m]} /\ Stages[m] \notin {"global_policy"} \cup ToSet(Hardware)
      BY <1>3, <1>8, <2>2
    <3>2. n # 1 /\ n # N + 5 => Stages[m] # Stages[n]
      BY <1>3, <1>10, <2>2
    <3> QED  BY <1>8, <3>1, <3>2
  <2>3. CASE n \in {1, N + 5} /\ m \in {1, N + 5}
    BY <1>2, <1>8, <1>10, <2>3
  <2> QED  BY <2>1, <2>2, <2>3
<1> QED  BY <1>1, <1>3, <1>7, <1>8, <1>9, <1>10

----------------------------------------------------------------------------
(* Entering a stage *)

\* Reads of one kind, one per key, in the order of the keys.
LEMMA EachReads ==
    ASSUME NEW k \in Name, NEW keys \in Names
    PROVE  /\ Each(k, keys) \in Seq(Reads) /\ DOMAIN Each(k, keys) = DOMAIN keys
           /\ \A i \in DOMAIN keys :
                 /\ Each(k, keys)[i].kind = k /\ Each(k, keys)[i].key[1] = keys[i]
                 /\ keys[i] \in ToSet(keys)
<1>1. keys \in Seq(Name) /\ DOMAIN keys = 1..Len(keys) /\ Len(keys) \in Nat
      /\ \A i \in 1..Len(keys) : keys[i] \in Name
  BY DEF Names
<1>2. \A i \in 1..Len(keys) : Reading(k, <<keys[i]>>) \in Reads
  BY <1>1 DEF Reading, Reads
<1>3. Each(k, keys) = [i \in 1..Len(keys) |-> Reading(k, <<keys[i]>>)]
  BY <1>1 DEF Each
<1>4. Each(k, keys) \in Seq(Reads)
  BY <1>1, <1>2, <1>3
<1>5. \A i \in DOMAIN keys : Reading(k, <<keys[i]>>).kind = k /\ Reading(k, <<keys[i]>>).key[1] = keys[i]
  BY DEF Reading
<1>6. \A i \in DOMAIN keys : keys[i] \in ToSet(keys)
  BY DEF ToSet
<1> QED  BY <1>1, <1>3, <1>4, <1>5, <1>6

\* A kind that is read as a list is read once.
LEMMA OneRead ==
    ASSUME NEW k \in Name
    PROVE  /\ <<Reading(k, NoKey)>> \in Seq(Reads)
           /\ Len(<<Reading(k, NoKey)>>) = 1 /\ DOMAIN <<Reading(k, NoKey)>> = {1}
           /\ <<Reading(k, NoKey)>>[1].kind = k
<1>1. Reading(k, NoKey) \in Reads /\ Reading(k, NoKey).kind = k
  BY DEF Reading, NoKey, Reads
<1> QED  BY <1>1

\* A run that enters a stage has all of its kinds to read and to store, and holds nothing.
LEMMA EnteredInv ==
    ASSUME NEW l \in Locals, NEW n \in 1..Len(Stages),
           IsInjective(l.adoms), ToSet(l.adoms) \subseteq ToSet(Adoms),
           DOMAIN l.vdoms = ToSet(l.devices), NEW m, m = Entered(l, n)
    PROVE  /\ m.adoms = l.adoms /\ m.got = l.got /\ m.stage = n /\ m.items = {}
           /\ m.store = KindsOf(Stages[n])
           /\ m \in Locals /\ ReadInv(m) /\ \A S, v : ItemInv(m, S, v)
           /\ l.adoms # <<>> => BaseInv(m)
<1>1. n \in Nat /\ Stages[n] \in Name /\ Len(Stages) \in Nat
  BY StagesAre
<1>2. /\ KindsOf(Stages[n]) \in Seq(Name) /\ IsInjective(KindsOf(Stages[n]))
      /\ ToSet(KindsOf(Stages[n])) = StageKinds(n)
      /\ Stages[n] = Global <=> n = 1
  BY KindsApart DEF StageKinds
<1>3. {Global, "pkglist", "policy", "interface"} \subseteq Name
  BY KindAssumption DEF OwnKinds, ToSet, Hardware
<1>4. l.packages \in Names /\ l.devices \in Names
  BY DEF Locals
<1> DEFINE reads == ReadsOf(l, Stages[n])
<1>5. /\ reads \in Seq(Reads)
      /\ \A i, j \in DOMAIN reads : reads[i] = reads[j] => i = j
      /\ \A i \in DOMAIN reads :
           /\ reads[i].kind \in ReadKinds(n)
           /\ reads[i].kind = "interface" =>
                 /\ reads[i].key[1] \in ToSet(l.devices)
                 /\ \A j \in DOMAIN reads : reads[j].key[1] = reads[i].key[1] => i = j
           /\ reads[i].kind \notin ByKey => Len(reads) = 1
  <2>1. CASE n = 1
    <3>1. reads = <<Reading("pkglist", NoKey)>>
      BY <1>2, <2>1 DEF ReadsOf, Global
    <3>2. "pkglist" \in ReadKinds(n) /\ "pkglist" # "interface"
      BY <1>2, <2>1 DEF ReadKinds
    <3> HIDE DEF reads
    <3> QED  BY <1>3, <3>1, <3>2, OneRead
  <2>2. CASE n = 4
    <3> DEFINE each == Each("policy", l.packages)
    <3>1. reads = each
      BY <2>2, StagesAre DEF ReadsOf, Global
    <3>2. "policy" \in ReadKinds(n) /\ "policy" \in ByKey /\ "policy" # "interface"
      BY <1>1, <2>2, StagesAre, KindsApart DEF ReadKinds, ByKey
    <3>3. /\ each \in Seq(Reads) /\ DOMAIN each = DOMAIN l.packages
          /\ \A i \in DOMAIN l.packages : /\ each[i].kind = "policy" /\ each[i].key[1] = l.packages[i]
                                          /\ l.packages[i] \in ToSet(l.packages)
          /\ \A i, j \in DOMAIN l.packages : l.packages[i] = l.packages[j] => i = j
      <4>1. "policy" \in Name /\ l.packages \in Names
        BY <1>3, <1>4
      <4>2. /\ Each("policy", l.packages) \in Seq(Reads)
            /\ DOMAIN Each("policy", l.packages) = DOMAIN l.packages
        BY <4>1, EachReads
      <4>3. ASSUME NEW i \in DOMAIN l.packages
            PROVE  /\ Each("policy", l.packages)[i].kind = "policy"
                   /\ Each("policy", l.packages)[i].key[1] = l.packages[i]
                   /\ l.packages[i] \in ToSet(l.packages)
        BY <4>1, EachReads
      <4>4. \A i, j \in DOMAIN l.packages : l.packages[i] = l.packages[j] => i = j
        BY <4>1 DEF Names, IsInjective
      <4> QED  BY <4>2, <4>3, <4>4
    <3> HIDE DEF reads, each
    <3> QED  BY <3>1, <3>2, <3>3
  <2>3. CASE n = Len(Stages)
    <3> DEFINE each == Each("interface", l.devices)
    <3>1. reads = each
      BY <2>3, StagesAre DEF ReadsOf, Global
    <3>2. "interface" \in ReadKinds(n) /\ "interface" \in ByKey
      BY <2>3, KindsApart DEF ReadKinds, ByKey, ToSet, Hardware
    <3>3. /\ each \in Seq(Reads) /\ DOMAIN each = DOMAIN l.devices
          /\ \A i \in DOMAIN l.devices : /\ each[i].kind = "interface" /\ each[i].key[1] = l.devices[i]
                                         /\ l.devices[i] \in ToSet(l.devices)
          /\ \A i, j \in DOMAIN l.devices : l.devices[i] = l.devices[j] => i = j
      <4>1. "interface" \in Name /\ l.devices \in Names
        BY <1>3, <1>4
      <4>2. /\ Each("interface", l.devices) \in Seq(Reads)
            /\ DOMAIN Each("interface", l.devices) = DOMAIN l.devices
        BY <4>1, EachReads
      <4>3. ASSUME NEW i \in DOMAIN l.devices
            PROVE  /\ Each("interface", l.devices)[i].kind = "interface"
                   /\ Each("interface", l.devices)[i].key[1] = l.devices[i]
                   /\ l.devices[i] \in ToSet(l.devices)
        BY <4>1, EachReads
      <4>4. \A i, j \in DOMAIN l.devices : l.devices[i] = l.devices[j] => i = j
        BY <4>1 DEF Names, IsInjective
      <4> QED  BY <4>2, <4>3, <4>4
    <3> HIDE DEF reads, each
    <3> QED  BY <3>1, <3>2, <3>3
  <2>4. CASE n # 1 /\ n # 4 /\ n # Len(Stages)
    <3>1. Stages[n] # Global /\ Stages[n] # "hardware" /\ StageKinds(n) = {Stages[n]}
      BY <2>4, KindsApart
    <3>2. Stages[n] # "policy" /\ Stages[n] # "interface"
      <4>1. 4 \in 1..Len(Stages) /\ 4 # Len(Stages) /\ 4 # 1 /\ Stages[4] = "policy"
        BY StagesAre
      <4>2. StageKinds(4) = {"policy"} /\ StageKinds(n) \cap StageKinds(4) = {}
        BY <2>4, <4>1, KindsApart
      <4>3. "interface" \in ToSet(Hardware)
        BY DEF ToSet, Hardware
      <4> QED  BY <2>4, <3>1, <4>2, <4>3, KindsApart
    <3>3. reads = <<Reading(Stages[n], NoKey)>>
      BY <3>1, <3>2 DEF ReadsOf
    <3>4. Stages[n] \in ReadKinds(n)
      BY <3>1 DEF ReadKinds
    <3> HIDE DEF reads
    <3> QED  BY <1>1, <3>2, <3>3, <3>4, OneRead
  <2> QED  BY <2>1, <2>2, <2>3, <2>4
<1>6. m = [l EXCEPT !.stage = n, !.items = {}, !.store = KindsOf(Stages[n]), !.read = reads]
  BY DEF Entered
<1> HIDE DEF reads
<1>7. /\ m \in Locals /\ m.adoms = l.adoms /\ m.got = l.got /\ m.stage = n /\ m.items = {}
      /\ m.store = KindsOf(Stages[n]) /\ m.read = reads /\ m.vdoms = l.vdoms /\ m.devices = l.devices
  BY <1>1, <1>2, <1>5, <1>6, ZenonT(60) DEF Locals
<1>8. ASSUME l.adoms # <<>> PROVE BaseInv(m)
  <2>1. m.adoms # <<>> /\ IsInjective(m.adoms) /\ ToSet(m.adoms) \subseteq ToSet(Adoms)
    BY <1>7, <1>8
  <2>2. IsInjective(m.store) /\ ToSet(m.store) \subseteq StageKinds(m.stage)
    BY <1>2, <1>7
  <2>3. DOMAIN m.vdoms = ToSet(m.devices)
    BY <1>7
  <2> QED  BY <1>7, <2>1, <2>2, <2>3 DEF BaseInv
<1>9. ReadInv(m)
  BY <1>5, <1>7 DEF ReadInv
<1>10. \A S, v : ItemInv(m, S, v)
  BY <1>7 DEF ItemInv, Unique, NotOlder
<1> QED  BY <1>7, <1>8, <1>9, <1>10

----------------------------------------------------------------------------
(* Going on to the next stage or ADOM *)

\* The first stage reads the global rules, the others an ADOM that is not Global.
LEMMA StageOneIsGlobal ==
    ASSUME NEW l, BaseInv(l)
    PROVE  /\ l.stage = 1 => AdomOf(l) = Global
           /\ l.stage # 1 => AdomOf(l) = Head(l.adoms)
           /\ Head(l.adoms) \in ToSet(l.adoms) /\ Head(l.adoms) # Global
           /\ Head(l.adoms) \in AllAdoms /\ AdomOf(l) \in AllAdoms
<1>1. l.stage \in 1..Len(Stages) /\ l.adoms \in Seq(Name) /\ l.adoms # <<>>
      /\ ToSet(l.adoms) \subseteq ToSet(Adoms)
  BY DEF BaseInv, Locals
<1>2. Head(l.adoms) \in ToSet(l.adoms)
  BY <1>1, TailOfNames DEF BaseInv
<1>3. Head(l.adoms) # Global /\ Head(l.adoms) \in AllAdoms
  BY <1>1, <1>2, AdomsAssumption DEF AllAdoms
<1> QED  BY <1>1, <1>2, <1>3, KindsApart DEF AdomOf, AllAdoms

\* With the last stage of an ADOM stored, the table holds what was read of it.
LEMMA AdomSynced ==
    ASSUME NEW l, NEW R, BaseInv(l), GotInv(l, R), l.store = <<>>, \A r \in R : Fits(r),
           l.stage = Len(Stages)
    PROVE  Agrees(l, R, Head(l.adoms))
<1> DEFINE a == Head(l.adoms)
<1>1. l.stage # 1 /\ 1 \in 1..Len(Stages) /\ Len(Stages) \in Nat
  BY StagesAre
<1>2. AdomOf(l) = a /\ a # Global
  BY <1>1, StageOneIsGlobal
<1> HIDE DEF a
<1>3. ToSet(l.store) = {}
  BY DEF ToSet
<1>4. ASSUME NEW k \in AdomKinds PROVE OfKind(R, a, k) = OfKind(l.got, a, k)
  <2>1. k \in UNION {StageKinds(m) : m \in 1..l.stage}
    BY <1>1, <1>4 DEF AdomKinds
  <2> QED  BY <1>2, <1>3, <2>1 DEF GotInv, Synced
<1>5. \A r \in R \cup l.got : r.adom = a => r.kind \in AdomKinds
  BY <1>2 DEF GotInv, Fits
<1>6. \A r : r \in Of(R, a) => r \in Of(l.got, a)
  BY <1>4, <1>5 DEF Of, OfKind
<1>7. \A r : r \in Of(l.got, a) => r \in Of(R, a)
  BY <1>4, <1>5 DEF Of, OfKind
<1> QED  BY <1>6, <1>7 DEF Agrees, a

\* A stage that is read and stored leaves the run right for the next one.
LEMMA NextStage ==
    ASSUME NEW l, NEW R, NEW S, NEW v, LocalInv(l, R, S, v), l.read = <<>>, l.store = <<>>,
           \A r \in R : Fits(r), l.stage < Len(Stages), NEW m, m = Entered(l, l.stage + 1)
    PROVE  m.adoms = l.adoms /\ LocalInv(m, R, S, v)
<1> DEFINE n == l.stage + 1
<1>1. /\ l \in Locals /\ l.adoms # <<>> /\ IsInjective(l.adoms)
      /\ ToSet(l.adoms) \subseteq ToSet(Adoms) /\ l.stage \in 1..Len(Stages)
      /\ DOMAIN l.vdoms = ToSet(l.devices)
  BY DEF LocalInv, BaseInv
<1>2. n \in 1..Len(Stages) /\ Len(Stages) \in Nat /\ l.stage \in Nat /\ n # 1 /\ n = l.stage + 1
      /\ m = Entered(l, n)
  BY <1>1, StagesAre
<1> HIDE DEF n
<1>3. /\ m.adoms = l.adoms /\ m.got = l.got /\ m.stage = n /\ m.items = {}
      /\ m.store = KindsOf(Stages[n])
      /\ BaseInv(m) /\ ReadInv(m) /\ ItemInv(m, S, v)
  <2>1. /\ m.adoms = l.adoms /\ m.got = l.got /\ m.stage = n /\ m.items = {}
        /\ m.store = KindsOf(Stages[n])
    BY <1>1, <1>2, EnteredInv
  <2>2. BaseInv(m)
    BY <1>1, <1>2, EnteredInv
  <2>3. ReadInv(m)
    BY <1>1, <1>2, EnteredInv
  <2>4. ItemInv(m, S, v)
    BY <1>1, <1>2, EnteredInv
  <2> QED  BY <2>1, <2>2, <2>3, <2>4
<1> DEFINE a == Head(l.adoms)
<1>4. AdomOf(m) = a /\ a \in ToSet(l.adoms) /\ a # Global
  BY <1>2, <1>3, StageOneIsGlobal
<1>5. ToSet(m.store) = StageKinds(n) /\ ToSet(l.store) = {}
  BY <1>3 DEF StageKinds, ToSet
<1> HIDE DEF a
<1>6. \A b \in AllAdoms : Left(m, b) => Agrees(m, R, b)
  <2> SUFFICES ASSUME NEW b \in AllAdoms, Left(m, b) PROVE Agrees(l, R, b)
    BY <1>3 DEF Agrees
  <2>1. CASE b # Global \/ l.stage # 1
    BY <1>3, <2>1 DEF LocalInv, GotInv, Left
  <2>2. CASE b = Global /\ l.stage = 1
    <3>1. AdomOf(l) = Global /\ StageKinds(1) = {"global_policy"}
      BY <2>2, StageOneIsGlobal, KindsApart DEF LocalInv
    <3>2. "global_policy" \in UNION {StageKinds(i) : i \in 1..l.stage}
      BY <2>2, <3>1
    <3>3. Synced(l, R, Global, "global_policy")
      BY <1>5, <3>1, <3>2 DEF LocalInv, GotInv
    <3>4. \A r \in R \cup l.got : r.adom = Global => r.kind = "global_policy"
      BY DEF LocalInv, GotInv, Fits
    <3>5. Of(R, Global) = OfKind(R, Global, "global_policy")
          /\ Of(l.got, Global) = OfKind(l.got, Global, "global_policy")
      BY <3>4 DEF Of, OfKind
    <3> QED  BY <2>2, <3>3, <3>5 DEF Synced, Agrees
  <2> QED  BY <2>1, <2>2
<1>7. \A b \in ToSet(m.adoms) : b # AdomOf(m) => Of(m.got, b) = {}
  <2> SUFFICES ASSUME NEW b \in ToSet(l.adoms), b # a PROVE Of(l.got, b) = {}
    BY <1>3, <1>4
  <2>1. b # Global
    BY <1>1, AdomsAssumption
  <2>2. b # AdomOf(l)
    BY <2>1, StageOneIsGlobal DEF LocalInv, a
  <2> QED  BY <2>2 DEF LocalInv, GotInv
<1>8. \A k \in Later(l.stage) : OfKind(l.got, a, k) = {}
  <2>1. CASE l.stage = 1
    <3>1. AdomOf(l) # a
      BY <1>4, <2>1, StageOneIsGlobal DEF LocalInv
    <3>2. Of(l.got, a) = {}
      BY <1>4, <3>1 DEF LocalInv, GotInv
    <3> QED  BY <3>2 DEF Of, OfKind
  <2>2. CASE l.stage # 1
    <3>1. AdomOf(l) = a
      BY <2>2, StageOneIsGlobal DEF LocalInv, a
    <3> QED  BY <3>1 DEF LocalInv, GotInv
  <2> QED  BY <2>1, <2>2
<1>9. \A k \in ToSet(m.store) : OfKind(m.got, AdomOf(m), k) = OfKind(m.items, AdomOf(m), k)
  <2>1. StageKinds(n) \subseteq Later(l.stage)
    BY <1>2 DEF Later
  <2>2. \A k : OfKind(m.items, a, k) = {}
    BY <1>3 DEF OfKind
  <2> QED  BY <1>3, <1>4, <1>5, <1>8, <2>1, <2>2
<1>10. \A k \in Later(m.stage) : OfKind(m.got, AdomOf(m), k) = {}
  <2>1. Later(n) \subseteq Later(l.stage)
    BY <1>2 DEF Later
  <2> QED  BY <1>3, <1>4, <1>8, <2>1
<1>11. ASSUME NEW k \in UNION {StageKinds(i) : i \in 1..m.stage}, k \notin ToSet(m.store),
              k \in AdomKinds \/ AdomOf(m) = Global
       PROVE  Synced(m, R, AdomOf(m), k)
  <2>1. k \in AdomKinds
    BY <1>4, <1>11
  <2>2. PICK i \in 1..n : k \in StageKinds(i) /\ k \notin StageKinds(n)
    <3>1. k \in UNION {StageKinds(i) : i \in 1..n}
      BY <1>3, <1>11
    <3>2. k \notin StageKinds(n)
      BY <1>5, <1>11
    <3> QED  BY <3>1, <3>2
  <2>3. i \in 1..l.stage
    BY <1>2, <2>2
  <2>4. i # 1 /\ l.stage # 1
    <3>1. PICK j \in 2..Len(Stages) : k \in StageKinds(j)
      BY <2>1 DEF AdomKinds
    <3>2. i = j
      BY <1>2, <2>2, <2>3, <3>1, KindsApart
    <3> QED  BY <1>2, <2>3, <3>1, <3>2
  <2>5. AdomOf(l) = a
    BY <2>4, StageOneIsGlobal DEF LocalInv, a
  <2>6. Synced(l, R, a, k)
    BY <1>5, <2>1, <2>2, <2>3, <2>5 DEF LocalInv, GotInv
  <2> QED  BY <1>3, <1>4, <2>6 DEF Synced
<1>12. \A r \in m.got : Fits(r)
  BY <1>3 DEF LocalInv, GotInv
<1>13. GotInv(m, R)
  BY <1>6, <1>7, <1>9, <1>10, <1>11, <1>12 DEF GotInv
<1> QED  BY <1>3, <1>13 DEF LocalInv

\* So does the last stage of an ADOM: the next ADOM begins, or the run is through.
LEMMA NextAdom ==
    ASSUME NEW l, NEW R, NEW S, NEW v, LocalInv(l, R, S, v), l.read = <<>>, l.store = <<>>,
           \A r \in R : Fits(r), l.stage = Len(Stages),
           NEW m, m = Entered([l EXCEPT !.adoms = Tail(@)], 2)
    PROVE  /\ m \in Locals
           /\ m.adoms = <<>> => DoneInv(m, R)
           /\ m.adoms # <<>> => LocalInv(m, R, S, v)
<1> DEFINE t == [l EXCEPT !.adoms = Tail(@)]
           a == Head(l.adoms)
<1>1. /\ l \in Locals /\ l.adoms # <<>> /\ IsInjective(l.adoms) /\ l.adoms \in Seq(Name)
      /\ ToSet(l.adoms) \subseteq ToSet(Adoms) /\ DOMAIN l.vdoms = ToSet(l.devices)
  BY DEF LocalInv, BaseInv, Locals
<1>2. /\ Tail(l.adoms) \in Seq(Name) /\ IsInjective(Tail(l.adoms))
      /\ ToSet(Tail(l.adoms)) = ToSet(l.adoms) \ {a}
  BY <1>1, TailOfNames
<1>3. /\ t \in Locals /\ t.adoms = Tail(l.adoms) /\ t.got = l.got
      /\ t.vdoms = l.vdoms /\ t.devices = l.devices
  BY <1>1, <1>2 DEF Locals
<1>4. 2 \in 1..Len(Stages) /\ l.stage # 1
  BY StagesAre
<1> HIDE DEF t
<1>5. m = Entered(t, 2)
  BY DEF t
<1>6. ToSet(t.adoms) \subseteq ToSet(Adoms) /\ IsInjective(t.adoms) /\ DOMAIN t.vdoms = ToSet(t.devices)
  BY <1>1, <1>2, <1>3
<1>7. /\ m.adoms = Tail(l.adoms) /\ m.got = l.got /\ m.stage = 2 /\ m.items = {}
      /\ m.store = KindsOf(Stages[2])
      /\ m \in Locals /\ ReadInv(m) /\ ItemInv(m, S, v)
      /\ m.adoms # <<>> => BaseInv(m)
  <2>1. m = [t EXCEPT !.stage = 2, !.items = {}, !.store = KindsOf(Stages[2]),
                      !.read = ReadsOf(t, Stages[2])]
    BY <1>5 DEF Entered
  <2>5. m.adoms = t.adoms /\ m.got = t.got /\ m.stage = 2 /\ m.items = {}
    BY <1>3, <2>1 DEF Locals
  <2>2. m.store = KindsOf(Stages[2]) /\ m \in Locals
    BY <1>3, <1>4, <1>5, <1>6, EnteredInv
  <2>3. ReadInv(m) /\ ItemInv(m, S, v)
    BY <1>3, <1>4, <1>5, <1>6, EnteredInv
  <2>4. t.adoms # <<>> => BaseInv(m)
    BY <1>3, <1>4, <1>5, <1>6, EnteredInv
  <2> QED  BY <1>3, <2>2, <2>3, <2>4, <2>5
<1>8. Agrees(l, R, a)
  BY AdomSynced DEF LocalInv
<1>9. AdomOf(l) = a /\ a # Global
  BY <1>4, StageOneIsGlobal DEF LocalInv
<1> HIDE DEF a
<1>10. \A b \in AllAdoms : b \notin ToSet(Tail(l.adoms)) => Agrees(l, R, b)
  <2> SUFFICES ASSUME NEW b \in AllAdoms, b \notin ToSet(Tail(l.adoms)), b # a
               PROVE  Agrees(l, R, b)
    BY <1>8
  <2>1. Left(l, b)
    BY <1>2, <1>4 DEF Left
  <2> QED  BY <2>1 DEF LocalInv, GotInv
<1>11. \A b \in ToSet(Tail(l.adoms)) : Of(l.got, b) = {}
  BY <1>2, <1>9 DEF LocalInv, GotInv
<1>12. \A r \in l.got : Fits(r)
  BY DEF LocalInv, GotInv
<1>13. ASSUME m.adoms = <<>> PROVE DoneInv(m, R)
  <2>1. ToSet(Tail(l.adoms)) = {}
    <3>1. ToSet(<<>>) = {}
      BY DEF ToSet
    <3> QED  BY <1>7, <1>13, <3>1
  <2>2. \A r \in m.got : Agrees(l, R, r.adom)
    BY <1>7, <1>10, <1>12, <2>1 DEF Fits
  <2>3. \A r \in m.got : Agrees(m, R, r.adom)
    BY <1>7, <2>2 DEF Agrees
  <2> QED  BY <1>7, <1>12, <2>3 DEF DoneInv
<1>14. ASSUME m.adoms # <<>> PROVE GotInv(m, R)
  <2>1. AdomOf(m) \in ToSet(Tail(l.adoms)) /\ AdomOf(m) # Global
    BY <1>7, <1>14, StageOneIsGlobal
  <2>2. Of(m.got, AdomOf(m)) = {}
    BY <1>7, <1>11, <2>1
  <2>3. \A k : OfKind(m.got, AdomOf(m), k) = {} /\ OfKind(m.items, AdomOf(m), k) = {}
    BY <1>7, <2>2 DEF Of, OfKind
  <2>4. \A b \in AllAdoms : Left(m, b) => Agrees(m, R, b)
    <3> SUFFICES ASSUME NEW b \in AllAdoms, Left(m, b) PROVE Agrees(l, R, b)
      BY <1>7 DEF Agrees
    <3>1. b # Global => b \notin ToSet(Tail(l.adoms))
      BY <1>7 DEF Left
    <3>2. Global \notin ToSet(Tail(l.adoms))
      BY <1>1, <1>2, AdomsAssumption
    <3> QED  BY <1>10, <3>1, <3>2
  <2>5. ASSUME NEW k \in UNION {StageKinds(i) : i \in 1..m.stage}, k \notin ToSet(m.store)
        PROVE  k \notin AdomKinds
    <3>1. k \in StageKinds(1) \/ k \in StageKinds(2)
      <4>1. PICK i \in 1..2 : k \in StageKinds(i)
        BY <1>7, <2>5
      <4> QED  BY <4>1
    <3>2. ToSet(m.store) = StageKinds(2)
      BY <1>7 DEF StageKinds
    <3>3. k \in StageKinds(1)
      BY <2>5, <3>1, <3>2
    <3>4. \A i \in 2..Len(Stages) : i \in 1..Len(Stages) /\ i # 1 /\ 1 \in 1..Len(Stages)
      BY StagesAre
    <3> QED  BY <3>3, <3>4, KindsApart DEF AdomKinds
  <2> QED  BY <1>7, <1>11, <1>12, <2>1, <2>3, <2>4, <2>5 DEF GotInv
<1> QED  BY <1>7, <1>13, <1>14 DEF LocalInv

\* Going on, wherever the run stands, keeps the invariant of a run.
LEMMA AdvancedInv ==
    ASSUME NEW l, NEW R, NEW S, NEW v, LocalInv(l, R, S, v), \A r \in R : Fits(r),
           NEW m, m = Advanced(l)
    PROVE  /\ m \in Locals
           /\ m.adoms = <<>> => DoneInv(m, R)
           /\ m.adoms # <<>> => LocalInv(m, R, S, v)
           /\ m.read # <<>> \/ m.store # <<>>
<1>1. BaseInv(l) /\ l \in Locals /\ l.adoms # <<>>
  BY DEF LocalInv, BaseInv
<1>stored. ASSUME NEW n \in 1..Len(Stages), NEW t \in Locals, m = Entered(t, n) PROVE m.store # <<>>
  <2>1. m.store = KindsOf(Stages[n])
    BY <1>stored DEF Entered, Locals
  <2> QED  BY <2>1, KindsApart
<1>2. CASE l.read # <<>> \/ l.store # <<>>
  <2>1. m = l
    BY <1>2 DEF Advanced
  <2> QED  BY <1>1, <1>2, <2>1
<1>3. CASE l.read = <<>> /\ l.store = <<>> /\ l.stage < Len(Stages)
  <2>1. m = Entered(l, l.stage + 1)
    BY <1>3 DEF Advanced
  <2>2. m.adoms = l.adoms /\ LocalInv(m, R, S, v)
    BY <1>3, <2>1, NextStage
  <2>3. l.stage + 1 \in 1..Len(Stages)
    BY <1>1, <1>3, StagesAre DEF BaseInv
  <2>4. m.store # <<>>
    BY <1>1, <1>stored, <2>1, <2>3
  <2> QED  BY <1>1, <2>2, <2>4 DEF LocalInv, BaseInv
<1>4. CASE l.read = <<>> /\ l.store = <<>> /\ ~(l.stage < Len(Stages))
  <2>1. m = Entered([l EXCEPT !.adoms = Tail(@)], 2)
    BY <1>4 DEF Advanced
  <2>2. l.stage = Len(Stages)
    BY <1>1, <1>4, StagesAre DEF BaseInv
  <2>3. 2 \in 1..Len(Stages) /\ [l EXCEPT !.adoms = Tail(@)] \in Locals
    <3>1. l.adoms \in Seq(Name) /\ Tail(l.adoms) \in Seq(Name)
      BY <1>1, TailOfNames DEF Locals, BaseInv
    <3>2. 2 \in 1..Len(Stages)
      BY StagesAre
    <3>3. [l EXCEPT !.adoms = Tail(@)] = [l EXCEPT !.adoms = Tail(l.adoms)]
      BY <1>1
    <3>4. [l EXCEPT !.adoms = Tail(l.adoms)] \in Locals
      BY <1>1, <3>1 DEF Locals
    <3> QED  BY <3>2, <3>3, <3>4
  <2>4. m.store # <<>>
    BY <1>stored, <2>1, <2>3
  <2>5. m \in Locals
    BY <1>4, <2>1, <2>2, NextAdom
  <2>6. m.adoms = <<>> => DoneInv(m, R)
    BY <1>4, <2>1, <2>2, NextAdom
  <2>7. m.adoms # <<>> => LocalInv(m, R, S, v)
    BY <1>4, <2>1, <2>2, NextAdom
  <2> QED  BY <2>4, <2>5, <2>6, <2>7
<1> QED  BY <1>2, <1>3, <1>4

----------------------------------------------------------------------------
(* Reading *)

\* The kinds of a stage are kinds of the table; interfaces come with the hardware only.
LEMMA KindsKnown ==
    ASSUME NEW n \in 1..Len(Stages)
    PROVE  /\ StageKinds(n) \subseteq OwnKinds \cup ToSet(ObjKind)
           /\ "pkglist" \notin StageKinds(n)
           /\ StageKinds(n) \subseteq Name
           /\ "interface" \in StageKinds(n) => n = Len(Stages)
           /\ n # 1 => StageKinds(n) \subseteq AdomKinds
<1>1. Len(Stages) = Len(ObjKind) + 5 /\ Len(ObjKind) \in Nat /\ DOMAIN ObjKind = 1..Len(ObjKind)
      /\ \A i \in DOMAIN ObjKind : ObjKind[i] \in ToSet(ObjKind)
  BY StagesAre, KindAssumption DEF Names, ToSet
<1>2. /\ {"global_policy", "device", "package", "policy"} \cup ToSet(Hardware) \subseteq OwnKinds
      /\ "pkglist" \in OwnKinds /\ "interface" \in ToSet(Hardware) /\ "pkglist" \notin ToSet(Hardware)
  BY DEF OwnKinds, ToSet, Hardware
<1>3. CASE n # 1 /\ n # Len(Stages)
  <2>1. StageKinds(n) = {Stages[n]} /\ Stages[n] \in Name /\ "interface" # Stages[n]
    BY <1>2, <1>3, KindsApart, StagesAre
  <2>2. CASE n = 2 \/ n = 3 \/ n = 4
    <3>1. Stages[n] \in {"device", "package", "policy"}
      BY <2>2, StagesAre
    <3> QED  BY <1>2, <1>3, <2>1, <3>1 DEF AdomKinds
  <2>3. CASE n # 2 /\ n # 3 /\ n # 4
    <3>1. n - 4 \in 1..Len(ObjKind) /\ 4 + (n - 4) = n
      BY <1>1, <1>3, <2>3
    <3>2. Stages[n] = ObjKind[n - 4]
      BY <3>1, StagesAre
    <3>3. Stages[n] \in ToSet(ObjKind) /\ Stages[n] \notin OwnKinds
      BY <1>1, <3>1, <3>2, KindAssumption
    <3> QED  BY <1>1, <1>2, <1>3, <2>1, <3>3 DEF AdomKinds
  <2> QED  BY <2>2, <2>3
<1>4. CASE n = 1
  BY <1>1, <1>2, <1>4, KindsApart, KindAssumption
<1>5. CASE n = Len(Stages)
  <2>1. n \in 2..Len(Stages)
    BY <1>1, <1>5
  <2> QED  BY <1>2, <1>5, <2>1, KindsApart, KindAssumption DEF AdomKinds
<1> QED  BY <1>3, <1>4, <1>5

\* Routes and zones of a device are read VDOM by VDOM, each once.
LEMMA VdomsInTurn ==
    ASSUME NEW d \in Name, NEW vs \in Names, NEW reads, reads = VdomReads(d, vs)
    PROVE  /\ reads \in Seq(Reads)
           /\ \A i \in DOMAIN reads : reads[i].kind \in {"route", "devzone"} /\ reads[i].key[1] = d
           /\ \A i, j \in DOMAIN reads : reads[i] = reads[j] => i = j
<1> DEFINE kind(i) == IF i % 2 = 1 THEN "route" ELSE "devzone"
           half(i) == (i + 1) \div 2
           read(i) == Reading(kind(i), <<d, vs[half(i)]>>)
<1>1. vs \in Seq(Name) /\ Len(vs) \in Nat /\ 2 * Len(vs) \in Nat
      /\ \A i, j \in 1..Len(vs) : vs[i] = vs[j] => i = j
  BY DEF Names, IsInjective
<1>2. \A i \in 1..2 * Len(vs) : half(i) \in 1..Len(vs) /\ (i % 2 = 1 \/ i % 2 = 0)
  BY <1>1
<1>3. reads = [i \in 1..2 * Len(vs) |-> read(i)]
  BY DEF VdomReads
<1>4. \A i \in 1..2 * Len(vs) : kind(i) \in Name /\ vs[half(i)] \in Name
  <2>1. "route" \in Name /\ "devzone" \in Name
    BY KindAssumption DEF OwnKinds, ToSet, Hardware
  <2>2. \A i \in 1..2 * Len(vs) : half(i) \in 1..Len(vs)
    BY <1>2
  <2> HIDE DEF half
  <2> QED  BY <1>1, <2>1, <2>2
<1>5. ASSUME NEW i \in 1..2 * Len(vs), NEW j \in 1..2 * Len(vs), kind(i) = kind(j), half(i) = half(j)
      PROVE  i = j
  <2>1. i % 2 = j % 2
    BY <1>2, <1>5
  <2>2. (i + 1) \div 2 = (j + 1) \div 2
    BY <1>5
  <2> QED  BY <2>1, <2>2
<1> HIDE DEF kind, half
<1>6. \A i \in 1..2 * Len(vs) : read(i) \in Reads
  BY <1>4 DEF Reading, Reads
<1>7. \A i \in 1..2 * Len(vs) :
         /\ read(i).kind = kind(i) /\ read(i).key[1] = d /\ read(i).key[2] = vs[half(i)]
  BY DEF Reading
<1> HIDE DEF read
<1>8. reads \in Seq(Reads) /\ DOMAIN reads = 1..2 * Len(vs)
  BY <1>1, <1>3, <1>6
<1>9. \A i \in 1..2 * Len(vs) : kind(i) \in {"route", "devzone"}
  BY DEF kind
<1>10. ASSUME NEW i \in 1..2 * Len(vs), NEW j \in 1..2 * Len(vs), read(i) = read(j)
       PROVE  i = j
  <2>1. kind(i) = kind(j) /\ vs[half(i)] = vs[half(j)]
    BY <1>7, <1>10
  <2>2. half(i) = half(j)
    BY <1>1, <1>2, <2>1
  <2> QED  BY <1>5, <2>1, <2>2
<1> QED  BY <1>3, <1>7, <1>8, <1>9, <1>10

\* The elements of a tail are those after the first, one place further on.
LEMMA TailIs ==
    ASSUME NEW T, NEW s \in Seq(T), s # <<>>
    PROVE  /\ Tail(s) \in Seq(T) /\ Head(s) = s[1] /\ Head(s) \in T
           /\ 1 \in DOMAIN s /\ Len(s) \in Nat
           /\ \A i \in DOMAIN Tail(s) : /\ i \in Nat /\ i + 1 \in DOMAIN s /\ i + 1 # 1 /\ Len(s) # 1
                                        /\ Tail(s)[i] = s[i + 1]
OBVIOUS

\* The reads after the first one, once its rows were kept.
LEMMA TailReads ==
    ASSUME NEW l, BaseInv(l), ReadInv(l), l.read # <<>>,
           NEW m, m.read = Tail(l.read), m.stage = l.stage, m.store = l.store,
           Head(l.read).kind \in ByKey =>
              \A q \in m.items :
                 q \in l.items \/ (q.kind = Head(l.read).kind /\ q.key = Head(l.read).key),
           Head(l.read).kind \in ByKey => m.devices = l.devices
    PROVE  ReadInv(m)
<1> DEFINE reads == l.read
           tail == Tail(reads)
           r == Head(reads)
<1>1. /\ reads \in Seq(Reads) /\ reads # <<>>
  BY DEF BaseInv, Locals
<1>2. /\ r = reads[1] /\ r \in Reads /\ 1 \in DOMAIN reads
      /\ \A i \in DOMAIN tail : /\ i \in Nat /\ i + 1 \in DOMAIN reads /\ i + 1 # 1 /\ Len(reads) # 1
                                /\ tail[i] = reads[i + 1]
  BY <1>1, TailIs
<1>3. /\ \A i, j \in DOMAIN reads : reads[i] = reads[j] => i = j
      /\ reads # <<>> => l.store = KindsOf(Stages[l.stage])
      /\ \A i \in DOMAIN reads :
         /\ reads[i].kind \in ReadKinds(l.stage)
         /\ \A q \in l.items : q.kind = reads[i].kind => q.key # reads[i].key
         /\ reads[i].kind = "interface" =>
               /\ reads[i].key[1] \in ToSet(l.devices)
               /\ \A j \in DOMAIN reads : reads[j].key[1] = reads[i].key[1] => i = j
               /\ \A q \in l.items : q.key[1] # reads[i].key[1]
         /\ reads[i].kind \notin ByKey => Len(reads) = 1 /\ l.items = {}
  BY DEF ReadInv
<1>4. \A i \in DOMAIN reads : reads[i] \in Reads
  BY <1>1
<1>5. m.read = tail
  OBVIOUS
<1> HIDE DEF tail, reads
<1>6. ASSUME NEW i \in DOMAIN tail PROVE r.kind \in ByKey /\ tail[i].kind \in ByKey
  BY <1>2, <1>3
<1>7. ASSUME NEW i \in DOMAIN tail, NEW j \in DOMAIN tail, tail[i] = tail[j] PROVE i = j
  <2>1. i + 1 = j + 1
    BY <1>2, <1>3, <1>7
  <2> QED  BY <1>2, <2>1
<1>8. ASSUME NEW i \in DOMAIN tail, NEW q \in m.items, q.kind = tail[i].kind
      PROVE  q.key # tail[i].key
  <2>1. CASE q \in l.items
    BY <1>2, <1>3, <1>8, <2>1
  <2>2. CASE q \notin l.items
    <3>1. q.kind = r.kind /\ q.key = r.key
      BY <1>6, <2>2 DEF reads
    <3>2. tail[i] # r /\ tail[i] \in Reads
      BY <1>2, <1>3, <1>4
    <3>3. tail[i].kind = r.kind => tail[i].key # r.key
      <4>1. r = [kind |-> r.kind, key |-> r.key] /\ tail[i] = [kind |-> tail[i].kind, key |-> tail[i].key]
        BY <1>2, <3>2 DEF Reads
      <4> QED  BY <3>2, <4>1
    <3> QED  BY <1>8, <3>1, <3>3
  <2> QED  BY <2>1, <2>2
<1>9. ASSUME NEW i \in DOMAIN tail, tail[i].kind = "interface"
      PROVE  /\ tail[i].key[1] \in ToSet(m.devices)
             /\ \A j \in DOMAIN tail : tail[j].key[1] = tail[i].key[1] => i = j
             /\ \A q \in m.items : q.key[1] # tail[i].key[1]
  <2>1. m.devices = l.devices
    BY <1>6 DEF reads
  <2>2. tail[i].key[1] \in ToSet(l.devices) /\ r.key[1] # tail[i].key[1]
    BY <1>2, <1>3, <1>9
  <2>3. ASSUME NEW j \in DOMAIN tail, tail[j].key[1] = tail[i].key[1] PROVE i = j
    <3>1. i + 1 = j + 1
      BY <1>2, <1>3, <1>9, <2>3
    <3> QED  BY <1>2, <3>1
  <2>4. \A q \in m.items : q \in l.items \/ q.key = r.key
    BY <1>6 DEF reads
  <2>5. \A q \in l.items : q.key[1] # tail[i].key[1]
    BY <1>2, <1>3, <1>9
  <2> QED  BY <2>1, <2>2, <2>3, <2>4, <2>5
<1>10. \A i \in DOMAIN tail : tail[i].kind \in ReadKinds(m.stage)
  BY <1>2, <1>3
<1>11. m.store = KindsOf(Stages[m.stage])
  BY <1>1, <1>3
<1> QED  BY <1>5, <1>6, <1>7, <1>8, <1>9, <1>10, <1>11 DEF ReadInv

\* What a read answers: rows of the ADOM and the stage that the run does not hold yet.
LEMMA RowsNew ==
    ASSUME NEW l, BaseInv(l), ReadInv(l), l.read # <<>>, fmg \in Versions,
           NEW a, a = AdomOf(l), NEW r, r = Head(l.read), NEW new, new = RowsOf(a, r)
    PROVE  /\ new \subseteq Rows
           /\ \A q \in new : q.adom = a /\ q.kind = r.kind /\ q.kind \in StageKinds(l.stage)
                             /\ q.ver = fmg
           /\ r.kind \in ByKey => \A q \in new : q.key = r.key
           /\ Unique(new)
           /\ \A q \in new, p \in l.items : ~Same(q, p) /\ ~Same(p, q)
<1>1. /\ l.read \in Seq(Reads) /\ r \in Reads /\ 1 \in DOMAIN l.read /\ r = l.read[1]
      /\ l.stage \in 1..Len(Stages)
  BY TailIs DEF BaseInv, Locals
<1>2. /\ r.kind \in ReadKinds(l.stage) /\ r.kind \in Name /\ r.key \in Seq(Name)
      /\ \A q \in l.items : q.kind = r.kind => q.key # r.key
      /\ r.kind \notin ByKey => l.items = {}
  BY <1>1 DEF ReadInv, Reads
<1>3. a \in Name /\ a \in AllAdoms
  <2>1. a \in AllAdoms
    BY StageOneIsGlobal
  <2>2. ToSet(Adoms) \subseteq Name /\ Global \in Name
    BY AdomsAssumption, KindAssumption DEF Names, ToSet, OwnKinds
  <2> QED  BY <2>1, <2>2 DEF AllAdoms
<1>4. r.kind \in StageKinds(l.stage) \/ r.kind = "pkglist"
  BY <1>2 DEF ReadKinds
<1>5. r.kind \in OwnKinds \cup ToSet(ObjKind)
  BY <1>1, <1>4, KindsKnown DEF OwnKinds
<1>6. /\ \A q \in Listed(a, r.kind) :
            /\ q \in Rows /\ q.adom = a /\ q.kind = r.kind /\ q.ver = fmg
      /\ Unique(Listed(a, r.kind))
  <2>1. Keys(fmg, a, r.kind) \in Names
    BY <1>3, <1>5, KeysAssumption DEF AllAdoms, Versions
  <2>2. \A key \in ToSet(Keys(fmg, a, r.kind)) : <<key>> \in Seq(Name)
    BY <2>1 DEF Names, ToSet
  <2>3. \A q \in Listed(a, r.kind) : q = Row(a, r.kind, q.key, fmg) /\ q.key \in Seq(Name)
    <3> SUFFICES ASSUME NEW key \in ToSet(Keys(fmg, a, r.kind))
                 PROVE  LET q == Row(a, r.kind, <<key>>, fmg)
                        IN  q = Row(a, r.kind, q.key, fmg) /\ q.key \in Seq(Name)
      BY DEF Listed
    <3>1. Row(a, r.kind, <<key>>, fmg).key = <<key>>
      BY DEF Row
    <3> QED  BY <2>2, <3>1
  <2>4. \A q \in Listed(a, r.kind) : q.adom = a /\ q.kind = r.kind /\ q.ver = fmg
    BY <2>3 DEF Row
  <2>5. \A q \in Listed(a, r.kind) : q \in Rows
    BY <1>2, <1>3, <2>3 DEF Row, Rows
  <2>6. Unique(Listed(a, r.kind))
    BY <2>3 DEF Unique, Same
  <2> QED  BY <2>4, <2>5, <2>6
<1>7. CASE r.kind \in {"policy"} \cup ToSet(Hardware)
  <2>1. new = {Row(a, r.kind, r.key, fmg)}
    BY <1>7 DEF RowsOf, ToSet, Hardware
  <2>2. /\ Row(a, r.kind, r.key, fmg) \in Rows /\ Row(a, r.kind, r.key, fmg).adom = a
        /\ Row(a, r.kind, r.key, fmg).kind = r.kind /\ Row(a, r.kind, r.key, fmg).key = r.key
        /\ Row(a, r.kind, r.key, fmg).ver = fmg
    BY <1>2, <1>3 DEF Row, Rows
  <2>3. r.kind \in StageKinds(l.stage)
    BY <1>4, <1>7 DEF ToSet, Hardware
  <2> QED  BY <1>2, <2>1, <2>2, <2>3 DEF Unique, Same
<1>8. CASE r.kind = "global_policy"
  <2>1. new = {q \in Listed(a, r.kind) : q.key = r.key}
    BY <1>8 DEF RowsOf, ToSet, Hardware
  <2>2. r.kind \in StageKinds(l.stage)
    BY <1>4, <1>8
  <2> QED  BY <1>2, <1>6, <2>1, <2>2 DEF Unique, Same
<1>9. CASE r.kind = "pkglist"
  <2>1. new = {}
    BY <1>9 DEF RowsOf, ToSet, Hardware
  <2> QED  BY <2>1 DEF Unique
<1>10. CASE r.kind \notin {"policy", "global_policy", "pkglist"} \cup ToSet(Hardware)
  <2>1. new = Listed(a, r.kind)
    BY <1>10 DEF RowsOf
  <2>2. r.kind \in StageKinds(l.stage) /\ r.kind \notin ByKey
    BY <1>4, <1>10 DEF ByKey
  <2> QED  BY <1>2, <1>6, <2>1, <2>2
<1> QED  BY <1>7, <1>8, <1>9, <1>10

\* A row of the ADOM and the stage at hand fits the table.
LEMMA StageFits ==
    ASSUME NEW l, BaseInv(l), NEW q, q.adom = AdomOf(l), q.kind \in StageKinds(l.stage)
    PROVE  Fits(q)
<1>1. /\ l.stage \in 1..Len(Stages) /\ AdomOf(l) \in AllAdoms
      /\ l.stage = 1 => AdomOf(l) = Global
      /\ l.stage # 1 => AdomOf(l) # Global
  BY StageOneIsGlobal DEF BaseInv
<1>2. CASE l.stage = 1
  BY <1>1, <1>2, KindsApart DEF Fits
<1>3. CASE l.stage # 1
  BY <1>1, <1>3, KindsKnown DEF Fits
<1> QED  BY <1>2, <1>3

\* The rows new are kept, as rows still to be stored and as part of what was read.
LEMMA ItemsAdded ==
    ASSUME NEW l, NEW R, NEW S, NEW v, BaseInv(l), ItemInv(l, S, v), GotInv(l, R),
           \A s \in S : s.ver <= v, v \in Versions, l.store = KindsOf(Stages[l.stage]), NEW new,
           \A q \in new : q.adom = AdomOf(l) /\ q.kind \in StageKinds(l.stage) /\ q.ver = v,
           Unique(new), \A q \in new, p \in l.items : ~Same(q, p) /\ ~Same(p, q),
           NEW m, m.adoms = l.adoms, m.stage = l.stage, m.store = l.store,
           m.items = l.items \cup new, m.got = l.got \cup new
    PROVE  ItemInv(m, S, v) /\ GotInv(m, R)
<1> DEFINE a == AdomOf(l)
           n == l.stage
<1>1. /\ a = AdomOf(m) /\ n \in 1..Len(Stages) /\ Len(Stages) \in Nat /\ a \in AllAdoms
      /\ n # 1 => a \in ToSet(l.adoms) /\ a # Global
  <2>1. a = AdomOf(m)
    BY DEF AdomOf
  <2> QED  BY <2>1, StagesAre, StageOneIsGlobal DEF BaseInv
<1>2. n = 1 => a = Global
  BY StageOneIsGlobal
<1>3. ToSet(l.store) = StageKinds(n)
  BY DEF StageKinds
<1> HIDE DEF a
<1>4. ItemInv(m, S, v)
  <2>1. \A q \in m.items : q.adom = a /\ q.kind \in StageKinds(m.stage) /\ q.ver <= v
    <3>1. v <= v
      BY DEF Versions
    <3> QED  BY <3>1 DEF ItemInv, a
  <2>2. Unique(m.items)
    BY DEF ItemInv, Unique
  <2>3. NotOlder(S, m.items)
    BY DEF ItemInv, NotOlder
  <2> QED  BY <1>1, <2>1, <2>2, <2>3 DEF ItemInv
<1>5. \A q \in new : Fits(q)
  BY StageFits
<1>6. \A b : b # a => Of(m.got, b) = Of(l.got, b)
  BY DEF Of, a
<1>7. \A k : k \notin StageKinds(n) => OfKind(m.got, a, k) = OfKind(l.got, a, k)
  BY DEF OfKind, a
<1>8. \A b \in AllAdoms : Left(m, b) => Agrees(m, R, b)
  <2> SUFFICES ASSUME NEW b \in AllAdoms, Left(m, b) PROVE Agrees(m, R, b)
    OBVIOUS
  <2>1. Left(l, b) /\ b # a
    BY <1>1, <1>2 DEF Left
  <2>2. Agrees(l, R, b)
    BY <2>1 DEF GotInv
  <2> QED  BY <1>6, <2>1, <2>2 DEF Agrees
<1>9. \A b \in ToSet(m.adoms) : b # a => Of(m.got, b) = {}
  BY <1>6 DEF GotInv, a
<1>10. \A k \in ToSet(m.store) : OfKind(m.got, a, k) = OfKind(m.items, a, k)
  <2>1. \A k \in ToSet(l.store) : OfKind(l.got, a, k) = OfKind(l.items, a, k)
    BY DEF GotInv, a
  <2> QED  BY <2>1 DEF OfKind
<1>11. \A k \in Later(m.stage) : OfKind(m.got, a, k) = {}
  <2>1. \A k \in Later(n) : k \notin StageKinds(n)
    <3>1. \A j \in (n + 1)..Len(Stages) : j \in 1..Len(Stages) /\ j # n
      BY <1>1
    <3> QED  BY <1>1, <3>1, KindsApart DEF Later
  <2>2. \A k \in Later(n) : OfKind(l.got, a, k) = {}
    BY DEF GotInv, a
  <2> QED  BY <1>7, <2>1, <2>2
<1>12. \A k \in UNION {StageKinds(j) : j \in 1..m.stage} :
          k \notin ToSet(m.store) /\ (k \in AdomKinds \/ a = Global) => Synced(m, R, a, k)
  <2> SUFFICES ASSUME NEW k \in UNION {StageKinds(j) : j \in 1..l.stage}, k \notin ToSet(l.store),
                      k \in AdomKinds \/ a = Global
               PROVE  Synced(m, R, a, k)
    OBVIOUS
  <2>1. Synced(l, R, a, k)
    BY DEF GotInv, a
  <2> QED  BY <1>3, <1>7, <2>1 DEF Synced
<1>13. \A r \in m.got : Fits(r)
  BY <1>5 DEF GotInv
<1>14. GotInv(m, R)
  BY <1>1, <1>8, <1>9, <1>10, <1>11, <1>12, <1>13 DEF GotInv
<1> QED  BY <1>4, <1>14

\* An element of two lists joined is one of the first or one of the second.
LEMMA ConcatIs ==
    ASSUME NEW T, NEW s \in Seq(T), NEW t \in Seq(T), NEW c, c = s \o t
    PROVE  /\ c \in Seq(T)
           /\ \A i \in DOMAIN c :
                 /\ i \in Nat
                 /\ \/ i \in DOMAIN s /\ i <= Len(s) /\ c[i] = s[i]
                    \/ i - Len(s) \in DOMAIN t /\ i > Len(s) /\ c[i] = t[i - Len(s)]
<1>1. /\ s \o t \in Seq(T) /\ Len(s \o t) = Len(s) + Len(t)
      /\ \A i \in 1..Len(s) + Len(t) :
            (s \o t)[i] = IF i <= Len(s) THEN s[i] ELSE t[i - Len(s)]
  BY ConcatProperties
<1>2. DOMAIN s = 1..Len(s) /\ DOMAIN t = 1..Len(t) /\ Len(s) \in Nat /\ Len(t) \in Nat
  OBVIOUS
<1>3. DOMAIN c = 1..(Len(s) + Len(t))
  BY <1>1, <1>2
<1> QED  BY <1>1, <1>2, <1>3

\* The kinds of the last stage.
LEMMA HardwareKinds == ToSet(Hardware) = {"interface", "route", "devzone"}
BY DEF ToSet, Hardware

\* Reads of routes and zones come before the rest of the reads, those of other devices.
LEMMA DeviceFirst ==
    ASSUME NEW l, NEW t, NEW front, Len(front) \in Nat,
           \A i \in DOMAIN l.read :
              /\ i \in Nat
              /\ \/ i \in DOMAIN front /\ i <= Len(front) /\ l.read[i] = front[i]
                 \/ i - Len(front) \in DOMAIN t.read /\ i > Len(front) /\ l.read[i] = t.read[i - Len(front)],
           \A i \in DOMAIN front :
              /\ front[i].kind \in ReadKinds(l.stage) \cap {"route", "devzone"}
              /\ \A q \in l.items : q.kind = front[i].kind => q.key # front[i].key,
           \A i, j \in DOMAIN front : front[i] = front[j] => i = j,
           ReadInv(t), t.stage = l.stage, t.items = l.items, t.devices = l.devices,
           \A i \in DOMAIN front, j \in DOMAIN t.read : front[i].key[1] # t.read[j].key[1],
           \A i \in DOMAIN t.read : t.read[i].kind \in ByKey,
           l.store = KindsOf(Stages[l.stage])
    PROVE  ReadInv(l)
<1> DEFINE F == Len(front)
           reads == l.read
           rest == t.read
<1> HIDE DEF F, reads, rest
<1>1. /\ \A i, j \in DOMAIN rest : rest[i] = rest[j] => i = j
      /\ \A i \in DOMAIN rest :
           /\ rest[i].kind \in ReadKinds(l.stage)
           /\ \A q \in l.items : q.kind = rest[i].kind => q.key # rest[i].key
           /\ rest[i].kind = "interface" =>
                 /\ rest[i].key[1] \in ToSet(l.devices)
                 /\ \A j \in DOMAIN rest : rest[j].key[1] = rest[i].key[1] => i = j
                 /\ \A q \in l.items : q.key[1] # rest[i].key[1]
  <2>1. \A i, j \in DOMAIN rest : rest[i] = rest[j] => i = j
    BY DEF ReadInv, rest
  <2>2. \A i \in DOMAIN rest :
           /\ rest[i].kind \in ReadKinds(l.stage)
           /\ \A q \in l.items : q.kind = rest[i].kind => q.key # rest[i].key
    BY DEF ReadInv, rest
  <2>3. \A i \in DOMAIN rest : rest[i].kind = "interface" =>
                 /\ rest[i].key[1] \in ToSet(l.devices)
                 /\ \A j \in DOMAIN rest : rest[j].key[1] = rest[i].key[1] => i = j
                 /\ \A q \in l.items : q.key[1] # rest[i].key[1]
    BY DEF ReadInv, rest
  <2> QED  BY <2>1, <2>2, <2>3
<1>2. /\ F \in Nat
      /\ \A i \in DOMAIN reads :
            /\ i \in Nat
            /\ \/ i \in DOMAIN front /\ i <= F /\ reads[i] = front[i]
               \/ i - F \in DOMAIN rest /\ i > F /\ reads[i] = rest[i - F]
      /\ \A i \in DOMAIN front, j \in DOMAIN rest : front[i].key[1] # rest[j].key[1]
      /\ \A i \in DOMAIN rest : rest[i].kind \in ByKey
  BY DEF F, reads, rest
<1>3. ASSUME NEW i \in DOMAIN reads, NEW j \in DOMAIN reads, reads[i] = reads[j] PROVE i = j
  <2>1. CASE i <= F /\ j <= F
    BY <1>2, <1>3, <2>1
  <2>2. CASE i > F /\ j > F
    <3>1. i - F \in DOMAIN rest /\ reads[i] = rest[i - F] /\ j - F \in DOMAIN rest /\ reads[j] = rest[j - F]
          /\ i \in Nat /\ j \in Nat
      BY <1>2, <2>2
    <3>2. i - F = j - F
      BY <1>1, <1>3, <3>1, ZenonT(60)
    <3> QED  BY <1>2, <3>1, <3>2
  <2>3. CASE (i <= F /\ j > F) \/ (i > F /\ j <= F)
    BY <1>2, <1>3, <2>3
  <2>4. (i <= F \/ i > F) /\ (j <= F \/ j > F)
    BY <1>2
  <2> QED  BY ONLY <2>1, <2>2, <2>3, <2>4
<1>4. ASSUME NEW i \in DOMAIN reads, reads[i].kind = "interface", NEW j \in DOMAIN reads,
             reads[j].key[1] = reads[i].key[1]
      PROVE  i = j
  <2>1. i - F \in DOMAIN rest /\ reads[i] = rest[i - F] /\ i \in Nat
    BY <1>2, <1>4
  <2>2. j - F \in DOMAIN rest /\ reads[j] = rest[j - F] /\ j \in Nat
    BY <1>2, <1>4, <2>1
  <2>3. i - F = j - F
    BY <1>1, <1>4, <2>1, <2>2
  <2> QED  BY <1>2, <2>1, <2>2, <2>3
<1>5. ASSUME NEW i \in DOMAIN reads
      PROVE  /\ reads[i].kind \in ReadKinds(l.stage)
             /\ \A q \in l.items : q.kind = reads[i].kind => q.key # reads[i].key
             /\ reads[i].kind = "interface" =>
                   /\ reads[i].key[1] \in ToSet(l.devices)
                   /\ \A q \in l.items : q.key[1] # reads[i].key[1]
             /\ reads[i].kind \in ByKey
  <2>1. {"route", "devzone"} \subseteq ByKey
    BY HardwareKinds DEF ByKey
  <2> QED  BY <1>1, <1>2, <2>1
<1> QED  BY <1>3, <1>4, <1>5 DEF ReadInv, reads

\* What the interfaces of a device come with.
LEMMA InterfaceRead ==
    ASSUME NEW l, BaseInv(l), ReadInv(l), l.read # <<>>, Head(l.read).kind = "interface",
           NEW d, d = Head(l.read).key[1]
    PROVE  /\ d \in Name /\ d \in ToSet(l.devices) /\ l.vdoms[d] \in Names
           /\ \A q \in l.items : q.key[1] # d
           /\ \A i \in DOMAIN Tail(l.read) : /\ Tail(l.read)[i].key[1] # d
                                             /\ Tail(l.read)[i].kind \in ByKey
           /\ {"route", "devzone"} \subseteq ReadKinds(l.stage)
<1> DEFINE rest == Tail(l.read)
<1>1. /\ l \in Locals /\ l.read \in Seq(Reads) /\ 1 \in DOMAIN l.read /\ Head(l.read) = l.read[1]
      /\ l.stage \in 1..Len(Stages)
      /\ \A i \in DOMAIN rest : i + 1 \in DOMAIN l.read /\ i + 1 # 1 /\ rest[i] = l.read[i + 1]
  <2>1. l \in Locals /\ l.read \in Seq(Reads) /\ l.stage \in 1..Len(Stages)
    BY DEF BaseInv, Locals
  <2> QED  BY <2>1, TailIs
<1>2. /\ "interface" \in ReadKinds(l.stage) /\ d \in ToSet(l.devices)
      /\ \A q \in l.items : q.key[1] # d
  BY <1>1 DEF ReadInv
<1>3. \A j \in DOMAIN l.read : l.read[j].key[1] = l.read[1].key[1] => 1 = j
  BY <1>1 DEF ReadInv
<1>4. /\ l.devices \in Seq(Name) /\ DOMAIN l.vdoms = ToSet(l.devices) /\ l.vdoms \in VdomMaps
      /\ \A i \in DOMAIN l.read : l.read[i].kind \in ReadKinds(l.stage)
  BY <1>1 DEF Locals, BaseInv, Names, ReadInv
<1> HIDE DEF rest
<1>5. {"route", "devzone"} \subseteq ReadKinds(l.stage) /\ ReadKinds(l.stage) \subseteq ByKey
  <2>1. "interface" \in StageKinds(l.stage)
    BY <1>2 DEF ReadKinds
  <2>2. l.stage = Len(Stages) /\ StageKinds(l.stage) = ToSet(Hardware)
    BY <1>1, <2>1, KindsKnown, KindsApart
  <2>3. l.stage # 1
    BY <2>2, StagesAre
  <2>4. Stages[l.stage] # Global
    BY <1>1, <2>3, KindsApart
  <2> QED  BY <2>2, <2>4, HardwareKinds DEF ReadKinds, ByKey
<1>6. d \in Name
  BY <1>2, <1>4 DEF ToSet
<1>7. l.vdoms[d] \in Names
  BY <1>2, <1>4 DEF VdomMaps
<1>8. \A i \in DOMAIN rest : rest[i].key[1] # d /\ rest[i].kind \in ByKey
  BY <1>1, <1>3, <1>4, <1>5
<1> QED  BY <1>2, <1>5, <1>6, <1>7, <1>8 DEF rest

\* With the interfaces of a device read come its VDOMs, then the other devices.
LEMMA VdomsFirst ==
    ASSUME NEW l, BaseInv(l), ReadInv(l), l.read # <<>>,
           Head(l.read).kind = "interface",
           NEW front \in Seq(Reads),
           \A i \in DOMAIN front : front[i].kind \in {"route", "devzone"}
                                      /\ front[i].key[1] = Head(l.read).key[1],
           \A i, j \in DOMAIN front : front[i] = front[j] => i = j,
           NEW m \in Locals, m.stage = l.stage, m.store = l.store,
           \A q \in m.items : q \in l.items \/ (q.kind = "interface" /\ q.key = Head(l.read).key),
           m.devices = l.devices,
           \A i \in DOMAIN m.read :
              /\ i \in Nat
              /\ \/ i \in DOMAIN front /\ i <= Len(front) /\ m.read[i] = front[i]
                 \/ /\ i - Len(front) \in DOMAIN Tail(l.read) /\ i > Len(front)
                    /\ m.read[i] = Tail(l.read)[i - Len(front)]
    PROVE  ReadInv(m)
<1> DEFINE rest == Tail(l.read)
           r == Head(l.read)
           t == [m EXCEPT !.read = rest]
<1>0. t.read = rest /\ t.stage = l.stage /\ t.items = m.items /\ t.store = l.store
      /\ t.devices = l.devices
  BY DEF Locals
<1>1. ReadInv(t)
  <2>2. \A q \in m.items : q \in l.items \/ (q.kind = Head(l.read).kind /\ q.key = Head(l.read).key)
    OBVIOUS
  <2> HIDE DEF t
  <2> QED  BY ONLY BaseInv(l), ReadInv(l), l.read # <<>>, <1>0, <2>2, TailReads DEF rest
<1>2. \A i \in DOMAIN front :
         /\ front[i].kind \in ReadKinds(m.stage) \cap {"route", "devzone"}
         /\ \A q \in m.items : q.kind = front[i].kind => q.key # front[i].key
  <2> TAKE i \in DOMAIN front
  <2>1. \A q \in l.items : q.key # front[i].key
    BY InterfaceRead
  <2>2. \A q \in m.items : q \in l.items \/ q.kind # front[i].kind
    OBVIOUS
  <2>3. front[i].kind \in ReadKinds(l.stage)
    BY InterfaceRead
  <2> QED  BY <2>1, <2>2, <2>3
<1>3. \A i \in DOMAIN rest : rest[i].key[1] # r.key[1] /\ rest[i].kind \in ByKey
  BY InterfaceRead
<1>4. Len(front) \in Nat
  OBVIOUS
<1>5. m.store = KindsOf(Stages[m.stage])
  BY DEF ReadInv
<1> HIDE DEF t
<1>6. /\ \A i \in DOMAIN front, j \in DOMAIN t.read : front[i].key[1] # t.read[j].key[1]
      /\ \A i \in DOMAIN t.read : t.read[i].kind \in ByKey
  BY <1>0, <1>3
<1> HIDE DEF rest
<1>7. \A i \in DOMAIN m.read :
              /\ i \in Nat
              /\ \/ i \in DOMAIN front /\ i <= Len(front) /\ m.read[i] = front[i]
                 \/ i - Len(front) \in DOMAIN t.read /\ i > Len(front) /\ m.read[i] = t.read[i - Len(front)]
  BY <1>0 DEF rest
<1>8. \A i, j \in DOMAIN front : front[i] = front[j] => i = j
  OBVIOUS
<1>9. t.items = m.items /\ t.devices = m.devices /\ t.stage = m.stage
  BY <1>0
<1> QED  BY ONLY <1>1, <1>2, <1>4, <1>5, <1>6, <1>7, <1>8, <1>9, DeviceFirst

\* The rows a read answers are kept: nothing older, nothing twice, and of this stage.
LEMMA KeptInv ==
    ASSUME NEW x \in Runner, run \in [Runner -> Locals], NEW R, NEW S,
           NEW l, l = run[x], LocalInv(l, R, S, fmg), fmg \in Versions, \A s \in S : s.ver <= fmg,
           l.read # <<>>, NEW a, a = AdomOf(l), NEW open \in BOOLEAN,
           NEW m, m = Kept(x, a, Head(l.read), open)
    PROVE  LocalInv(m, R, S, fmg)
<1> DEFINE r == Head(l.read)
           new == RowsOf(a, r)
           keys == Keys(fmg, a, r.kind)
           front == VdomReads(r.key[1], l.vdoms[r.key[1]])
           reads == CASE r.kind = "pkglist" -> Each("global_policy", keys)
                      [] r.kind = "interface" -> front \o Tail(l.read)
                      [] OTHER -> Tail(l.read)
           packages == IF r.kind = "package" THEN keys ELSE l.packages
           devices == IF r.kind = "device" THEN keys ELSE l.devices
           vdoms == IF r.kind = "device" THEN [d \in ToSet(keys) |-> Vdoms(fmg, a, d)] ELSE l.vdoms
<1>1. BaseInv(l) /\ ReadInv(l) /\ ItemInv(l, S, fmg) /\ GotInv(l, R) /\ l \in Locals
  BY DEF LocalInv, BaseInv
<1>2. m = [l EXCEPT !.read = reads, !.items = l.items \cup new, !.got = l.got \cup new, !.open = open,
                    !.packages = packages, !.devices = devices, !.vdoms = vdoms]
  BY DEF Kept, Gathered
<1>3. /\ new \subseteq Rows
      /\ \A q \in new : q.adom = a /\ q.kind = r.kind /\ q.kind \in StageKinds(l.stage) /\ q.ver = fmg
      /\ r.kind \in ByKey => \A q \in new : q.key = r.key
      /\ Unique(new)
      /\ \A q \in new, p \in l.items : ~Same(q, p) /\ ~Same(p, q)
  BY <1>1, RowsNew
<1>4. /\ l.read \in Seq(Reads) /\ 1 \in DOMAIN l.read /\ r = l.read[1] /\ r \in Reads
      /\ Tail(l.read) \in Seq(Reads) /\ l.stage \in 1..Len(Stages)
  <2>1. l.read \in Seq(Reads) /\ l.stage \in 1..Len(Stages)
    BY <1>1 DEF BaseInv, Locals
  <2> QED  BY <2>1, TailIs
<1>5. /\ r.kind \in ReadKinds(l.stage) /\ l.store = KindsOf(Stages[l.stage])
      /\ r.kind \notin ByKey => l.items = {} /\ Len(l.read) = 1
  BY <1>1, <1>4 DEF ReadInv
<1>6. a \in AllAdoms
  BY <1>1, StageOneIsGlobal
<1>7. keys \in Names
  <2>1. r.kind \in OwnKinds \cup ToSet(ObjKind)
    BY <1>4, <1>5, KindsKnown DEF ReadKinds, OwnKinds
  <2> QED  BY <1>6, <2>1, KeysAssumption DEF AllAdoms, Versions
<1>8. packages \in Names /\ devices \in Names
  BY <1>1, <1>7 DEF Locals
<1>9. vdoms \in VdomMaps /\ DOMAIN vdoms = ToSet(devices)
  <2>1. CASE r.kind # "device"
    BY <1>1, <2>1 DEF Locals, BaseInv
  <2>2. CASE r.kind = "device"
    <3>1. keys = Keys(fmg, a, "device")
      BY <2>2
    <3>2. \A d \in ToSet(keys) : Vdoms(fmg, a, d) \in Names
      BY <1>6, <3>1, KeysAssumption DEF AllAdoms, Versions
    <3>3. ToSet(keys) \in SUBSET Name
      BY <1>7 DEF Names, ToSet
    <3>4. vdoms = [d \in ToSet(keys) |-> Vdoms(fmg, a, d)] /\ devices = keys
      BY <2>2
    <3> HIDE DEF vdoms, devices, keys
    <3>5. vdoms \in [ToSet(keys) -> Names]
      BY <3>2, <3>4
    <3> QED  BY <3>3, <3>4, <3>5 DEF VdomMaps
  <2> QED  BY <2>1, <2>2
<1>10. r.kind = "interface" =>
          /\ front \in Seq(Reads)
          /\ \A i \in DOMAIN front : front[i].kind \in {"route", "devzone"} /\ front[i].key[1] = r.key[1]
          /\ \A i, j \in DOMAIN front : front[i] = front[j] => i = j
  <2> SUFFICES ASSUME r.kind = "interface"
               PROVE  /\ front \in Seq(Reads)
                      /\ \A i \in DOMAIN front :
                            front[i].kind \in {"route", "devzone"} /\ front[i].key[1] = r.key[1]
                      /\ \A i, j \in DOMAIN front : front[i] = front[j] => i = j
    OBVIOUS
  <2>1. r.key[1] \in Name /\ l.vdoms[r.key[1]] \in Names
    BY <1>1, InterfaceRead
  <2> DEFINE d == r.key[1]
  <2>2. d \in Name /\ l.vdoms[d] \in Names /\ front = VdomReads(d, l.vdoms[d])
    BY <2>1
  <2> HIDE DEF d, front
  <2>3. front \in Seq(Reads)
    BY <2>2, VdomsInTurn
  <2>4. \A i \in DOMAIN front : front[i].kind \in {"route", "devzone"} /\ front[i].key[1] = d
    BY <2>2, VdomsInTurn
  <2>5. \A i, j \in DOMAIN front : front[i] = front[j] => i = j
    BY <2>2, VdomsInTurn
  <2> QED  BY <2>3, <2>4, <2>5, SMTT(60) DEF d
<1> HIDE DEF front
<1>11. /\ r.kind = "pkglist" => reads = Each("global_policy", keys)
       /\ r.kind = "interface" => reads = front \o Tail(l.read)
       /\ r.kind \notin {"pkglist", "interface"} => reads = Tail(l.read)
  OBVIOUS
<1> HIDE DEF reads, new, packages, devices, vdoms, keys
<1>12. "global_policy" \in Name /\ ByKey = {"policy", "global_policy", "interface", "route", "devzone"}
  BY KindAssumption, HardwareKinds DEF OwnKinds, ByKey
<1>13. reads \in Seq(Reads)
  <2>1. CASE r.kind = "pkglist"
    BY <1>7, <1>11, <1>12, <2>1, EachReads
  <2>2. CASE r.kind = "interface"
    <3>1. front \o Tail(l.read) \in Seq(Reads)
      BY <1>4, <1>10, <2>2, ConcatIs
    <3> QED  BY <1>11, <2>2, <3>1
  <2>3. CASE r.kind \notin {"pkglist", "interface"}
    BY <1>4, <1>11, <2>3
  <2> QED  BY <2>1, <2>2, <2>3
<1>14. /\ m \in Locals /\ m.adoms = l.adoms /\ m.stage = l.stage /\ m.store = l.store
       /\ m.read = reads /\ m.items = l.items \cup new /\ m.got = l.got \cup new
       /\ m.devices = devices /\ m.vdoms = vdoms
  <2>1. l.items \cup new \in SUBSET Rows /\ l.got \cup new \in SUBSET Rows
    BY <1>1, <1>3 DEF Locals
  <2> DEFINE items == l.items \cup new
             got == l.got \cup new
  <2> HIDE DEF items, got
  <2>2. m = [l EXCEPT !.read = reads, !.items = items, !.got = got, !.open = open,
                      !.packages = packages, !.devices = devices, !.vdoms = vdoms]
    BY <1>2 DEF items, got
  <2>3. items \in SUBSET Rows /\ got \in SUBSET Rows
    BY <2>1 DEF items, got
  <2>4. /\ m \in Locals /\ m.adoms = l.adoms /\ m.stage = l.stage /\ m.store = l.store
        /\ m.read = reads /\ m.items = items /\ m.got = got
        /\ m.devices = devices /\ m.vdoms = vdoms
    BY <1>1, <1>8, <1>9, <1>13, <2>2, <2>3, ZenonT(60) DEF Locals
  <2> QED  BY <2>4 DEF items, got
<1>15. BaseInv(m)
  BY <1>1, <1>9, <1>14 DEF BaseInv
<1>16. ReadInv(m)
  <2>1. CASE r.kind = "pkglist"
    <3> DEFINE each == Each("global_policy", keys)
    <3>1. m.read = each
      BY <1>11, <1>14, <2>1
    <3>2. \A i \in DOMAIN keys : each[i].kind = "global_policy" /\ each[i].key[1] = keys[i]
      BY <1>7, <1>12, EachReads
    <3>3. DOMAIN each = DOMAIN keys
      BY <1>7, <1>12, EachReads
    <3>4. \A i, j \in DOMAIN keys : keys[i] = keys[j] => i = j
      BY <1>7 DEF Names, IsInjective
    <3>5. m.items = {}
      <4>1. l.items = {}
        BY <1>5, <1>12, <2>1
      <4>2. new = {}
        BY <1>4, <1>3, <2>1, KindsKnown
      <4> QED  BY <1>14, <4>1, <4>2
    <3>6. "global_policy" \in ReadKinds(m.stage)
      <4>1. "pkglist" \notin StageKinds(l.stage)
        BY <1>4, KindsKnown
      <4>2. Stages[l.stage] = Global
        BY <1>5, <2>1, <4>1 DEF ReadKinds
      <4>3. l.stage = 1
        BY <1>4, <4>2, KindsApart
      <4> QED  BY <1>14, <4>3, KindsApart DEF ReadKinds
    <3>7. m.store = KindsOf(Stages[m.stage])
      BY <1>5, <1>14
    <3> HIDE DEF each
    <3> QED  BY ONLY <1>12, <3>1, <3>2, <3>3, <3>4, <3>5, <3>6, <3>7 DEF ReadInv
  <2>2. CASE r.kind = "interface"
    <3>1. /\ m.devices = l.devices
          /\ \A q \in m.items : q \in l.items \/ (q.kind = "interface" /\ q.key = r.key)
      BY <1>3, <1>12, <1>14, <2>2 DEF devices
    <3>2. \A i \in DOMAIN reads :
              /\ i \in Nat
              /\ \/ i \in DOMAIN front /\ i <= Len(front) /\ reads[i] = front[i]
                 \/ /\ i - Len(front) \in DOMAIN Tail(l.read) /\ i > Len(front)
                    /\ reads[i] = Tail(l.read)[i - Len(front)]
      <4>1. reads = front \o Tail(l.read)
        BY <1>11, <2>2
      <4> QED  BY <1>4, <1>10, <2>2, <4>1, ConcatIs
    <3>3. m \in Locals /\ m.stage = l.stage /\ m.store = l.store /\ m.read = reads
      BY <1>14
    <3>4. BaseInv(l) /\ ReadInv(l) /\ l.read # <<>>
      BY <1>1
    <3>5. /\ front \in Seq(Reads)
          /\ \A i \in DOMAIN front : front[i].kind \in {"route", "devzone"} /\ front[i].key[1] = r.key[1]
          /\ \A i, j \in DOMAIN front : front[i] = front[j] => i = j
      BY <1>10, <2>2
    <3>6. \A i \in DOMAIN m.read :
              /\ i \in Nat
              /\ \/ i \in DOMAIN front /\ i <= Len(front) /\ m.read[i] = front[i]
                 \/ /\ i - Len(front) \in DOMAIN Tail(l.read) /\ i > Len(front)
                    /\ m.read[i] = Tail(l.read)[i - Len(front)]
      BY <3>2, <3>3
    <3> QED  BY ONLY <2>2, <3>1, <3>3, <3>4, <3>5, <3>6, VdomsFirst
  <2>3. CASE r.kind \notin {"pkglist", "interface"}
    <3>1. r.kind \in ByKey => m.devices = l.devices
      BY <1>12, <1>14 DEF devices
    <3>2. m.read = Tail(l.read)
      BY <1>11, <1>14, <2>3
    <3>3. /\ m.stage = l.stage /\ m.store = l.store
          /\ r.kind \in ByKey =>
                \A q \in m.items : q \in l.items \/ (q.kind = r.kind /\ q.key = r.key)
          /\ BaseInv(l) /\ ReadInv(l) /\ l.read # <<>>
      BY <1>1, <1>3, <1>14
    <3> QED  BY ONLY <3>1, <3>2, <3>3, TailReads
  <2> QED  BY <2>1, <2>2, <2>3
<1>17. ItemInv(m, S, fmg) /\ GotInv(m, R)
  BY <1>1, <1>3, <1>5, <1>14, ItemsAdded
<1> QED  BY <1>15, <1>16, <1>17 DEF LocalInv

\* Whether the session is open says nothing about rows.
LEMMA OpenInv ==
    ASSUME NEW l, NEW R, NEW S, NEW v, LocalInv(l, R, S, v), NEW open \in BOOLEAN,
           NEW m, m = [l EXCEPT !.open = open]
    PROVE  LocalInv(m, R, S, v)
<1>1. l \in Locals
  BY DEF LocalInv, BaseInv
<1>2. /\ m \in Locals /\ m.adoms = l.adoms /\ m.stage = l.stage /\ m.store = l.store
      /\ m.read = l.read /\ m.items = l.items /\ m.got = l.got
      /\ m.devices = l.devices /\ m.vdoms = l.vdoms
  BY <1>1 DEF Locals
<1>3. AdomOf(m) = AdomOf(l)
  BY <1>2 DEF AdomOf
<1>4. BaseInv(m)
  BY <1>2 DEF LocalInv, BaseInv
<1>5. ReadInv(m)
  BY <1>2 DEF LocalInv, ReadInv
<1>6. ItemInv(m, S, v)
  BY <1>2, <1>3 DEF LocalInv, ItemInv
<1>7. GotInv(m, R)
  BY <1>2, <1>3 DEF LocalInv, GotInv, Left, Agrees, Synced
<1> QED  BY <1>4, <1>5, <1>6, <1>7 DEF LocalInv

\* A read that is passed over.
LEMMA SkippedInv ==
    ASSUME NEW l, NEW R, NEW S, NEW v, LocalInv(l, R, S, v), l.read # <<>>,
           NEW m, m = Skipped(l, Head(l.read))
    PROVE  LocalInv(m, R, S, v)
<1> DEFINE r == Head(l.read)
<1>1. /\ l \in Locals /\ l.read \in Seq(Reads) /\ 1 \in DOMAIN l.read /\ r = l.read[1]
      /\ Tail(l.read) \in Seq(Reads) /\ l.stage \in 1..Len(Stages)
      /\ BaseInv(l) /\ ReadInv(l) /\ ItemInv(l, S, v) /\ GotInv(l, R)
  <2>1. l \in Locals /\ l.read \in Seq(Reads) /\ l.stage \in 1..Len(Stages)
    BY DEF LocalInv, BaseInv, Locals
  <2> QED  BY <2>1, TailIs DEF LocalInv
<1>2. CASE r.kind # "pkglist"
  <2>1. m = [l EXCEPT !.read = Tail(l.read)]
    BY <1>2 DEF Skipped
  <2>2. /\ m \in Locals /\ m.adoms = l.adoms /\ m.stage = l.stage /\ m.store = l.store
        /\ m.read = Tail(l.read) /\ m.items = l.items /\ m.got = l.got
        /\ m.devices = l.devices /\ m.vdoms = l.vdoms
    BY <1>1, <2>1 DEF Locals
  <2>3. AdomOf(m) = AdomOf(l)
    BY <2>2 DEF AdomOf
  <2>4. BaseInv(m)
    BY <1>1, <2>2 DEF BaseInv
  <2>5. ReadInv(m)
    BY <1>1, <2>2, TailReads
  <2>6. ItemInv(m, S, v)
    BY <1>1, <2>2, <2>3 DEF ItemInv
  <2>7. GotInv(m, R)
    BY <1>1, <2>2, <2>3 DEF GotInv, Left, Agrees, Synced
  <2> QED  BY <2>4, <2>5, <2>6, <2>7 DEF LocalInv
<1>3. CASE r.kind = "pkglist"
  <2>1. m = [l EXCEPT !.read = <<>>, !.store = <<>>]
    BY <1>3 DEF Skipped
  <2>2. /\ m \in Locals /\ m.adoms = l.adoms /\ m.stage = l.stage /\ m.store = <<>>
        /\ m.read = <<>> /\ m.items = l.items /\ m.got = l.got
        /\ m.devices = l.devices /\ m.vdoms = l.vdoms
    <3>1. <<>> \in Seq(Name) /\ <<>> \in Seq(Reads)
      OBVIOUS
    <3> QED  BY <1>1, <2>1, <3>1 DEF Locals
  <2>3. AdomOf(m) = AdomOf(l) /\ ToSet(m.store) = {} /\ IsInjective(m.store)
    BY <2>2 DEF AdomOf, ToSet, IsInjective
  <2>4. /\ "pkglist" \in ReadKinds(l.stage) /\ l.store = KindsOf(Stages[l.stage])
        /\ l.items = {}
    BY <1>1, <1>3, HardwareKinds DEF ReadInv, ByKey
  <2>5. l.stage = 1 /\ AdomOf(l) = Global
    <3>1. "pkglist" \notin StageKinds(l.stage)
      BY <1>1, KindsKnown
    <3>2. Stages[l.stage] = Global
      BY <2>4, <3>1 DEF ReadKinds
    <3> QED  BY <1>1, <3>2, KindsApart DEF AdomOf
  <2>6. BaseInv(m)
    BY <1>1, <2>2, <2>3 DEF BaseInv
  <2>7. ReadInv(m)
    <3>1. m.read = <<>> /\ DOMAIN m.read = {}
      BY <2>2
    <3> QED BY <3>1, Zenon DEF ReadInv
  <2>8. ItemInv(m, S, v)
    BY <1>1, <2>2, <2>3 DEF ItemInv
  <2>9. \A k \in UNION {StageKinds(j) : j \in 1..l.stage} : OfKind(l.got, Global, k) = {}
    <3>1. UNION {StageKinds(j) : j \in 1..l.stage} = StageKinds(l.stage)
      BY <2>5
    <3>2. \A k \in StageKinds(l.stage) : OfKind(l.got, Global, k) = OfKind(l.items, Global, k)
      BY <1>1, <2>4, <2>5 DEF GotInv, StageKinds
    <3> QED  BY <2>4, <3>1, <3>2 DEF OfKind
  <2>10. GotInv(m, R)
    BY <1>1, <2>2, <2>3, <2>5, <2>9 DEF GotInv, Left, Agrees, Synced
  <2> QED  BY <2>6, <2>7, <2>8, <2>10 DEF LocalInv
<1> QED  BY <1>2, <1>3

----------------------------------------------------------------------------
(* Storing *)

\* Stored of the table R.
Replaced(R, a, k, items) == {r \in R : r.adom # a \/ r.kind # k} \cup {r \in items : r.kind = k}

\* A kind stored: the table then agrees with what was read of it.
LEMMA StoreInv ==
    ASSUME NEW l, NEW R, NEW S, NEW v, LocalInv(l, R, S, v), TableInv(R, S, v), v \in Versions,
           l.read = <<>>, l.store # <<>>, NEW a, a = AdomOf(l), NEW k, k = Head(l.store),
           NEW Q, Q = Replaced(R, a, k, l.items),
           NEW m, m = [l EXCEPT !.store = Tail(l.store)]
    PROVE  TableInv(Q, S, v) /\ LocalInv(m, Q, S, v)
<1>0. Q = {r \in R : r.adom # a \/ r.kind # k} \cup {r \in l.items : r.kind = k}
  BY DEF Replaced
<1>1. /\ l \in Locals /\ l.store \in Seq(Name) /\ IsInjective(l.store) /\ l.stage \in 1..Len(Stages)
      /\ l.adoms \in Seq(Name) /\ l.items \subseteq Rows /\ ToSet(l.store) \subseteq StageKinds(l.stage)
      /\ BaseInv(l) /\ ItemInv(l, S, v) /\ GotInv(l, R)
  BY DEF LocalInv, BaseInv, Locals
<1>2. /\ Tail(l.store) \in Seq(Name) /\ IsInjective(Tail(l.store)) /\ k \in ToSet(l.store)
      /\ ToSet(Tail(l.store)) = ToSet(l.store) \ {k}
  BY <1>1, TailOfNames
<1>3. /\ m \in Locals /\ m.adoms = l.adoms /\ m.stage = l.stage /\ m.store = Tail(l.store)
      /\ m.read = <<>> /\ m.items = l.items /\ m.got = l.got
      /\ m.devices = l.devices /\ m.vdoms = l.vdoms
  BY <1>1, <1>2 DEF Locals
<1>4. AdomOf(m) = a
  BY <1>3 DEF AdomOf
<1>5. \A q \in l.items : q.adom = a /\ q.kind \in StageKinds(l.stage) /\ q.ver <= v /\ Fits(q)
  <2>1. \A q \in l.items : q.adom = a /\ q.kind \in StageKinds(l.stage) /\ q.ver <= v
    BY <1>1 DEF ItemInv
  <2> QED  BY <1>1, <2>1, StageFits
<1>6. TableInv(Q, S, v)
  <2>1. Q \subseteq Rows /\ S \subseteq Rows /\ Unique(S)
    BY <1>0, <1>1 DEF TableInv
  <2>2. \A r \in Q : Fits(r)
    BY <1>0, <1>5 DEF TableInv
  <2>3. \A r \in Q \cup S : r.ver <= v
    BY <1>0, <1>5 DEF TableInv
  <2>4. Unique(Q)
    BY <1>0, <1>1, <1>5 DEF TableInv, ItemInv, Unique, Same
  <2>5. NotOlder(S, Q)
    BY <1>0, <1>1 DEF TableInv, ItemInv, NotOlder
  <2> QED  BY <2>1, <2>2, <2>3, <2>4, <2>5 DEF TableInv
<1>7. BaseInv(m)
  <2>1. ToSet(m.store) \subseteq StageKinds(m.stage)
    BY <1>1, <1>2, <1>3
  <2> QED  BY <1>1, <1>2, <1>3, <2>1 DEF BaseInv
<1>8. ReadInv(m)
  BY <1>3 DEF ReadInv
<1>9. ItemInv(m, S, v)
  BY <1>1, <1>3, <1>4 DEF ItemInv
<1>10. \A b : b # a => Of(Q, b) = Of(R, b)
  BY <1>0, <1>5 DEF Of
<1>11. \A k2 : k2 # k => OfKind(Q, a, k2) = OfKind(R, a, k2)
  BY <1>0, <1>5 DEF OfKind
<1>12. OfKind(Q, a, k) = OfKind(m.got, a, k)
  <2>1. OfKind(l.got, a, k) = OfKind(l.items, a, k)
    BY <1>1, <1>2 DEF GotInv
  <2>2. OfKind(Q, a, k) = OfKind(l.items, a, k)
    BY <1>0, <1>5 DEF OfKind
  <2> QED  BY <1>3, <2>1, <2>2
<1>13. \A b \in AllAdoms : Left(m, b) => Agrees(m, Q, b)
  <2> SUFFICES ASSUME NEW b \in AllAdoms, Left(m, b) PROVE Agrees(m, Q, b)
    OBVIOUS
  <2>1. Left(l, b)
    BY <1>3 DEF Left
  <2>2. b # a
    <3>1. l.stage # 1 => a \in ToSet(l.adoms) /\ a # Global
      BY <1>1, StageOneIsGlobal
    <3>2. l.stage = 1 => a = Global
      BY <1>1, StageOneIsGlobal
    <3> QED  BY <2>1, <3>1, <3>2 DEF Left
  <2>3. Agrees(l, R, b)
    BY <1>1, <2>1 DEF GotInv
  <2> QED  BY <1>3, <1>10, <2>2, <2>3 DEF Agrees
<1>14. ASSUME NEW k2 \in UNION {StageKinds(j) : j \in 1..m.stage}, k2 \notin ToSet(m.store),
              k2 \in AdomKinds \/ a = Global
       PROVE  Synced(m, Q, a, k2)
  <2>1. CASE k2 = k
    BY <1>12, <2>1 DEF Synced
  <2>2. CASE k2 # k
    <3>1. Synced(l, R, a, k2)
      BY <1>1, <1>2, <1>3, <1>14, <2>2 DEF GotInv
    <3> QED  BY <1>3, <1>11, <2>2, <3>1 DEF Synced
  <2> QED  BY <2>1, <2>2
<1>15. GotInv(m, Q)
  <2>1. \A r \in m.got : Fits(r)
    BY <1>1, <1>3 DEF GotInv
  <2>2. \A b \in ToSet(m.adoms) : b # a => Of(m.got, b) = {}
    BY <1>1, <1>3 DEF GotInv
  <2>3. \A k2 \in ToSet(m.store) : OfKind(m.got, a, k2) = OfKind(m.items, a, k2)
    BY <1>1, <1>2, <1>3 DEF GotInv
  <2>4. \A k2 \in Later(m.stage) : OfKind(m.got, a, k2) = {}
    BY <1>1, <1>3 DEF GotInv
  <2> QED  BY <1>4, <1>13, <1>14, <2>1, <2>2, <2>3, <2>4 DEF GotInv
<1> QED  BY <1>6, <1>7, <1>8, <1>9, <1>15 DEF LocalInv

----------------------------------------------------------------------------
(* The steps *)

\* A run that has not begun holds nothing.
LEMMA LocalTyped ==
    /\ Local \in Locals /\ [Local EXCEPT !.adoms = Adoms] \in Locals
    /\ Local.got = {} /\ Local.vdoms = <<>> /\ Local.devices = <<>>
<1>1. /\ <<>> \in Seq(Name) /\ <<>> \in Seq(Reads) /\ <<>> \in Names
      /\ Adoms \in Seq(Name)
  BY AdomsAssumption DEF Names, IsInjective
<1>2. <<>> \in VdomMaps
  <2>1. <<>> \in [{} -> Names] /\ {} \in SUBSET Name
    OBVIOUS
  <2> QED  BY <2>1 DEF VdomMaps
<1> QED  BY <1>1, <1>2 DEF Local, Locals

\* Whatever a call ends in, the session is open or not.
LEMMA AnswersKnown ==
    ASSUME NEW open \in BOOLEAN, NEW answer \in Rpc(Mode, open)
    PROVE  answer.open \in BOOLEAN
<1>1. \A a \in LoginFails : a.open \in BOOLEAN
  <2>1. \A res : Answer(res, FALSE).open = FALSE
    BY DEF Answer
  <2> QED  BY <2>1 DEF LoginFails
<1>2. \A a \in Tried(Mode) : a.open \in BOOLEAN
  <2>1. \A res : Answer(res, Mode = "session").open \in BOOLEAN
    BY DEF Answer
  <2> DEFINE Ends(n) == {Answer(res, Mode = "session") : res \in {"ok", "fmg", "raw"}}
                        \cup (IF Mode = "session" /\ n = 0 THEN LoginFails ELSE {})
  <2>2. \A n : \A a \in Ends(n) : a.open \in BOOLEAN
    BY <1>1, <2>1
  <2>3. Tried(Mode) = UNION {Ends(n) : n \in 0..Attempts - 1}
    BY DEF Tried
  <2> HIDE DEF Ends
  <2> QED  BY <2>2, <2>3
<1> QED  BY <1>1, <1>2 DEF Rpc

\* At first nothing is read, stored or served.
LEMMA Initial == Init => SyncInv
<1> SUFFICES ASSUME Init PROVE SyncInv
  OBVIOUS
<1>1. TypeInv
  BY LocalTyped, BoundAssumption DEF Init, TypeInv, Versions
<1>2. ExclInv
  BY DEF Init, ExclInv, Busy
<1>3. TableInv(rows, served, fmg)
  BY DEF Init, TableInv, Unique, NotOlder
<1>4. \A x \in Runner : RunInv(x)
  BY DEF Init, RunInv
<1> QED  BY <1>1, <1>2, <1>3, <1>4 DEF SyncInv

\* The other runner does not notice.
LEMMA Others ==
    ASSUME SyncInv, NEW x \in Runner, pc' = [pc EXCEPT ![x] = pc'[x]],
           run' = [run EXCEPT ![x] = run'[x]],
           (rows' = rows /\ served' = served /\ fmg' = fmg) \/ pc[x] \in Busy,
           RunInv(x)'
    PROVE  \A y \in Runner : RunInv(y)'
<1> SUFFICES ASSUME NEW y \in Runner, y # x PROVE RunInv(y)'
  OBVIOUS
<1>1. pc'[y] = pc[y] /\ run'[y] = run[y] /\ RunInv(y)
  BY DEF SyncInv, TypeInv
<1>2. CASE rows' = rows /\ served' = served /\ fmg' = fmg
  BY <1>1, <1>2 DEF RunInv
<1>3. CASE pc[x] \in Busy
  <2>1. pc[y] \notin Busy
    BY <1>3 DEF SyncInv, ExclInv
  <2> QED  BY <1>1, <2>1 DEF RunInv, Busy
<1> QED  BY <1>2, <1>3

\* A runner goes on with its run, to the next stage or to the load.
LEMMA GoInv ==
    ASSUME SyncInv, NEW x \in Runner, pc[x] = "sync", NEW l, Go(x, l),
           LocalInv(l, rows', served, fmg), TableInv(rows', served, fmg),
           UNCHANGED <<fmg, served, phase>>
    PROVE  SyncInv'
<1> DEFINE m == Advanced(l)
<1>1. /\ m \in Locals
      /\ m.adoms = <<>> => DoneInv(m, rows')
      /\ m.adoms # <<>> => LocalInv(m, rows', served, fmg)
      /\ m.read # <<>> \/ m.store # <<>>
  <2>1. \A r \in rows' : Fits(r)
    BY DEF TableInv
  <2> HIDE DEF m
  <2>2. m = Advanced(l)
    BY DEF m
  <2>3. m \in Locals
    BY <2>1, <2>2, AdvancedInv
  <2>4. m.adoms = <<>> => DoneInv(m, rows')
    BY <2>1, <2>2, AdvancedInv
  <2>5. m.adoms # <<>> => LocalInv(m, rows', served, fmg)
    BY <2>1, <2>2, AdvancedInv
  <2>6. m.read # <<>> \/ m.store # <<>>
    BY <2>1, <2>2, AdvancedInv
  <2> QED  BY <2>3, <2>4, <2>5, <2>6
<1>2. /\ run' = [run EXCEPT ![x] = m]
      /\ pc' = [pc EXCEPT ![x] = IF run'[x].adoms = <<>> THEN "load" ELSE "sync"]
      /\ pc \in [Runner -> {"idle", "dead", "ready", "close"} \cup Busy] /\ run \in [Runner -> Locals]
  BY DEF Go, Goto, SyncInv, TypeInv
<1> HIDE DEF m
<1>3. /\ run'[x] = m /\ pc'[x] = IF m.adoms = <<>> THEN "load" ELSE "sync"
      /\ pc' = [pc EXCEPT ![x] = pc'[x]] /\ run' = [run EXCEPT ![x] = run'[x]]
  BY <1>2
<1>4. pc'[x] \in Busy /\ pc[x] \in Busy
  BY <1>3 DEF Busy
<1>5. TypeInv'
  BY <1>1, <1>2, <1>3, <1>4 DEF SyncInv, TypeInv
<1>6. ExclInv'
  BY <1>2, <1>3, <1>4 DEF SyncInv, ExclInv
<1>7. RunInv(x)'
  BY <1>1, <1>3 DEF RunInv
<1>8. \A y \in Runner : RunInv(y)'
  BY <1>3, <1>4, <1>7, Others
<1> QED  BY <1>5, <1>6, <1>8 DEF SyncInv

\* A runner that is not (or no longer) at its run, with the phase as it may be then.
LEMMA LeaveInv ==
    ASSUME SyncInv, NEW x \in Runner, NEW at \in {"idle", "dead", "ready", "close"},
           pc' = [pc EXCEPT ![x] = at], run' = [run EXCEPT ![x] = run'[x]], run'[x] \in Locals,
           at = "ready" => run'[x] = [Local EXCEPT !.adoms = Adoms],
           fmg' = fmg /\ rows' = rows, TableInv(rows, served', fmg),
           served' = served \/ pc[x] \in Busy,
           phase' = phase \/ (pc[x] \in Busy /\ phase' \in {"done", "error"})
    PROVE  SyncInv'
<1>1. pc'[x] = at /\ at \notin Busy /\ pc' = [pc EXCEPT ![x] = pc'[x]]
  BY DEF SyncInv, TypeInv, Busy
<1>2. TypeInv'
  <2>1. run' \in [Runner -> Locals]
    BY DEF SyncInv, TypeInv
  <2> QED  BY <2>1 DEF SyncInv, TypeInv
<1>3. \A y \in Runner : pc'[y] \in Busy => pc[y] \in Busy /\ y # x
  BY <1>1 DEF SyncInv, TypeInv
<1>4. ExclInv'
  <2>1. ASSUME NEW y \in Runner, pc'[y] \in Busy PROVE phase' = "running"
    <3>1. pc[y] \in Busy /\ y # x /\ phase = "running" /\ pc[x] \notin Busy
      BY <1>3, <2>1 DEF SyncInv, ExclInv
    <3> QED  BY <3>1
  <2>2. ASSUME NEW y \in Runner, NEW z \in Runner, pc'[y] \in Busy, pc'[z] \in Busy PROVE y = z
    BY <1>3, <2>2 DEF SyncInv, ExclInv
  <2> QED  BY <2>1, <2>2 DEF ExclInv
<1>5. RunInv(x)'
  BY <1>1 DEF RunInv, Busy
<1>6. \A y \in Runner : RunInv(y)'
  BY <1>1, <1>5, Others
<1> QED  BY <1>2, <1>4, <1>6 DEF SyncInv

\* A read that succeeds keeps the invariant.
LEMMA ReadOkInv ==
    ASSUME SyncInv, NEW x \in Runner, ReadOk(x)
    PROVE  SyncInv'
<1>1. PICK a \in Rpc(Mode, run[x].open) : Go(x, Kept(x, Adom(x), Head(run[x].read), a.open))
  BY DEF ReadOk
<1> DEFINE m == Kept(x, Adom(x), Head(run[x].read), a.open)
<1>2. /\ pc[x] = "sync" /\ run[x].read # <<>> /\ UNCHANGED <<fmg, rows, served, phase>>
      /\ LocalInv(run[x], rows, served, fmg) /\ run \in [Runner -> Locals] /\ fmg \in Versions
      /\ TableInv(rows, served, fmg)
  BY DEF ReadOk, SyncInv, RunInv, TypeInv
<1>3. a.open \in BOOLEAN
  BY <1>2, AnswersKnown DEF Locals
<1>4. Adom(x) = AdomOf(run[x])
  BY DEF Adom, AdomOf, Stage
<1>5. \A s \in served : s.ver <= fmg
  BY <1>2 DEF TableInv
<1>6. LocalInv(m, rows, served, fmg)
  BY <1>2, <1>3, <1>4, <1>5, KeptInv
<1> HIDE DEF m
<1>7. LocalInv(m, rows', served, fmg) /\ TableInv(rows', served, fmg) /\ Go(x, m)
  BY <1>1, <1>2, <1>6 DEF m
<1> QED  BY <1>2, <1>7, GoInv

\* A read that fails is passed over or ends the run; either keeps the invariant.
LEMMA ReadFailsInv ==
    ASSUME SyncInv, NEW x \in Runner, ReadFails(x)
    PROVE  SyncInv'
<1> DEFINE r == Head(run[x].read)
<1>1. PICK a \in Rpc(Mode, run[x].open) :
         LET l == [run[x] EXCEPT !.open = a.open]
         IN IF a.res = "fmg" /\ r.kind \in Tolerated
            THEN Go(x, Skipped(l, r)) /\ UNCHANGED phase
            ELSE run' = [run EXCEPT ![x] = l] /\ Abort(x)
  BY DEF ReadFails
<1> DEFINE l == [run[x] EXCEPT !.open = a.open]
<1>2. /\ pc[x] = "sync" /\ run[x].read # <<>> /\ UNCHANGED <<fmg, rows, served>>
      /\ LocalInv(run[x], rows, served, fmg) /\ run \in [Runner -> Locals]
      /\ TableInv(rows, served, fmg)
  BY DEF ReadFails, SyncInv, RunInv, TypeInv
<1>3. a.open \in BOOLEAN
  BY <1>2, AnswersKnown DEF Locals
<1>4. LocalInv(l, rows, served, fmg)
  BY <1>2, <1>3, OpenInv
<1>5. l \in Locals /\ l.read = run[x].read
  BY <1>2, <1>3 DEF Locals
<1> HIDE DEF l
<1>6. CASE Go(x, Skipped(l, r)) /\ UNCHANGED phase
  <2> DEFINE m == Skipped(l, r)
  <2>1. LocalInv(m, rows, served, fmg)
    BY <1>2, <1>4, <1>5, SkippedInv
  <2> HIDE DEF m
  <2>2. LocalInv(m, rows', served, fmg) /\ TableInv(rows', served, fmg) /\ Go(x, m)
    BY <1>2, <1>6, <2>1 DEF m
  <2> QED  BY <1>2, <1>6, <2>2, GoInv
<1>7. CASE run' = [run EXCEPT ![x] = l] /\ Abort(x)
  <2>1. run'[x] = l /\ pc' = [pc EXCEPT ![x] = "close"] /\ phase' = "error"
    BY <1>2, <1>7 DEF Abort, Goto
  <2>2. run' = [run EXCEPT ![x] = run'[x]] /\ pc[x] \in Busy
    BY <1>2, <1>7, <2>1 DEF Busy
  <2>3. TableInv(rows, served', fmg)
    BY <1>2
  <2> QED  BY <1>2, <1>5, <2>1, <2>2, <2>3, LeaveInv
<1>8. \/ Go(x, Skipped(l, r)) /\ UNCHANGED phase
      \/ run' = [run EXCEPT ![x] = l] /\ Abort(x)
  BY <1>1 DEF l
<1> QED  BY <1>6, <1>7, <1>8

\* Storing a kind keeps the invariant.
LEMMA StoreStepInv ==
    ASSUME SyncInv, NEW x \in Runner, Store(x)
    PROVE  SyncInv'
<1> DEFINE m == [run[x] EXCEPT !.store = Tail(@)]
<1>1. /\ pc[x] = "sync" /\ run[x].read = <<>> /\ run[x].store # <<>>
      /\ UNCHANGED <<fmg, served, phase>> /\ Go(x, m)
      /\ rows' = Stored(Adom(x), Head(run[x].store), run[x].items)
      /\ LocalInv(run[x], rows, served, fmg) /\ TableInv(rows, served, fmg) /\ fmg \in Versions
  BY DEF Store, AllRead, SyncInv, RunInv, TypeInv
<1>2. Adom(x) = AdomOf(run[x])
  BY DEF Adom, AdomOf, Stage
<1> DEFINE l == run[x]
           a == AdomOf(l)
           k == Head(l.store)
<1>6. /\ l.read = <<>> /\ l.store # <<>> /\ m = [l EXCEPT !.store = Tail(l.store)]
      /\ a = AdomOf(l) /\ k = Head(l.store) /\ fmg \in Versions
      /\ LocalInv(l, rows, served, fmg) /\ TableInv(rows, served, fmg)
      /\ rows' = Replaced(rows, a, k, l.items)
  BY <1>1, <1>2 DEF Stored, Replaced
<1> HIDE DEF l, a, k, m
<1>4. TableInv(rows', served, fmg)
  BY ONLY <1>6, StoreInv
<1>5. LocalInv(m, rows', served, fmg)
  BY ONLY <1>6, StoreInv
<1>7. Go(x, m)
  BY <1>1 DEF m
<1> QED  BY <1>1, <1>4, <1>5, <1>7, GoInv

\* Every step keeps the invariant of the synchronization.
THEOREM Inductive == SyncInv /\ [Next]_vars => SyncInv'
<1> SUFFICES ASSUME SyncInv, [Next]_vars PROVE SyncInv'
  OBVIOUS
<1>1. ASSUME NEW x \in Runner, ReadConfig(x) PROVE SyncInv'
  <2> DEFINE l == [Local EXCEPT !.adoms = Adoms]
  <2>1. /\ run' = [run EXCEPT ![x] = l] /\ pc' = [pc EXCEPT ![x] = "ready"]
        /\ UNCHANGED <<fmg, rows, served, phase>>
    BY <1>1 DEF ReadConfig, Goto
  <2>2. l \in Locals
    BY LocalTyped
  <2>3. run'[x] = l /\ run' = [run EXCEPT ![x] = run'[x]]
    BY <2>1 DEF SyncInv, TypeInv
  <2>4. TableInv(rows, served', fmg)
    BY <2>1 DEF SyncInv
  <2> QED  BY <2>1, <2>2, <2>3, <2>4, LeaveInv
<1>2. ASSUME NEW x \in Runner, Enter(x) PROVE SyncInv'
  <2>1. CASE ~Free
    <3>1. pc' = [pc EXCEPT ![x] = "close"] /\ UNCHANGED <<phase, run, fmg, rows, served>>
      BY <1>2, <2>1 DEF Enter, Goto
    <3>2. run'[x] \in Locals /\ run' = [run EXCEPT ![x] = run'[x]] /\ TableInv(rows, served', fmg)
      BY <3>1 DEF SyncInv, TypeInv
    <3> QED  BY <3>1, <3>2, LeaveInv
  <2>2. CASE Free
    <3> DEFINE l == [Local EXCEPT !.adoms = Adoms]
               m == Entered(l, 1)
    <3>1. /\ pc' = [pc EXCEPT ![x] = "sync"] /\ phase' = "running"
          /\ run' = [run EXCEPT ![x] = m] /\ UNCHANGED <<fmg, rows, served>>
      BY <1>2, <2>2 DEF Enter, Goto, SyncInv, TypeInv, RunInv
    <3>2. l \in Locals /\ l.adoms = Adoms /\ l.got = {} /\ l.vdoms = <<>> /\ l.devices = <<>>
      BY LocalTyped DEF Local
    <3>3. /\ IsInjective(l.adoms) /\ ToSet(l.adoms) \subseteq ToSet(Adoms) /\ l.adoms # <<>>
          /\ DOMAIN l.vdoms = ToSet(l.devices) /\ 1 \in 1..Len(Stages)
      BY <3>2, AdomsAssumption, StagesAre DEF Names, ToSet
    <3>start. m = Entered(l, 1)
      OBVIOUS
    <3> HIDE DEF l, m
    <3>4. /\ m.got = l.got /\ m.stage = 1 /\ m.adoms = l.adoms /\ m.items = {}
          /\ m.store = KindsOf(Stages[1]) /\ m \in Locals
      <4>1. m \in Locals
        BY <3>2, <3>3, <3>start, EnteredInv
      <4>2. m = [l EXCEPT !.stage = 1, !.items = {}, !.store = KindsOf(Stages[1]),
                          !.read = ReadsOf(l, Stages[1])]
        BY <3>start DEF Entered
      <4>3. /\ m.got = l.got /\ m.adoms = l.adoms /\ m.stage = 1 /\ m.items = {}
            /\ m.store = KindsOf(Stages[1])
        BY <3>2, <4>2 DEF Locals
      <4> QED  BY <4>1, <4>2, <4>3
    <3>5. ReadInv(m) /\ ItemInv(m, served, fmg)
      <4>1. ReadInv(m)
        BY <3>2, <3>3, <3>start, EnteredInv
      <4>2. ItemInv(m, served, fmg)
        BY <3>2, <3>3, <3>start, EnteredInv
      <4> QED  BY <4>1, <4>2
    <3>6. BaseInv(m)
      BY <3>2, <3>3, <3>start, EnteredInv
    <3>7. m.store # <<>>
      BY <3>3, <3>4, KindsApart
    <3>8. GotInv(m, rows)
      <4>1. \A b : Of(m.got, b) = {}
        BY <3>2, <3>4 DEF Of
      <4>2. \A b, k : OfKind(m.got, b, k) = {} /\ OfKind(m.items, b, k) = {}
        BY <3>2, <3>4 DEF OfKind
      <4>3. UNION {StageKinds(j) : j \in 1..m.stage} \subseteq ToSet(m.store)
        BY <3>4 DEF StageKinds
      <4> QED  BY <3>2, <3>4, <4>1, <4>2, <4>3 DEF GotInv, Agrees
    <3>9. LocalInv(m, rows, served, fmg)
      BY <3>5, <3>6, <3>8 DEF LocalInv
    <3>10. \A y \in Runner : pc[y] \notin Busy
      BY <2>2 DEF Free, SyncInv, ExclInv
    <3>11. pc'[x] = "sync" /\ pc' = [pc EXCEPT ![x] = pc'[x]]
           /\ run'[x] = m /\ run' = [run EXCEPT ![x] = run'[x]]
      BY <3>1 DEF SyncInv, TypeInv
    <3>12. RunInv(x)'
      BY <3>1, <3>7, <3>9, <3>11 DEF RunInv
    <3>13. \A y \in Runner : RunInv(y)'
      BY <3>1, <3>11, <3>12, Others
    <3>14. TypeInv'
      BY <3>1, <3>4 DEF SyncInv, TypeInv, Busy
    <3>15. ExclInv'
      BY <3>1, <3>10 DEF ExclInv, SyncInv, TypeInv
    <3> QED  BY <3>1, <3>13, <3>14, <3>15 DEF SyncInv
  <2> QED  BY <2>1, <2>2
<1>3. ASSUME NEW x \in Runner, ReadOk(x) PROVE SyncInv'
  BY <1>3, ReadOkInv
<1>4. ASSUME NEW x \in Runner, ReadFails(x) PROVE SyncInv'
  BY <1>4, ReadFailsInv
<1>5. ASSUME NEW x \in Runner, Store(x) PROVE SyncInv'
  BY <1>5, StoreStepInv
<1>6. ASSUME NEW x \in Runner, Load(x) PROVE SyncInv'
  <2> DEFINE l == [run[x] EXCEPT !.built = rows]
  <2>1. /\ pc[x] = "load" /\ run' = [run EXCEPT ![x] = l] /\ pc' = [pc EXCEPT ![x] = "publish"]
        /\ UNCHANGED <<fmg, rows, served, phase>>
        /\ run[x] \in Locals /\ DoneInv(run[x], rows) /\ TableInv(rows, served, fmg)
    BY <1>6 DEF Load, Goto, SyncInv, TypeInv, RunInv
  <2>2. l \in Locals /\ l.got = run[x].got /\ l.built = rows
    BY <2>1 DEF Locals, TableInv
  <2> HIDE DEF l
  <2>3. DoneInv(l, rows)
    BY <2>1, <2>2 DEF DoneInv, Agrees
  <2>4. run'[x] = l /\ pc'[x] = "publish" /\ run' = [run EXCEPT ![x] = run'[x]]
        /\ pc' = [pc EXCEPT ![x] = pc'[x]] /\ pc[x] \in Busy /\ pc'[x] \in Busy
    BY <2>1 DEF SyncInv, TypeInv, Busy
  <2>5. RunInv(x)'
    BY <2>1, <2>2, <2>3, <2>4 DEF RunInv
  <2>6. \A y \in Runner : RunInv(y)'
    BY <2>1, <2>4, <2>5, Others
  <2>7. TypeInv'
    BY <2>1, <2>2, <2>4 DEF SyncInv, TypeInv
  <2>8. ExclInv'
    BY <2>1, <2>4 DEF ExclInv, SyncInv, TypeInv
  <2> QED  BY <2>1, <2>6, <2>7, <2>8 DEF SyncInv
<1>7. ASSUME NEW x \in Runner, Publish(x) PROVE SyncInv'
  <2>1. /\ pc[x] = "publish" /\ pc' = [pc EXCEPT ![x] = "close"] /\ phase' = "done"
        /\ UNCHANGED <<fmg, rows, run>> /\ served' = run[x].built
        /\ run[x] \in Locals /\ run[x].built = rows /\ TableInv(rows, served, fmg)
    BY <1>7 DEF Publish, Goto, SyncInv, TypeInv, RunInv
  <2>2. TableInv(rows, served', fmg)
    <3>1. \A r \in rows : r.ver <= r.ver
      BY <2>1 DEF TableInv, Rows, Versions
    <3> QED  BY <2>1, <3>1 DEF TableInv, Unique, NotOlder
  <2>3. run'[x] \in Locals /\ run' = [run EXCEPT ![x] = run'[x]] /\ pc[x] \in Busy
    BY <2>1 DEF SyncInv, TypeInv, Busy
  <2> QED  BY <2>1, <2>2, <2>3, LeaveInv
<1>8. ASSUME NEW x \in Runner, DbFails(x) PROVE SyncInv'
  <2>1. /\ pc[x] \in Busy /\ pc' = [pc EXCEPT ![x] = "close"] /\ phase' = "error"
        /\ UNCHANGED <<fmg, rows, served, run>> /\ TableInv(rows, served, fmg)
        /\ run[x] \in Locals
    BY <1>8 DEF DbFails, AllRead, Abort, Goto, SyncInv, TypeInv, Busy
  <2>2. run'[x] \in Locals /\ run' = [run EXCEPT ![x] = run'[x]] /\ TableInv(rows, served', fmg)
    BY <2>1 DEF SyncInv, TypeInv
  <2> QED  BY <2>1, <2>2, LeaveInv
<1>9. ASSUME NEW x \in Runner, CloseClient(x) PROVE SyncInv'
  <2>1. PICK at \in {"idle", "dead"} : pc' = [pc EXCEPT ![x] = at]
    BY <1>9 DEF CloseClient, Goto
  <2>2. run' = [run EXCEPT ![x] = Local] /\ UNCHANGED <<fmg, rows, served, phase>>
    BY <1>9 DEF CloseClient
  <2>3. run'[x] \in Locals /\ run' = [run EXCEPT ![x] = run'[x]] /\ TableInv(rows, served', fmg)
    BY <2>2, LocalTyped DEF SyncInv, TypeInv
  <2> QED  BY <2>1, <2>2, <2>3, LeaveInv
<1>10. CASE ConfigFails
  <2>1. pc' = [pc EXCEPT !["periodic"] = "dead"] /\ UNCHANGED <<fmg, rows, served, phase, run>>
        /\ "periodic" \in Runner
    BY <1>10 DEF ConfigFails, Goto, Runner
  <2>2. run'["periodic"] \in Locals /\ run' = [run EXCEPT !["periodic"] = run'["periodic"]]
        /\ TableInv(rows, served', fmg)
    BY <2>1 DEF SyncInv, TypeInv
  <2> QED  BY <2>1, <2>2, LeaveInv
<1>11. CASE Change
  <2>1. /\ fmg' = fmg + 1 /\ fmg \in Versions /\ fmg' \in Versions
        /\ UNCHANGED <<rows, served, phase, pc, run>> /\ TableInv(rows, served, fmg)
    BY <1>11, BoundAssumption DEF Change, SyncInv, TypeInv, Versions
  <2>2. TypeInv' /\ ExclInv'
    BY <2>1 DEF SyncInv, TypeInv, ExclInv
  <2>3. TableInv(rows, served, fmg')
    BY <2>1 DEF TableInv, Rows, Versions
  <2>4. ASSUME NEW l, LocalInv(l, rows, served, fmg) PROVE LocalInv(l, rows, served, fmg')
    <3>1. \A q \in l.items : q.ver \in Versions
      BY <2>4 DEF LocalInv, BaseInv, Locals, Rows
    <3>2. ItemInv(l, served, fmg')
      BY <2>1, <2>4, <3>1 DEF LocalInv, ItemInv, Versions
    <3> QED  BY <2>4, <3>2 DEF LocalInv
  <2>5. \A x \in Runner : RunInv(x)'
    BY <2>1, <2>4 DEF SyncInv, RunInv
  <2> QED  BY <2>1, <2>2, <2>3, <2>5 DEF SyncInv
<1>12. CASE Restart
  <2>1. /\ served' = rows /\ phase' = "idle" /\ UNCHANGED <<fmg, rows>>
        /\ pc' = [x \in Runner |-> "idle"] /\ run' = [x \in Runner |-> Local]
        /\ TableInv(rows, served, fmg)
    BY <1>12 DEF Restart, SyncInv
  <2>2. TypeInv'
    BY <2>1, LocalTyped DEF SyncInv, TypeInv
  <2>3. ExclInv'
    BY <2>1 DEF ExclInv, Busy
  <2>4. TableInv(rows, rows, fmg)
    <3>1. \A r \in rows : r.ver <= r.ver
      BY <2>1 DEF TableInv, Rows, Versions
    <3> QED  BY <2>1, <3>1 DEF TableInv, Unique, NotOlder
  <2>5. \A x \in Runner : RunInv(x)'
    BY <2>1 DEF RunInv
  <2> QED  BY <2>1, <2>2, <2>3, <2>4, <2>5 DEF SyncInv
<1>13. CASE UNCHANGED vars
  <2>1. TypeInv' /\ ExclInv'
    BY <1>13 DEF vars, SyncInv, TypeInv, ExclInv
  <2>2. TableInv(rows, served, fmg)' /\ \A x \in Runner : RunInv(x)'
    BY <1>13 DEF vars, SyncInv, RunInv
  <2> QED  BY <2>1, <2>2 DEF SyncInv
<1> QED  BY <1>1, <1>2, <1>3, <1>4, <1>5, <1>6, <1>7, <1>8, <1>9, <1>10, <1>11, <1>12, <1>13
            DEF Next, Step

----------------------------------------------------------------------------
(* The theorems *)

\* In every state: variables have their types, one run at a time holds the phase, and the
\* table, what is served and the local variables of the run agree (SyncManager.run).
THEOREM OneRunAtATime == Spec => [](TypeInv /\ ExclInv)
<1>1. SyncInv => TypeInv /\ ExclInv
  BY DEF SyncInv
<1> QED  BY <1>1, Initial, Inductive, PTL DEF Spec

\* What is served never gets older: whatever fails, restarts, is started by hand or changes
\* on the FortiManager (_store, load_inventory, _rebuild_state, lifespan).
THEOREM ServedNeverOlder == Spec => NeverOlder
<1>1. SyncInv /\ [Next]_vars => [\A r \in served, s \in served' : Same(r, s) => r.ver <= s.ver]_vars
  <2> SUFFICES ASSUME SyncInv, [Next]_vars, NEW r \in served, NEW s \in served', Same(r, s)
               PROVE  r.ver <= s.ver
    OBVIOUS
  <2>1. TableInv(rows, served, fmg)
    BY DEF SyncInv
  <2>2. served' = served \/ served' = rows
    <3>1. ASSUME NEW x \in Runner, Publish(x) PROVE served' = rows
      BY <3>1 DEF Publish, SyncInv, RunInv
    <3> QED  BY <3>1 DEF Next, Step, vars, ReadConfig, Enter, ReadOk, ReadFails, Store, Load, DbFails,
                CloseClient, ConfigFails, Change, Restart
  <2>3. CASE served' = rows
    BY <2>1, <2>3 DEF TableInv, NotOlder
  <2>4. CASE served' = served
    <3>1. r = s /\ r.ver \in Nat
      BY <2>1, <2>4, BoundAssumption DEF TableInv, Unique, Rows, Versions
    <3> QED  BY <3>1
  <2> QED  BY <2>2, <2>3, <2>4
<1> QED  BY <1>1, Initial, Inductive, PTL DEF Spec, NeverOlder

\* A run that ends as "done" serves, of every ADOM it read, exactly what it read.
THEOREM DoneServesWhatWasRead == Spec => DoneIsWhatWasRead
<1>1. SyncInv /\ [Next]_vars =>
         [\A x \in Runner : Publish(x) =>
             \A a \in {r.adom : r \in run[x].got} :
                {r \in served' : r.adom = a} = {r \in run[x].got : r.adom = a}]_vars
  <2> SUFFICES ASSUME SyncInv, NEW x \in Runner, Publish(x), NEW r \in run[x].got
               PROVE  {q \in served' : q.adom = r.adom} = {q \in run[x].got : q.adom = r.adom}
    OBVIOUS
  <2>1. served' = rows /\ DoneInv(run[x], rows)
    BY DEF Publish, SyncInv, RunInv
  <2>2. Of(rows, r.adom) = Of(run[x].got, r.adom) \/ Of(run[x].got, r.adom) = {}
    BY <2>1 DEF DoneInv, Agrees
  <2>3. r \in Of(run[x].got, r.adom)
    BY DEF Of
  <2> QED  BY <2>1, <2>2, <2>3 DEF Of
<1> QED  BY <1>1, Initial, Inductive, PTL DEF Spec, DoneIsWhatWasRead

=============================================================================
