-------------------------- MODULE PortAnalysis_proofs --------------------------
(***************************************************************************)
(* Proofs about the analysis of all ports, for every path, policy, service *)
(* and port number.  First the algebra of ranges (Intervals): its lists    *)
(* stand for the sets of ports the operators are named for.  Then the      *)
(* operators of PortAnalysis: services, policies selected, zones, combine. *)
(* From them follows that the loops over ranges implement FirstMatch, the  *)
(* first match over plain sets, and that what is reported of a port is     *)
(* true.                                                                   *)
(***************************************************************************)
EXTENDS PortAnalysis, FiniteSetTheorems, WellFoundedInduction, TLAPS

(* --------------------------------- loops ---------------------------------- *)

\* A set of natural numbers that is not empty has a least one.
LEMMA LeastOf ==
    ASSUME NEW T, T \subseteq Nat, T # {}
    PROVE  \E x \in T : \A y \in T : x <= y
<1> DEFINE R == {ss \in Nat \X Nat : ss[1] < ss[2]}
<1>1. IsWellFoundedOn(R, Nat)
  BY NatLessThanWellFounded DEF OpToRel
<1>2. PICK x \in T : \A y \in T : ~ (<<y, x>> \in R)
  <2> HIDE DEF R
  <2> QED BY <1>1, WFMin
<1>3. \A y \in T : ~ (y < x)
  BY <1>2
<1> QED BY <1>3, <1>2

\* What holds at 0 and is passed on by each number below n holds at n.
LEMMA UpTo ==
    ASSUME NEW n \in Nat, NEW T, 0 \in T, \A m \in 0..n : m \in T /\ m < n => m + 1 \in T
    PROVE  n \in T
<1> DEFINE bad == {m \in 0..n : m \notin T}
<1> SUFFICES ASSUME n \notin T PROVE FALSE
  OBVIOUS
<1>1. PICK m \in bad : \A k \in bad : m <= k
  <2>1. bad \subseteq Nat /\ bad # {}
    OBVIOUS
  <2> HIDE DEF bad
  <2> QED BY <2>1, LeastOf
<1>2. m # 0 /\ m \in 0..n /\ m \notin T
  OBVIOUS
<1>3. m - 1 \in 0..n /\ m - 1 < n /\ m - 1 \notin bad
  BY <1>1, <1>2
<1> QED BY <1>2, <1>3

\* The number after k, as a place up to n and as the end of a range of places.
LEMMA OneMore ==
    ASSUME NEW n \in Int, NEW k \in 0..n, k < n
    PROVE  /\ k + 1 \in 1..n /\ (k + 1) - 1 = k /\ k < k + 1
           /\ \A i : i \in 1..k + 1 <=> i \in 1..k \/ i = k + 1
OBVIOUS

\* A range without a part it touches is what comes before the part and what comes after.
LEMMA BeforeAndAfter ==
    ASSUME NEW lo \in Int, NEW hi \in Int, NEW from \in Int, NEW to \in Int, NEW m \in Int,
           lo <= to, from <= hi, from <= to
    PROVE  m \in lo..hi /\ ~(m \in from..to) <=> m \in lo..from - 1 \/ m \in to + 1..hi
OBVIOUS

\* A loop that begins with s0 at a and makes a step for each number up to b.
IsLoop(f, a, b, s0, step) == f[a] = s0 /\ \A n \in (a+1)..b : f[n] = step[<<f[n-1], n>>]

\* A loop over a range of numbers has a result for each.
LEMMA Loop ==
    ASSUME NEW a \in Int, NEW b \in Int, a <= b, NEW S, NEW s0 \in S, NEW step \in [S \X (a..b) -> S]
    PROVE  \E f \in [a..b -> S] : IsLoop(f, a, b, s0, step)
<1> DEFINE Runs(m) == \E f \in [a..(a+m) -> S] : f[a] = s0 /\ \A n \in (a+1)..(a+m) : f[n] = step[<<f[n-1], n>>]
           T == {m \in 0..(b-a) : Runs(m)}
<1>1. Runs(0)
  <2>1. [n \in a..a |-> s0] \in [a..a -> S] /\ [n \in a..a |-> s0][a] = s0 /\ (a+1)..a = {} /\ a + 0 = a
    OBVIOUS
  <2> QED BY <2>1
<1>2. ASSUME NEW m \in 0..(b-a), m < b - a, Runs(m) PROVE Runs(m + 1)
  <2>1. PICK f \in [a..(a+m) -> S] : f[a] = s0 /\ \A n \in (a+1)..(a+m) : f[n] = step[<<f[n-1], n>>]
    BY <1>2
  <2>2. f[a+m] \in S /\ a+m+1 \in a..b
    BY <1>2
  <2>3. step[<<f[a+m], a+m+1>>] \in S
    BY <2>2
  <2> DEFINE g == [n \in a..(a+m+1) |-> IF n <= a+m THEN f[n] ELSE step[<<f[a+m], a+m+1>>]]
  <2>4. g \in [a..(a+m+1) -> S]
    <3>1. \A n \in a..(a+m+1) : n <= a+m => n \in a..(a+m)
      OBVIOUS
    <3> QED BY <3>1, <2>3
  <2>5. g[a] = s0
    BY <2>1
  <2>6. ASSUME NEW n \in (a+1)..(a+m+1) PROVE g[n] = step[<<g[n-1], n>>]
    <3>1. CASE n <= a+m
      <4>1. n \in (a+1)..(a+m) /\ g[n] = f[n] /\ g[n-1] = f[n-1]
        BY <3>1
      <4> QED BY <4>1, <2>1
    <3>2. CASE n = a+m+1
      <4>1. g[n] = step[<<f[a+m], a+m+1>>] /\ g[n-1] = f[a+m]
        BY <3>2
      <4> QED BY <4>1, <3>2
    <3> QED BY <3>1, <3>2
  <2> HIDE DEF g
  <2>7. a + (m + 1) = a+m+1
    OBVIOUS
  <2> QED BY <2>4, <2>5, <2>6, <2>7
<1> HIDE DEF Runs
<1>3. b - a \in T
  <2>1. 0 \in T /\ b - a \in Nat /\ \A m \in 0..(b-a) : m \in T /\ m < b - a => m + 1 \in T
    BY <1>1, <1>2
  <2> HIDE DEF T
  <2> QED BY <2>1, UpTo
<1>4. Runs(b - a) /\ a + (b - a) = b
  BY <1>3
<1> QED BY <1>4 DEF Runs, IsLoop

(* --------------------------------- merge ---------------------------------- *)

Ranges == Int \X Int

\* A set of ranges that is not empty has an earliest one.
LEMMA EarliestIs ==
    ASSUME NEW S, IsFiniteSet(S), S \subseteq Ranges, S # {}
    PROVE  Earliest(S) \in S /\ \A s \in S : ~Earlier(s, Earliest(S))
<1>0. PICK n \in Nat : \E f \in [1..n -> S] : \A s \in S : \E k \in 1..n : f[k] = s
  BY FS_NatSurjection DEF Surjection, ExistsSurjection
<1>1. PICK f \in [1..n -> S] : \A s \in S : \E k \in 1..n : f[k] = s
  BY <1>0
<1>2. n >= 1
  BY <1>1
<1> DEFINE First(m) == \E i \in 1..m + 1 : \A j \in 1..m + 1 : ~Earlier(f[j], f[i])
           T == {m \in 0..n - 1 : First(m)}
<1>3. \A k \in 1..n : f[k][1] \in Int /\ f[k][2] \in Int
  BY <1>1 DEF Ranges
<1>4. First(0)
  BY <1>2, <1>3 DEF Earlier
<1>5. ASSUME NEW m \in 0..n - 1, m < n - 1, First(m) PROVE First(m + 1)
  <2>1. PICK i \in 1..m + 1 : \A j \in 1..m + 1 : ~Earlier(f[j], f[i])
    BY <1>5
  <2>2. \A j \in 1..m + 2 : j \in 1..m + 1 \/ j = m + 2
    OBVIOUS
  <2>3. i \in 1..n /\ m + 2 \in 1..n /\ \A j \in 1..m + 1 : j \in 1..n
    BY <1>5
  <2>4. CASE Earlier(f[m + 2], f[i])
    <3>1. \A j \in 1..m + 1 : ~Earlier(f[j], f[m + 2])
      BY <1>3, <2>1, <2>3, <2>4 DEF Earlier
    <3>2. ~Earlier(f[m + 2], f[m + 2])
      BY <1>3, <2>3 DEF Earlier
    <3> QED BY <2>2, <3>1, <3>2
  <2>5. CASE ~Earlier(f[m + 2], f[i])
    BY <2>1, <2>2, <2>5
  <2> QED BY <2>4, <2>5
<1> HIDE DEF First
<1>6. n - 1 \in T
  <2>1. 0 \in T /\ \A m \in 0..n - 1 : m \in T /\ m < n - 1 => m + 1 \in T
    BY <1>2, <1>4, <1>5
  <2> HIDE DEF T
  <2> QED BY <1>2, <2>1, UpTo
<1>7. \E r \in S : \A s \in S : ~Earlier(s, r)
  <2>1. PICK i \in 1..n : \A j \in 1..n : ~Earlier(f[j], f[i])
    BY <1>6 DEF First
  <2> QED BY <1>1, <2>1
<1> QED BY <1>7 DEF Earliest

\* The ranges in ascending order are those of the set, and no later one is earlier.
LEMMA AscendingIs ==
    ASSUME NEW S, IsFiniteSet(S), S \subseteq Ranges
    PROVE  /\ Ascending(S) \in Seq(S)
           /\ \A r \in S : \E k \in DOMAIN Ascending(S) : Ascending(S)[k] = r
           /\ \A i, j \in DOMAIN Ascending(S) : i < j => ~Earlier(Ascending(S)[j], Ascending(S)[i])
<1> DEFINE n == Cardinality(S)
<1>0. n \in Nat
  BY FS_CardinalityType
<1> DEFINE Eq(u) == u = [k \in 0..n |->
                          IF k = 0 THEN S ELSE LET left == u[k - 1] IN left \ {Earliest(left)}]
           rest == CHOOSE u : Eq(u)
           A == [k \in 1..n |-> Earliest(rest[k - 1])]
<1>1. Ascending(S) = A
  BY DEF Ascending
<1> DEFINE step == [u \in (SUBSET S) \X (0..n) |-> u[1] \ {Earliest(u[1])}]
<1>2. PICK f \in [0..n -> SUBSET S] : IsLoop(f, 0, n, S, step)
  <2>1. step \in [(SUBSET S) \X (0..n) -> SUBSET S] /\ S \in SUBSET S
    OBVIOUS
  <2>2. 0 \in Int /\ n \in Int /\ 0 <= n
    BY <1>0
  <2> HIDE DEF step, n
  <2> QED BY <2>1, <2>2, Loop
<1>3. Eq(f)
  <2>1. ASSUME NEW k \in 0..n, k # 0 PROVE f[k] = f[k - 1] \ {Earliest(f[k - 1])}
    <3>1. k \in 0 + 1..n /\ k - 1 \in 0..n /\ f[k - 1] \in SUBSET S
      BY <1>0, <1>2, <2>1
    <3>2. f[k] = step[<<f[k - 1], k>>]
      BY <1>2, <3>1 DEF IsLoop
    <3> QED BY <3>1, <3>2
  <2>2. f[0] = S
    BY <1>2 DEF IsLoop
  <2> QED BY <1>2, <2>1, <2>2
<1> HIDE DEF Eq
<1>4. Eq(rest)
  BY <1>3
<1> HIDE DEF rest
<1>5. rest[0] = S /\ \A k \in 1..n : rest[k] = rest[k - 1] \ {Earliest(rest[k - 1])}
  <2>1. \A k \in 1..n : k \in 0..n /\ k # 0
    BY <1>0
  <2>2. 0 \in 0..n
    BY <1>0
  <2> HIDE DEF n
  <2>3. \A k \in 0..n : rest[k] = IF k = 0 THEN S ELSE rest[k - 1] \ {Earliest(rest[k - 1])}
    BY <1>4, Zenon DEF Eq
  <2> QED BY <2>1, <2>2, <2>3
<1> HIDE DEF step, n
<1> DEFINE Inv(k) == rest[k] \subseteq S /\ IsFiniteSet(rest[k]) /\ Cardinality(rest[k]) = n - k
                     /\ \A i \in 0..k : rest[k] \subseteq rest[i]
           T == {k \in 0..n : Inv(k)}
<1>6. Inv(0)
  BY <1>0, <1>5 DEF n
<1>7. ASSUME NEW k \in 0..n, k < n, Inv(k) PROVE Inv(k + 1)
  <2>1. rest[k + 1] = rest[k] \ {Earliest(rest[k])}
    <3>1. k + 1 \in 1..n /\ (k + 1) - 1 = k
      BY <1>0, <1>7
    <3> QED BY <1>5, <3>1
  <2>2. rest[k] # {}
    <3>1. Cardinality(rest[k]) # 0
      BY <1>0, <1>7
    <3> QED BY <1>7, <3>1, FS_EmptySet
  <2>3. Earliest(rest[k]) \in rest[k]
    BY <1>7, <2>2, EarliestIs
  <2>4. IsFiniteSet(rest[k + 1]) /\ Cardinality(rest[k + 1]) = n - (k + 1)
    <3>1. Cardinality(rest[k] \ {Earliest(rest[k])}) = Cardinality(rest[k]) - 1
          /\ IsFiniteSet(rest[k] \ {Earliest(rest[k])})
      BY <1>7, <2>3, FS_RemoveElement
    <3>2. (n - k) - 1 = n - (k + 1)
      BY <1>0
    <3> QED BY <1>7, <2>1, <3>1, <3>2
  <2>5. \A i \in 0..k + 1 : i \in 0..k \/ i = k + 1
    OBVIOUS
  <2> QED BY <1>7, <2>1, <2>4, <2>5
<1> HIDE DEF Inv
<1>8. \A k \in 0..n : Inv(k)
  <2> SUFFICES ASSUME NEW m \in 0..n PROVE m \in T
    OBVIOUS
  <2>1. 0 \in T /\ \A k \in 0..m : k \in T /\ k < m => k + 1 \in T
    BY <1>0, <1>6, <1>7
  <2> HIDE DEF T
  <2> QED BY <2>1, UpTo
<1>9. ASSUME NEW k \in 1..n
      PROVE  /\ A[k] \in rest[k - 1] /\ A[k] \in S
             /\ rest[k] = rest[k - 1] \ {A[k]}
             /\ \A s \in rest[k - 1] : ~Earlier(s, A[k])
  <2>1. k - 1 \in 0..n /\ Inv(k - 1)
    BY <1>0, <1>8
  <2>2. rest[k - 1] # {}
    BY <1>0, <2>1, FS_EmptySet DEF Inv
  <2>3. Earliest(rest[k - 1]) \in rest[k - 1] /\ \A s \in rest[k - 1] : ~Earlier(s, Earliest(rest[k - 1]))
    BY <2>1, <2>2, EarliestIs DEF Inv
  <2>4. A[k] = Earliest(rest[k - 1])
    OBVIOUS
  <2> HIDE DEF A
  <2> QED BY <1>5, <2>1, <2>3, <2>4 DEF Inv
<1>10. A \in Seq(S) /\ DOMAIN A = 1..n
  <2>1. A \in [1..n -> S]
    BY <1>9
  <2> QED BY <1>0, <2>1
<1> HIDE DEF A
<1>11. ASSUME NEW r \in S PROVE \E k \in 1..n : A[k] = r
  <2> DEFINE gone == {k \in 0..n : r \notin rest[k]}
  <2>1. rest[n] = {}
    BY <1>0, <1>8, FS_EmptySet DEF Inv
  <2>2. n \in gone /\ gone \subseteq Nat
    BY <1>0, <2>1
  <2>3. PICK k \in gone : \A j \in gone : k <= j
    <3> HIDE DEF gone
    <3> QED BY <2>2, LeastOf
  <2>4. k # 0 /\ k \in 1..n /\ k - 1 \in 0..n /\ r \in rest[k - 1] /\ r \notin rest[k]
    BY <1>0, <1>5, <2>3
  <2> QED BY <1>9, <2>4
<1>12. ASSUME NEW i \in 1..n, NEW j \in 1..n, i < j PROVE ~Earlier(A[j], A[i])
  <2>1. j - 1 \in 0..n /\ i - 1 \in 0..j - 1 /\ Inv(j - 1)
    BY <1>0, <1>8, <1>12
  <2>2. A[j] \in rest[i - 1]
    BY <1>9, <2>1 DEF Inv
  <2> QED BY <1>9, <2>2
<1> QED BY <1>1, <1>10, <1>11, <1>12

\* A list in normal form: no range is empty, and each ends before the next begins.
Normal(s) ==
    /\ s \in Seq(Ranges)
    /\ \A i \in DOMAIN s : s[i][1] <= s[i][2]
    /\ \A i, j \in DOMAIN s : i < j => s[i][2] < s[j][1]

\* A list denotes the numbers that lie in one of its ranges.
LEMMA Denoted ==
    ASSUME NEW s, NEW n
    PROVE  n \in Denotes(s) <=> \E i \in DOMAIN s : n \in s[i][1]..s[i][2]
BY DEF Denotes

\* The empty list denotes nothing and is in normal form.
LEMMA DenotesNothing == Denotes(<<>>) = {} /\ Normal(<<>>)
<1>1. DOMAIN <<>> = {} /\ <<>> \in Seq(Ranges)
  OBVIOUS
<1> QED BY <1>1 DEF Denotes, Normal

\* One more range adds its numbers.
LEMMA Appended ==
    ASSUME NEW s \in Seq(Ranges), NEW r \in Ranges
    PROVE  /\ Append(s, r) \in Seq(Ranges)
           /\ Denotes(Append(s, r)) = Denotes(s) \cup r[1]..r[2]
<1>1. DOMAIN s = 1..Len(s) /\ Len(s) \in Nat /\ DOMAIN Append(s, r) = 1..Len(s) + 1
  OBVIOUS
<1>2. \A i \in DOMAIN s : i \in DOMAIN Append(s, r) /\ Append(s, r)[i] = s[i]
  BY <1>1
<1>3. Append(s, r)[Len(s) + 1] = r /\ Len(s) + 1 \in DOMAIN Append(s, r)
  BY <1>1
<1>4. \A i \in DOMAIN Append(s, r) : i \in DOMAIN s \/ i = Len(s) + 1
  BY <1>1
<1>5. \A n : n \in Denotes(Append(s, r)) <=> n \in Denotes(s) \/ n \in r[1]..r[2]
  <2> TAKE n
  <2>1. n \in Denotes(s) <=> \E i \in DOMAIN s : n \in s[i][1]..s[i][2]
    BY Denoted
  <2>2. n \in Denotes(Append(s, r))
          <=> \E i \in DOMAIN Append(s, r) : n \in Append(s, r)[i][1]..Append(s, r)[i][2]
    BY Denoted
  <2> QED BY <1>2, <1>3, <1>4, <2>1, <2>2, Zenon
<1> QED BY <1>5

\* A range behind all others keeps the form.
LEMMA NormalAppended ==
    ASSUME NEW s, Normal(s), NEW r \in Ranges, r[1] <= r[2],
           \A i \in DOMAIN s : s[i][2] < r[1]
    PROVE  Normal(Append(s, r))
<1>1. s \in Seq(Ranges) /\ DOMAIN s = 1..Len(s) /\ Len(s) \in Nat
  BY DEF Normal
<1> DEFINE t == Append(s, r)
<1>2. t \in Seq(Ranges) /\ DOMAIN t = 1..Len(s) + 1
  BY <1>1
<1>3. \A i \in DOMAIN s : t[i] = s[i]
  BY <1>1
<1>4. t[Len(s) + 1] = r
  BY <1>1
<1>5. \A i \in DOMAIN t : i \in DOMAIN s \/ i = Len(s) + 1
  BY <1>1, <1>2
<1> HIDE DEF t
<1>6. \A i \in DOMAIN t : t[i][1] <= t[i][2]
  BY <1>3, <1>4, <1>5 DEF Normal
<1>7. ASSUME NEW i \in DOMAIN t, NEW j \in DOMAIN t, i < j PROVE t[i][2] < t[j][1]
  <2>1. i \in DOMAIN s
    BY <1>1, <1>2, <1>7
  <2>2. CASE j \in DOMAIN s
    BY <1>3, <1>7, <2>1, <2>2 DEF Normal
  <2>3. CASE j = Len(s) + 1
    BY <1>3, <1>4, <2>1, <2>3
  <2> QED BY <1>5, <2>2, <2>3
<1> QED BY <1>2, <1>6, <1>7 DEF Normal, t

\* Joining a range that begins no earlier than the last one adds its numbers and keeps
\* the form.
LEMMA JoinIs ==
    ASSUME NEW s, Normal(s), NEW r \in Ranges, r[1] <= r[2], s # <<>> => s[Len(s)][1] <= r[1]
    PROVE  /\ Normal(Join(s, r))
           /\ Denotes(Join(s, r)) = Denotes(s) \cup r[1]..r[2]
           /\ Join(s, r) # <<>> /\ Join(s, r)[Len(Join(s, r))][1] <= r[1]
<1>1. s \in Seq(Ranges) /\ DOMAIN s = 1..Len(s) /\ Len(s) \in Nat
  BY DEF Normal
<1>2. r[1] \in Int /\ r[2] \in Int /\ \A i \in DOMAIN s : s[i][1] \in Int /\ s[i][2] \in Int
  BY <1>1 DEF Ranges
<1>3. CASE s # <<>> /\ Meets(s[Len(s)], r)
  <2> DEFINE m == Len(s)
             last == s[m]
             new == <<last[1], Larger(last[2], r[2])>>
             t == [s EXCEPT ![m] = new]
  <2>1. m \in DOMAIN s /\ \A i \in DOMAIN s : i <= m
    BY <1>1, <1>3
  <2>2. Join(s, r) = t
    BY <1>3 DEF Join
  <2>3. new \in Ranges /\ new[1] = last[1] /\ new[2] = Larger(last[2], r[2])
    BY <1>2, <2>1 DEF Ranges, Larger
  <2>4. t \in Seq(Ranges) /\ Len(t) = m /\ DOMAIN t = DOMAIN s /\ t[m] = new
        /\ \A i \in DOMAIN s : i # m => t[i] = s[i]
    BY <1>1, <2>1, <2>3
  <2>5. last[1] <= r[1] /\ r[1] <= last[2] + 1 /\ last[1] <= last[2]
        /\ last[1] \in Int /\ last[2] \in Int
    BY <1>2, <1>3, <2>1 DEF Meets, Normal
  <2> HIDE DEF t, new, last, m
  <2>6. new[1] <= new[2]
    BY <1>2, <2>3, <2>5 DEF Larger
  <2>7. \A n : n \in new[1]..new[2] <=> n \in last[1]..last[2] \/ n \in r[1]..r[2]
    BY <1>2, <2>3, <2>5 DEF Larger
  <2>8. Normal(t)
    <3>1. \A i \in DOMAIN t : t[i][1] <= t[i][2]
      BY <2>4, <2>6 DEF Normal
    <3>2. ASSUME NEW i \in DOMAIN t, NEW j \in DOMAIN t, i < j PROVE t[i][2] < t[j][1]
      <4>1. i # m
        BY <1>1, <2>1, <2>4, <3>2
      <4>2. t[i] = s[i] /\ s[i][2] < s[j][1]
        BY <2>4, <3>2, <4>1 DEF Normal
      <4>3. t[j][1] = s[j][1]
        BY <2>3, <2>4, <3>2 DEF last
      <4> QED BY <4>2, <4>3
    <3> QED BY <2>4, <3>1, <3>2 DEF Normal
  <2>9. \A n : n \in Denotes(t) <=> n \in Denotes(s) \/ n \in r[1]..r[2]
    <3> TAKE n
    <3>1. n \in Denotes(t) <=> \E i \in DOMAIN s : n \in t[i][1]..t[i][2]
      BY <2>4, Denoted
    <3>2. n \in Denotes(s) <=> \E i \in DOMAIN s : n \in s[i][1]..s[i][2]
      BY Denoted
    <3>3. n \in t[m][1]..t[m][2] <=> n \in s[m][1]..s[m][2] \/ n \in r[1]..r[2]
      BY <2>4, <2>7 DEF last
    <3> QED BY <2>1, <2>4, <3>1, <3>2, <3>3, Zenon
  <2>10. t # <<>> /\ t[Len(t)][1] <= r[1]
    BY <2>1, <2>3, <2>4, <2>5
  <2> QED BY <2>2, <2>8, <2>9, <2>10
<1>4. CASE ~(s # <<>> /\ Meets(s[Len(s)], r))
  <2>1. Join(s, r) = Append(s, r)
    BY <1>4 DEF Join
  <2>2. ASSUME NEW i \in DOMAIN s PROVE s[i][2] < r[1]
    <3>1. s # <<>> /\ Len(s) \in DOMAIN s /\ i <= Len(s)
      BY <1>1
    <3>2. s[Len(s)][2] < r[1]
      BY <1>2, <1>4, <3>1 DEF Meets
    <3>3. CASE i = Len(s)
      BY <3>2, <3>3
    <3>4. CASE i < Len(s)
      <4>1. s[i][2] < s[Len(s)][1] /\ s[Len(s)][1] <= s[Len(s)][2]
        BY <3>1, <3>4 DEF Normal
      <4> QED BY <1>2, <3>1, <3>2, <4>1
    <3> QED BY <1>1, <3>1, <3>3, <3>4
  <2>3. Normal(Append(s, r)) /\ Denotes(Append(s, r)) = Denotes(s) \cup r[1]..r[2]
    BY <1>1, <2>2, NormalAppended, Appended
  <2>4. Append(s, r) # <<>> /\ Append(s, r)[Len(Append(s, r))] = r
    BY <1>1
  <2> QED BY <1>2, <2>1, <2>3, <2>4
<1> QED BY <1>3, <1>4

\* Joining makes a list of ranges, in whatever order they come.
LEMMA JoinType ==
    ASSUME NEW s \in Seq(Ranges), NEW r \in Ranges
    PROVE  Join(s, r) \in Seq(Ranges)
<1>1. CASE s # <<>> /\ Meets(s[Len(s)], r)
  <2>1. Len(s) \in DOMAIN s /\ s[Len(s)] \in Ranges
    BY <1>1
  <2>2. <<s[Len(s)][1], Larger(s[Len(s)][2], r[2])>> \in Ranges
    BY <2>1 DEF Larger, Ranges
  <2> QED BY <1>1, <2>1, <2>2 DEF Join
<1>2. CASE ~(s # <<>> /\ Meets(s[Len(s)], r))
  BY <1>2 DEF Join
<1> QED BY <1>1, <1>2

\* The elements of a list are finitely many.
LEMMA Elements ==
    ASSUME NEW S, NEW s \in Seq(S)
    PROVE  IsFiniteSet(ToSet(s)) /\ ToSet(s) \subseteq S /\ \A e \in ToSet(s) : \E i \in DOMAIN s : s[i] = e
<1>1. Len(s) \in Nat /\ DOMAIN s = 1..Len(s) /\ \A i \in 1..Len(s) : s[i] \in S
  OBVIOUS
<1>2. ToSet(s) = {s[i] : i \in 1..Len(s)}
  BY <1>1 DEF ToSet
<1>3. [i \in 1..Len(s) |-> s[i]] \in Surjection(1..Len(s), ToSet(s))
  BY <1>2 DEF Surjection
<1>4. ExistsSurjection(1..Len(s), ToSet(s))
  BY <1>3 DEF ExistsSurjection
<1>5. IsFiniteSet(ToSet(s))
  BY <1>1, <1>4, FS_NatSurjection
<1> QED BY <1>1, <1>2, <1>5

\* merge: the result is in normal form and denotes what the list denotes.
LEMMA MergeIs ==
    ASSUME NEW ranges \in Seq(Ranges)
    PROVE  Normal(Merge(ranges)) /\ Denotes(Merge(ranges)) = Denotes(ranges)
<1> DEFINE S == {r \in ToSet(ranges) : r[1] <= r[2]}
           sorted == Ascending(S)
           n == Len(sorted)
<1>1. S \subseteq Ranges /\ IsFiniteSet(S)
  <2>1. IsFiniteSet(ToSet(ranges)) /\ ToSet(ranges) \subseteq Ranges
    BY Elements
  <2> QED BY <2>1, FS_Subset
<1>2. /\ sorted \in Seq(S)
      /\ \A r \in S : \E k \in DOMAIN sorted : sorted[k] = r
      /\ \A i, j \in DOMAIN sorted : i < j => ~Earlier(sorted[j], sorted[i])
  <2> HIDE DEF S
  <2> QED BY <1>1, AscendingIs
<1>3. n \in Nat /\ DOMAIN sorted = 1..n
  BY <1>2
<1>4. \A k \in 1..n : sorted[k] \in S
  BY <1>2, <1>3
<1> DEFINE Eq(u) == u = [k \in 0..n |-> IF k = 0 THEN <<>> ELSE Join(u[k - 1], sorted[k])]
           kept == CHOOSE u : Eq(u)
<1>5. Merge(ranges) = kept[n]
  BY DEF Merge
<1> HIDE DEF sorted
<1> DEFINE step == [u \in Seq(Ranges) \X (0..n) |->
                       IF u[2] = 0 THEN u[1] ELSE Join(u[1], sorted[u[2]])]
<1>6. PICK f \in [0..n -> Seq(Ranges)] : IsLoop(f, 0, n, <<>>, step)
  <2>1. ASSUME NEW u \in Seq(Ranges) \X (0..n)
        PROVE  (IF u[2] = 0 THEN u[1] ELSE Join(u[1], sorted[u[2]])) \in Seq(Ranges)
    <3>1. u[1] \in Seq(Ranges) /\ (u[2] # 0 => u[2] \in 1..n)
      BY <1>3
    <3>2. u[2] # 0 => sorted[u[2]] \in Ranges
      BY <1>1, <1>4, <3>1
    <3> HIDE DEF n
    <3> QED BY <3>1, <3>2, JoinType
  <2>2. step \in [Seq(Ranges) \X (0..n) -> Seq(Ranges)]
    BY <2>1
  <2>3. 0 \in Int /\ n \in Int /\ 0 <= n /\ <<>> \in Seq(Ranges)
    BY <1>3
  <2> HIDE DEF step, n
  <2> QED BY <2>2, <2>3, Loop
<1>7. Eq(f)
  <2>1. ASSUME NEW k \in 0..n, k # 0 PROVE f[k] = Join(f[k - 1], sorted[k])
    <3>1. k \in 0 + 1..n /\ k - 1 \in 0..n /\ f[k - 1] \in Seq(Ranges)
      <4>1. k \in 0 + 1..n /\ k - 1 \in 0..n
        BY <1>3, <2>1
      <4> HIDE DEF n
      <4> QED BY <1>6, <4>1
    <3>2. f[k] = step[<<f[k - 1], k>>]
      BY <1>6, <3>1 DEF IsLoop
    <3> QED BY <2>1, <3>1, <3>2
  <2>2. f[0] = <<>>
    BY <1>6 DEF IsLoop
  <2> QED BY <1>6, <2>1, <2>2
<1> HIDE DEF Eq
<1>8. Eq(kept)
  BY <1>7
<1> HIDE DEF kept
<1>9. kept[0] = <<>> /\ \A k \in 1..n : kept[k] = Join(kept[k - 1], sorted[k])
  <2>1. 0 \in 0..n /\ \A k \in 1..n : k \in 0..n /\ k # 0
    BY <1>3
  <2> HIDE DEF n
  <2>2. \A k \in 0..n : kept[k] = IF k = 0 THEN <<>> ELSE Join(kept[k - 1], sorted[k])
    BY <1>8, Zenon DEF Eq
  <2> QED BY <2>1, <2>2
<1> HIDE DEF step, n
<1> DEFINE Inv(k) ==
             /\ Normal(kept[k])
             /\ \A m : m \in Denotes(kept[k]) <=> \E i \in 1..k : m \in sorted[i][1]..sorted[i][2]
             /\ kept[k] # <<>> => k >= 1 /\ kept[k][Len(kept[k])][1] <= sorted[k][1]
           T == {k \in 0..n : Inv(k)}
<1>10. Inv(0)
  BY <1>9, DenotesNothing
<1>11. ASSUME NEW k \in 0..n, k < n, Inv(k) PROVE Inv(k + 1)
  <2>0. k < n
    BY <1>11
  <2>1. k + 1 \in 1..n /\ (k + 1) - 1 = k /\ \A i : i \in 1..k + 1 <=> i \in 1..k \/ i = k + 1
    BY <1>3, <2>0, OneMore
  <2>2. kept[k + 1] = Join(kept[k], sorted[k + 1])
    BY <1>9, <2>1
  <2>3. sorted[k + 1] \in Ranges /\ sorted[k + 1][1] <= sorted[k + 1][2]
    BY <1>1, <1>4, <2>1
  <2>4. kept[k] # <<>> => kept[k][Len(kept[k])][1] <= sorted[k + 1][1]
    <3> HAVE kept[k] # <<>>
    <3>1. k \in 1..n /\ k \in DOMAIN sorted /\ k + 1 \in DOMAIN sorted /\ k < k + 1
      BY <1>3, <1>11
    <3>2. ~Earlier(sorted[k + 1], sorted[k])
      BY <1>2, <3>1
    <3>3. sorted[k] \in Ranges
      BY <1>1, <1>4, <3>1
    <3>4. sorted[k][1] \in Int /\ sorted[k + 1][1] \in Int
      BY <2>3, <3>3 DEF Ranges
    <3>5. sorted[k][1] <= sorted[k + 1][1]
      BY <3>2, <3>4 DEF Earlier
    <3>6. kept[k][Len(kept[k])][1] \in Int
      <4>1. kept[k] \in Seq(Ranges)
        BY <1>11 DEF Normal
      <4>2. kept[k][Len(kept[k])] \in Ranges
        BY <4>1
      <4> QED BY <4>2 DEF Ranges
    <3> QED BY <1>11, <3>4, <3>5, <3>6
  <2>5. /\ Normal(kept[k + 1])
        /\ Denotes(kept[k + 1]) = Denotes(kept[k]) \cup sorted[k + 1][1]..sorted[k + 1][2]
        /\ kept[k + 1][Len(kept[k + 1])][1] <= sorted[k + 1][1]
    BY <1>11, <2>2, <2>3, <2>4, JoinIs
  <2>6. \A m : m \in Denotes(kept[k + 1])
                <=> \E i \in 1..k + 1 : m \in sorted[i][1]..sorted[i][2]
    BY <1>11, <2>1, <2>5, Zenon
  <2> QED BY <2>1, <2>5, <2>6
<1> HIDE DEF Inv
<1>12. n \in T
  <2>1. 0 \in T /\ \A k \in 0..n : k \in T /\ k < n => k + 1 \in T
    BY <1>3, <1>10, <1>11
  <2> HIDE DEF T
  <2> QED BY <1>3, <2>1, UpTo
<1>13. Normal(kept[n]) /\ \A m : m \in Denotes(kept[n]) <=> \E i \in 1..n : m \in sorted[i][1]..sorted[i][2]
  BY <1>12 DEF Inv
<1>14. \A m : m \in Denotes(ranges) <=> \E i \in 1..n : m \in sorted[i][1]..sorted[i][2]
  <2> TAKE m
  <2>1. m \in Denotes(ranges) <=> \E i \in DOMAIN ranges : m \in ranges[i][1]..ranges[i][2]
    BY Denoted
  <2>2. ASSUME NEW i \in DOMAIN ranges, m \in ranges[i][1]..ranges[i][2]
        PROVE  \E k \in 1..n : m \in sorted[k][1]..sorted[k][2]
    <3>1. ranges[i] \in ToSet(ranges) /\ ranges[i] \in Ranges
      BY Elements DEF ToSet
    <3>2. ranges[i][1] \in Int /\ ranges[i][2] \in Int
      BY <3>1 DEF Ranges
    <3>3. ranges[i][1] <= ranges[i][2]
      BY <2>2, <3>2
    <3>4. ranges[i] \in S
      BY <3>1, <3>3
    <3>5. PICK k \in DOMAIN sorted : sorted[k] = ranges[i]
      BY <1>2, <3>4
    <3> QED BY <1>3, <2>2, <3>5
  <2>3. ASSUME NEW k \in 1..n, m \in sorted[k][1]..sorted[k][2]
        PROVE  \E i \in DOMAIN ranges : m \in ranges[i][1]..ranges[i][2]
    <3>1. sorted[k] \in ToSet(ranges)
      BY <1>4
    <3>2. PICK i \in DOMAIN ranges : ranges[i] = sorted[k]
      BY <3>1, Elements
    <3> QED BY <2>3, <3>2
  <2> QED BY <2>1, <2>2, <2>3
<1> QED BY <1>5, <1>13, <1>14

(* ------------------------------- intersect -------------------------------- *)

Cursors == [i : Nat \ {0}, j : Nat \ {0}, out : Seq(Ranges)]

\* What two pointers have found: only common numbers, and all that lie in a range one of
\* them has passed.
Found(a, b, c) ==
    /\ \A m \in Denotes(c.out) : m \in Denotes(a) /\ m \in Denotes(b)
    /\ \A p \in DOMAIN a, q \in DOMAIN b : (p < c.i \/ q < c.j) =>
          \A m \in Int : m \in a[p][1]..a[p][2] /\ m \in b[q][1]..b[q][2] => m \in Denotes(c.out)

\* A round moves exactly one pointer by one until one of the lists is through.
LEMMA AdvanceMoves ==
    ASSUME NEW a \in Seq(Ranges), NEW b \in Seq(Ranges), NEW c \in Cursors
    PROVE  /\ Advance(a, b, c) \in Cursors
           /\ c.i <= Len(a) /\ c.j <= Len(b) =>
                \/ Advance(a, b, c).i = c.i + 1 /\ Advance(a, b, c).j = c.j
                \/ Advance(a, b, c).i = c.i /\ Advance(a, b, c).j = c.j + 1
           /\ c.i > Len(a) \/ c.j > Len(b) => Advance(a, b, c) = c
<1>1. CASE c.i > Len(a) \/ c.j > Len(b)
  <2>1. Advance(a, b, c) = c
    BY <1>1 DEF Advance
  <2>2. c.i \in Nat /\ c.j \in Nat /\ Len(a) \in Nat /\ Len(b) \in Nat
    BY DEF Cursors
  <2>3. ~(c.i <= Len(a) /\ c.j <= Len(b))
    BY <1>1, <2>2
  <2> QED BY <2>1, <2>3
<1>2. CASE ~(c.i > Len(a) \/ c.j > Len(b))
  <2>1. c.i \in DOMAIN a /\ c.j \in DOMAIN b /\ c.i \in Nat \ {0} /\ c.j \in Nat \ {0} /\ c.out \in Seq(Ranges)
    BY <1>2 DEF Cursors
  <2>2. a[c.i] \in Ranges /\ b[c.j] \in Ranges
    BY <2>1
  <2> DEFINE lo == Larger(a[c.i][1], b[c.j][1])
             hi == Smaller(a[c.i][2], b[c.j][2])
             first == a[c.i][2] < b[c.j][2]
             new == [i |-> IF first THEN c.i + 1 ELSE c.i,
                     j |-> IF first THEN c.j ELSE c.j + 1,
                     out |-> IF lo <= hi THEN Append(c.out, <<lo, hi>>) ELSE c.out]
  <2>3. Advance(a, b, c) = new
    BY <1>2 DEF Advance
  <2>4. <<lo, hi>> \in Ranges
    <3>1. a[c.i][1] \in Int /\ a[c.i][2] \in Int /\ b[c.j][1] \in Int /\ b[c.j][2] \in Int
      BY <2>2 DEF Ranges
    <3>2. lo \in Int /\ hi \in Int
      BY <3>1 DEF Larger, Smaller
    <3> HIDE DEF lo, hi
    <3> QED BY <3>2 DEF Ranges
  <2> HIDE DEF lo, hi, first
  <2>5. new.out \in Seq(Ranges)
    BY <2>1, <2>4
  <2>6. new.i \in Nat \ {0} /\ new.j \in Nat \ {0}
        /\ (\/ new.i = c.i + 1 /\ new.j = c.j
            \/ new.i = c.i /\ new.j = c.j + 1)
    BY <2>1
  <2>7. new \in Cursors
    BY <2>5, <2>6 DEF Cursors
  <2> QED BY <1>2, <2>3, <2>6, <2>7
<1> QED BY <1>1, <1>2

\* A round adds what the two ranges have in common; the range passed has nothing more in
\* common with a later one.
LEMMA AdvanceFinds ==
    ASSUME NEW a, Normal(a), NEW b, Normal(b), NEW c \in Cursors, Found(a, b, c)
    PROVE  Found(a, b, Advance(a, b, c))
<1>0. a \in Seq(Ranges) /\ b \in Seq(Ranges)
  BY DEF Normal
<1>1. CASE c.i > Len(a) \/ c.j > Len(b)
  BY <1>0, <1>1, AdvanceMoves
<1>2. CASE ~(c.i > Len(a) \/ c.j > Len(b))
  <2>1. c.i \in DOMAIN a /\ c.j \in DOMAIN b /\ c.i \in Nat \ {0} /\ c.j \in Nat \ {0} /\ c.out \in Seq(Ranges)
    BY <1>0, <1>2 DEF Cursors
  <2> DEFINE lo == Larger(a[c.i][1], b[c.j][1])
             hi == Smaller(a[c.i][2], b[c.j][2])
             first == a[c.i][2] < b[c.j][2]
             new == Advance(a, b, c)
  <2>2. /\ new.i = IF first THEN c.i + 1 ELSE c.i
        /\ new.j = IF first THEN c.j ELSE c.j + 1
        /\ new.out = IF lo <= hi THEN Append(c.out, <<lo, hi>>) ELSE c.out
    BY <1>2 DEF Advance
  <2>3. /\ \A p \in DOMAIN a : p \in Int /\ a[p][1] \in Int /\ a[p][2] \in Int /\ a[p][1] <= a[p][2]
        /\ \A q \in DOMAIN b : q \in Int /\ b[q][1] \in Int /\ b[q][2] \in Int /\ b[q][1] <= b[q][2]
    <3>1. \A p \in DOMAIN a : p \in Int /\ a[p] \in Ranges
      BY <1>0
    <3>2. \A q \in DOMAIN b : q \in Int /\ b[q] \in Ranges
      BY <1>0
    <3> QED BY <3>1, <3>2 DEF Normal, Ranges
  <2>4. /\ lo \in Int /\ hi \in Int
        /\ \A k \in Int : lo <= k <=> a[c.i][1] <= k /\ b[c.j][1] <= k
        /\ \A k \in Int : k <= hi <=> k <= a[c.i][2] /\ k <= b[c.j][2]
    <3>1. a[c.i][1] \in Int /\ a[c.i][2] \in Int /\ b[c.j][1] \in Int /\ b[c.j][2] \in Int
      BY <2>1, <2>3
    <3> QED BY <3>1 DEF Larger, Smaller
  <2> HIDE DEF lo, hi, new
  <2>5. \A m : m \in lo..hi <=> m \in a[c.i][1]..a[c.i][2] /\ m \in b[c.j][1]..b[c.j][2]
    <3>1. a[c.i][1] \in Int /\ a[c.i][2] \in Int /\ b[c.j][1] \in Int /\ b[c.j][2] \in Int
      BY <2>1, <2>3
    <3> QED BY <2>4, <3>1
  <2>6. \A m : m \in Denotes(new.out) <=> m \in Denotes(c.out) \/ m \in lo..hi
    <3>1. CASE lo <= hi
      <4>1. <<lo, hi>> \in Ranges
        BY <2>4 DEF Ranges
      <4>2. Denotes(Append(c.out, <<lo, hi>>)) = Denotes(c.out) \cup lo..hi
        BY <2>1, <4>1, Appended
      <4> QED BY <2>2, <3>1, <4>2
    <3>2. CASE ~(lo <= hi)
      <4>1. lo..hi = {}
        BY <2>4, <3>2
      <4> QED BY <2>2, <3>2, <4>1
    <3> QED BY <3>1, <3>2
  <2>7. \A m \in Denotes(new.out) : m \in Denotes(a) /\ m \in Denotes(b)
    <3> TAKE m \in Denotes(new.out)
    <3>1. CASE m \in Denotes(c.out)
      BY <3>1 DEF Found
    <3>2. CASE m \in lo..hi
      BY <2>1, <2>5, <3>2, Denoted
    <3> QED BY <2>6, <3>1, <3>2
  <2>8. ASSUME NEW p \in DOMAIN a, NEW q \in DOMAIN b, p < new.i \/ q < new.j, NEW m \in Int,
               m \in a[p][1]..a[p][2], m \in b[q][1]..b[q][2]
        PROVE  m \in Denotes(new.out)
    <3>1. CASE p < c.i \/ q < c.j
      BY <2>6, <2>8, <3>1 DEF Found
    <3>2. CASE p = c.i /\ q = c.j
      BY <2>5, <2>6, <2>8, <3>2
    <3>3. CASE first /\ p = c.i /\ q > c.j
      <4>1. b[c.j][2] < b[q][1]
        BY <2>1, <3>3 DEF Normal
      <4> QED BY <2>1, <2>3, <2>8, <3>3, <4>1
    <3>4. CASE ~first /\ q = c.j /\ p > c.i
      <4>1. a[c.i][2] < a[p][1]
        BY <2>1, <3>4 DEF Normal
      <4> QED BY <2>1, <2>3, <2>8, <3>4, <4>1
    <3>5. \/ p < c.i \/ q < c.j
          \/ p = c.i /\ q = c.j
          \/ first /\ p = c.i /\ q > c.j
          \/ ~first /\ q = c.j /\ p > c.i
      <4>1. p \in Int /\ q \in Int
        BY <2>3
      <4> HIDE DEF first
      <4> QED BY <2>1, <2>2, <2>8, <4>1
    <3> QED BY <3>1, <3>2, <3>3, <3>4, <3>5
  <2> QED BY <2>7, <2>8 DEF Found, new
<1> QED BY <1>1, <1>2

\* intersect: the result denotes what both lists denote.
LEMMA IntersectIs ==
    ASSUME NEW s \in Seq(Ranges), NEW t \in Seq(Ranges)
    PROVE  /\ Intersect(s, t) \in Seq(Ranges)
           /\ Denotes(Intersect(s, t)) = Denotes(s) \cap Denotes(t)
<1> DEFINE a == Merge(s)
           b == Merge(t)
           n == Len(a) + Len(b)
           begin == [i |-> 1, j |-> 1, out |-> <<>>]
           Eq(u) == u = [k \in 0..n |-> IF k = 0 THEN begin ELSE Advance(a, b, u[k - 1])]
           round == CHOOSE u : Eq(u)
<1>1. Intersect(s, t) = round[n].out
  BY DEF Intersect
<1>2. Normal(a) /\ Denotes(a) = Denotes(s) /\ Normal(b) /\ Denotes(b) = Denotes(t)
  BY MergeIs
<1> HIDE DEF a, b
<1>3. a \in Seq(Ranges) /\ b \in Seq(Ranges) /\ Len(a) \in Nat /\ Len(b) \in Nat /\ n \in Nat
      /\ DOMAIN a = 1..Len(a) /\ DOMAIN b = 1..Len(b)
  BY <1>2 DEF Normal
<1>4. begin \in Cursors
  BY DEF Cursors
<1> DEFINE step == [u \in Cursors \X (0..n) |-> Advance(a, b, u[1])]
<1>5. PICK f \in [0..n -> Cursors] : IsLoop(f, 0, n, begin, step)
  <2>1. step \in [Cursors \X (0..n) -> Cursors]
    BY <1>3, AdvanceMoves
  <2>2. 0 \in Int /\ n \in Int /\ 0 <= n
    BY <1>3
  <2> HIDE DEF step, n, begin
  <2> QED BY <1>4, <2>1, <2>2, Loop
<1> HIDE DEF begin
<1>6. Eq(f)
  <2>1. ASSUME NEW k \in 0..n, k # 0 PROVE f[k] = Advance(a, b, f[k - 1])
    <3>1. k \in 0 + 1..n /\ k - 1 \in 0..n
      BY <1>3, <2>1
    <3> HIDE DEF n
    <3>2. f[k - 1] \in Cursors
      BY <1>5, <3>1
    <3>3. f[k] = step[<<f[k - 1], k>>]
      BY <1>5, <3>1 DEF IsLoop
    <3> QED BY <3>2, <3>3
  <2>2. f[0] = begin
    BY <1>5 DEF IsLoop
  <2> QED BY <1>5, <2>1, <2>2
<1> HIDE DEF Eq
<1>7. Eq(round)
  BY <1>6
<1> HIDE DEF round
<1>8. round[0] = begin /\ \A k \in 1..n : round[k] = Advance(a, b, round[k - 1])
  <2>1. 0 \in 0..n /\ \A k \in 1..n : k \in 0..n /\ k # 0
    BY <1>3
  <2> HIDE DEF n
  <2>2. \A k \in 0..n : round[k] = IF k = 0 THEN begin ELSE Advance(a, b, round[k - 1])
    BY <1>7, Zenon DEF Eq
  <2> QED BY <2>1, <2>2
<1> DEFINE Inv(k) == /\ round[k] \in Cursors
                     /\ Found(a, b, round[k])
                     /\ \/ round[k].i > Len(a) \/ round[k].j > Len(b)
                        \/ round[k].i + round[k].j = k + 2
           T == {k \in 0..n : Inv(k)}
<1>9. Inv(0)
  <2>1. begin.i = 1 /\ begin.j = 1 /\ begin.out = <<>>
    BY DEF begin
  <2>2. \A p \in DOMAIN a, q \in DOMAIN b : ~(p < begin.i \/ q < begin.j)
    BY <1>3, <2>1
  <2>3. Found(a, b, begin)
    BY <2>1, <2>2, DenotesNothing DEF Found
  <2> QED BY <1>4, <1>8, <2>1, <2>3
<1>10. ASSUME NEW k \in 0..n, k < n, Inv(k) PROVE Inv(k + 1)
  <2>1. k + 1 \in 1..n /\ (k + 1) - 1 = k
    BY <1>3, <1>10
  <2>2. round[k + 1] = Advance(a, b, round[k])
    BY <1>8, <2>1
  <2>3. round[k + 1] \in Cursors /\ Found(a, b, round[k + 1])
    BY <1>2, <1>3, <1>10, <2>2, AdvanceMoves, AdvanceFinds
  <2> HIDE DEF n
  <2>4. CASE round[k].i > Len(a) \/ round[k].j > Len(b)
    BY <1>3, <1>10, <2>2, <2>3, <2>4, AdvanceMoves
  <2>5. CASE ~(round[k].i > Len(a) \/ round[k].j > Len(b))
    <3>1. round[k].i \in Nat /\ round[k].j \in Nat
      BY <1>10 DEF Cursors
    <3>2. round[k].i <= Len(a) /\ round[k].j <= Len(b)
      BY <1>3, <2>5, <3>1
    <3> DEFINE c == round[k]
    <3>6. c \in Cursors /\ c.i <= Len(a) /\ c.j <= Len(b)
      BY <1>10, <3>2
    <3>3. \/ round[k + 1].i = c.i + 1 /\ round[k + 1].j = c.j
          \/ round[k + 1].i = c.i /\ round[k + 1].j = c.j + 1
      <4> HIDE DEF c
      <4>1. \/ Advance(a, b, c).i = c.i + 1 /\ Advance(a, b, c).j = c.j
            \/ Advance(a, b, c).i = c.i /\ Advance(a, b, c).j = c.j + 1
        BY <1>3, <3>6, AdvanceMoves
      <4> QED BY <2>2, <4>1 DEF c
    <3>4. round[k].i + round[k].j = k + 2
      BY <1>10, <2>5
    <3>5. round[k + 1].i + round[k + 1].j = (k + 1) + 2
      <4>1. round[k].i + 1 + round[k].j = k + 3 /\ round[k].i + (round[k].j + 1) = k + 3
        <5>1. \A x, y \in Nat, z \in Int : x + y = z + 2 => x + 1 + y = z + 3 /\ x + (y + 1) = z + 3
          OBVIOUS
        <5>2. k \in Int
          BY <1>3
        <5> QED BY <3>1, <3>4, <5>1, <5>2
      <4>2. (k + 1) + 2 = k + 3
        BY <1>3
      <4> QED BY <3>3, <4>1, <4>2
    <3> QED BY <2>3, <3>5
  <2> QED BY <2>4, <2>5
<1> HIDE DEF Inv
<1>11. n \in T
  <2>1. 0 \in T /\ \A k \in 0..n : k \in T /\ k < n => k + 1 \in T
    BY <1>3, <1>9, <1>10
  <2> HIDE DEF T, n
  <2> QED BY <1>3, <2>1, UpTo
<1>12. Inv(n)
  BY <1>11
<1> DEFINE c == round[n]
<1>13. c \in Cursors /\ Found(a, b, c) /\ (c.i > Len(a) \/ c.j > Len(b))
  <2>1. c.i \in Nat /\ c.j \in Nat
    BY <1>12 DEF Inv, Cursors
  <2>2. c.i + c.j = Len(a) + Len(b) + 2 => c.i > Len(a) \/ c.j > Len(b)
    BY <1>3, <2>1
  <2> QED BY <1>12, <2>2 DEF Inv
<1> HIDE DEF c
<1>14. \A m : m \in Denotes(c.out) <=> m \in Denotes(a) /\ m \in Denotes(b)
  <2>1. ASSUME NEW m, m \in Denotes(a), m \in Denotes(b) PROVE m \in Denotes(c.out)
    <3>1. PICK p \in DOMAIN a : m \in a[p][1]..a[p][2]
      BY <2>1, Denoted
    <3>2. PICK q \in DOMAIN b : m \in b[q][1]..b[q][2]
      BY <2>1, Denoted
    <3>3. p < c.i \/ q < c.j
      <4>1. c.i \in Nat /\ c.j \in Nat
        BY <1>13 DEF Cursors
      <4> QED BY <1>3, <1>13, <4>1
    <3>4. m \in Int
      <4>1. a[p] \in Ranges
        BY <1>3
      <4> QED BY <3>1, <4>1 DEF Ranges
    <3> QED BY <1>13, <3>1, <3>2, <3>3, <3>4 DEF Found
  <2>2. \A m \in Denotes(c.out) : m \in Denotes(a) /\ m \in Denotes(b)
    BY <1>13 DEF Found
  <2> QED BY <2>1, <2>2
<1>15. c.out \in Seq(Ranges)
  BY <1>13 DEF Cursors
<1> QED BY <1>1, <1>2, <1>14, <1>15 DEF c

(* -------------------------------- subtract -------------------------------- *)

\* One list behind the other denotes what both denote, and keeps the form if it lies behind.
LEMMA Joined ==
    ASSUME NEW s \in Seq(Ranges), NEW t \in Seq(Ranges)
    PROVE  /\ s \o t \in Seq(Ranges)
           /\ Denotes(s \o t) = Denotes(s) \cup Denotes(t)
           /\ \A i \in DOMAIN (s \o t) : \/ i \in DOMAIN s /\ (s \o t)[i] = s[i]
                                         \/ i - Len(s) \in DOMAIN t /\ (s \o t)[i] = t[i - Len(s)]
           /\ (Normal(s) /\ Normal(t) /\ \A i \in DOMAIN s, j \in DOMAIN t : s[i][2] < t[j][1])
                 => Normal(s \o t)
<1> DEFINE u == s \o t
<1>1. /\ u \in Seq(Ranges) /\ Len(s) \in Nat /\ Len(t) \in Nat
      /\ DOMAIN s = 1..Len(s) /\ DOMAIN t = 1..Len(t) /\ DOMAIN u = 1..Len(s) + Len(t)
  OBVIOUS
<1>2. \A i \in DOMAIN s : i \in DOMAIN u /\ u[i] = s[i]
  BY <1>1
<1>3. \A i \in DOMAIN t : i + Len(s) \in DOMAIN u /\ u[i + Len(s)] = t[i]
  BY <1>1
<1>4. \A i \in DOMAIN u : \/ i \in DOMAIN s /\ u[i] = s[i]
                          \/ i - Len(s) \in DOMAIN t /\ u[i] = t[i - Len(s)]
  BY <1>1
<1> HIDE DEF u
<1>5. \A m : m \in Denotes(u) <=> m \in Denotes(s) \/ m \in Denotes(t)
  <2> TAKE m
  <2>1. m \in Denotes(u) <=> \E i \in DOMAIN u : m \in u[i][1]..u[i][2]
    BY Denoted
  <2>2. m \in Denotes(s) <=> \E i \in DOMAIN s : m \in s[i][1]..s[i][2]
    BY Denoted
  <2>3. m \in Denotes(t) <=> \E i \in DOMAIN t : m \in t[i][1]..t[i][2]
    BY Denoted
  <2>4. m \in Denotes(s) => m \in Denotes(u)
    BY <1>2, <2>1, <2>2, Zenon
  <2>5. m \in Denotes(t) => m \in Denotes(u)
    BY <1>3, <2>1, <2>3, Zenon
  <2>6. m \in Denotes(u) => m \in Denotes(s) \/ m \in Denotes(t)
    BY <1>4, <2>1, <2>2, <2>3, Zenon
  <2> QED BY <2>4, <2>5, <2>6
<1>6. ASSUME Normal(s), Normal(t), \A i \in DOMAIN s, j \in DOMAIN t : s[i][2] < t[j][1]
      PROVE  Normal(u)
  <2>1. \A i \in DOMAIN u : u[i][1] <= u[i][2]
    BY <1>4, <1>6 DEF Normal
  <2>2. ASSUME NEW i \in DOMAIN u, NEW j \in DOMAIN u, i < j PROVE u[i][2] < u[j][1]
    <3>1. CASE i \in DOMAIN s /\ u[i] = s[i] /\ j \in DOMAIN s /\ u[j] = s[j]
      BY <1>6, <2>2, <3>1 DEF Normal
    <3>2. CASE i \in DOMAIN s /\ u[i] = s[i] /\ j - Len(s) \in DOMAIN t /\ u[j] = t[j - Len(s)]
      BY <1>6, <3>2
    <3>3. CASE i - Len(s) \in DOMAIN t /\ u[i] = t[i - Len(s)]
      <4>1. j - Len(s) \in DOMAIN t /\ u[j] = t[j - Len(s)] /\ i - Len(s) < j - Len(s)
        BY <1>1, <1>4, <2>2, <3>3
      <4> QED BY <1>6, <3>3, <4>1 DEF Normal
    <3> QED BY <1>4, <3>1, <3>2, <3>3
  <2> QED BY <1>1, <2>1, <2>2 DEF Normal
<1> QED BY <1>1, <1>4, <1>5, <1>6 DEF u

Left == [cur : Int, out : Seq(Ranges)]

\* What cutting the first k ranges of b out of r has left: the pieces made, and the rest
\* from the cursor on.
CutSoFar(r, b, k, c) ==
    /\ Normal(c.out) /\ r[1] <= c.cur
    /\ \A i \in DOMAIN c.out :
          /\ r[1] <= c.out[i][1] /\ c.out[i][2] <= r[2] /\ c.out[i][2] < c.cur
          /\ \A j \in DOMAIN b : k < j => c.out[i][2] < b[j][1]
    /\ \A m \in Int : m \in Denotes(c.out) \/ m \in c.cur..r[2]
                        <=> m \in r[1]..r[2] /\ \A i \in 1..k : ~(m \in b[i][1]..b[i][2])

\* Cutting one range leaves a cursor and a list of ranges.
LEMMA WithoutType ==
    ASSUME NEW r \in Ranges, NEW q \in Ranges, NEW c \in Left
    PROVE  Without(r, c, q) \in Left
<1>1. r[1] \in Int /\ r[2] \in Int /\ q[1] \in Int /\ q[2] \in Int /\ c.cur \in Int /\ c.out \in Seq(Ranges)
  BY DEF Ranges, Left
<1>2. <<c.cur, q[1] - 1>> \in Ranges /\ Larger(c.cur, q[2] + 1) \in Int
  BY <1>1 DEF Ranges, Larger
<1>3. Append(c.out, <<c.cur, q[1] - 1>>) \in Seq(Ranges)
  BY <1>1, <1>2
<1> QED BY <1>1, <1>2, <1>3 DEF Without, Left

\* Cutting one range moves the cursor behind it and keeps the piece before it.
LEMMA WithoutCuts ==
    ASSUME NEW r \in Ranges, NEW b, Normal(b), NEW c \in Left, NEW k \in Nat, k + 1 \in DOMAIN b,
           CutSoFar(r, b, k, c)
    PROVE  CutSoFar(r, b, k + 1, Without(r, c, b[k + 1]))
<1> DEFINE q == b[k + 1]
           d == Without(r, c, q)
<1>0. /\ b \in Seq(Ranges) /\ q \in Ranges /\ q[1] <= q[2]
      /\ \A j \in DOMAIN b : j \in Int /\ (k + 1 < j => k < j /\ q[2] < b[j][1] /\ b[j] \in Ranges)
  BY DEF Normal
<1>1. r[1] \in Int /\ r[2] \in Int /\ q[1] \in Int /\ q[2] \in Int /\ c.cur \in Int /\ c.out \in Seq(Ranges)
      /\ \A j \in DOMAIN b : k + 1 < j => b[j][1] \in Int
  BY <1>0 DEF Ranges, Left
<1>2. \A i \in DOMAIN c.out : c.out[i][1] \in Int /\ c.out[i][2] \in Int
  <2>1. \A i \in DOMAIN c.out : c.out[i] \in Ranges
    BY <1>1
  <2> QED BY <2>1 DEF Ranges
<1>3. k < k + 1 /\ \A i : i \in 1..k + 1 <=> i \in 1..k \/ i = k + 1
  OBVIOUS
<1>4. \A m \in Denotes(c.out) : ~(m \in q[1]..q[2])
  <2> TAKE m \in Denotes(c.out)
  <2>1. PICK i \in DOMAIN c.out : m \in c.out[i][1]..c.out[i][2]
    BY Denoted
  <2>2. c.out[i][2] < q[1]
    BY <1>3 DEF CutSoFar
  <2> HIDE DEF q
  <2> QED BY <1>1, <1>2, <2>1, <2>2
<1>5. \A m \in Int : m \in Denotes(c.out) \/ (m \in c.cur..r[2] /\ ~(m \in q[1]..q[2]))
                       <=> m \in r[1]..r[2] /\ \A i \in 1..k + 1 : ~(m \in b[i][1]..b[i][2])
  <2> TAKE m \in Int
  <2>1. m \in Denotes(c.out) \/ m \in c.cur..r[2]
          <=> m \in r[1]..r[2] /\ \A i \in 1..k : ~(m \in b[i][1]..b[i][2])
    BY DEF CutSoFar
  <2>2. (\A i \in 1..k + 1 : ~(m \in b[i][1]..b[i][2]))
          <=> (\A i \in 1..k : ~(m \in b[i][1]..b[i][2])) /\ ~(m \in q[1]..q[2])
    BY <1>3, Zenon
  <2> HIDE DEF q
  <2> QED BY <1>4, <2>1, <2>2, Zenon
<1>6. \A i \in DOMAIN c.out : \A j \in DOMAIN b : k + 1 < j => c.out[i][2] < b[j][1]
  BY <1>0 DEF CutSoFar
<1> HIDE DEF q
<1>7. CASE c.cur > r[2] \/ q[2] < c.cur \/ q[1] > r[2]
  <2>1. d = c
    BY <1>7 DEF Without
  <2>2. \A m \in c.cur..r[2] : ~(m \in q[1]..q[2])
    BY <1>1, <1>7
  <2>3. \A m \in Int : m \in Denotes(c.out) \/ m \in c.cur..r[2]
                       <=> m \in r[1]..r[2] /\ \A i \in 1..k + 1 : ~(m \in b[i][1]..b[i][2])
    BY <1>5, <2>2, Zenon
  <2>4. CutSoFar(r, b, k + 1, c)
    BY <1>6, <2>3 DEF CutSoFar
  <2> QED BY <2>1, <2>4 DEF q
<1>8. CASE ~(c.cur > r[2] \/ q[2] < c.cur \/ q[1] > r[2])
  <2>1. c.cur <= r[2] /\ c.cur <= q[2] /\ q[1] <= r[2]
    BY <1>1, <1>8
  <2>2. d = [cur |-> Larger(c.cur, q[2] + 1),
             out |-> IF q[1] > c.cur THEN Append(c.out, <<c.cur, q[1] - 1>>) ELSE c.out]
    BY <1>8 DEF Without
  <2>3. d.cur = q[2] + 1
    BY <1>1, <2>1, <2>2 DEF Larger
  <2>4. ASSUME NEW m \in Int
        PROVE  m \in c.cur..r[2] /\ ~(m \in q[1]..q[2]) <=> m \in c.cur..q[1] - 1 \/ m \in q[2] + 1..r[2]
    <3>1. /\ c.cur \in Int /\ r[2] \in Int /\ q[1] \in Int /\ q[2] \in Int
          /\ q[1] <= q[2] /\ c.cur <= q[2] /\ q[1] <= r[2]
      BY <1>0, <1>1, <2>1
    <3> QED BY <3>1, BeforeAndAfter
  <2>5. r[1] <= d.cur
    BY <1>1, <2>1, <2>3 DEF CutSoFar
  <2>6. CASE q[1] > c.cur
    <3> DEFINE new == <<c.cur, q[1] - 1>>
    <3>1. d.out = Append(c.out, new) /\ new \in Ranges /\ new[1] = c.cur /\ new[2] = q[1] - 1
      BY <1>1, <2>2, <2>6, SMTT(30) DEF Ranges
    <3> HIDE DEF new
    <3>2. new[1] <= new[2] /\ \A i \in DOMAIN c.out : c.out[i][2] < new[1]
      BY <1>1, <2>6, <3>1 DEF CutSoFar
    <3>3. Normal(d.out)
      BY <1>1, <3>1, <3>2, NormalAppended DEF CutSoFar
    <3>4. Denotes(d.out) = Denotes(c.out) \cup c.cur..q[1] - 1
      BY <1>1, <3>1, Appended
    <3>5. \A i \in DOMAIN d.out : (i \in DOMAIN c.out /\ d.out[i] = c.out[i]) \/ d.out[i] = new
      BY <1>1, <3>1
    <3>6. ASSUME NEW i \in DOMAIN d.out
          PROVE  /\ r[1] <= d.out[i][1] /\ d.out[i][2] <= r[2] /\ d.out[i][2] < d.cur
                 /\ \A j \in DOMAIN b : k + 1 < j => d.out[i][2] < b[j][1]
      <4>1. CASE i \in DOMAIN c.out /\ d.out[i] = c.out[i]
        <5>1. d.out[i][2] < d.cur
          BY <1>1, <1>2, <2>1, <2>3, <4>1, SMTT(30) DEF CutSoFar
        <5> QED BY <1>6, <4>1, <5>1 DEF CutSoFar
      <4>2. CASE d.out[i] = new
        <5>1. r[1] <= d.out[i][1] /\ d.out[i][2] <= r[2] /\ d.out[i][2] < d.cur
          BY <1>0, <1>1, <2>1, <2>3, <3>1, <4>2, SMTT(30) DEF CutSoFar
        <5>2. \A j \in DOMAIN b : k + 1 < j => q[1] - 1 < b[j][1]
          BY <1>0, <1>1, SMTT(60)
        <5> QED BY <3>1, <4>2, <5>1, <5>2
      <4> QED BY <3>5, <4>1, <4>2
    <3>7. \A m \in Int : m \in Denotes(d.out) \/ m \in d.cur..r[2]
                          <=> m \in r[1]..r[2] /\ \A i \in 1..k + 1 : ~(m \in b[i][1]..b[i][2])
      BY <1>5, <2>3, <2>4, <3>4, Zenon
    <3> QED BY <2>5, <3>3, <3>6, <3>7 DEF CutSoFar, q, d
  <2>7. CASE ~(q[1] > c.cur)
    <3>1. d.out = c.out
      BY <2>2, <2>7
    <3>2. \A i \in DOMAIN c.out : c.out[i][2] < d.cur
      BY <1>1, <1>2, <2>1, <2>3 DEF CutSoFar
    <3>3. \A m : ~(m \in c.cur..q[1] - 1)
      BY <1>1, <2>7
    <3>4. \A m \in Int : m \in Denotes(d.out) \/ m \in d.cur..r[2]
                          <=> m \in r[1]..r[2] /\ \A i \in 1..k + 1 : ~(m \in b[i][1]..b[i][2])
      BY <1>5, <2>3, <2>4, <3>1, <3>3, Zenon
    <3> QED BY <1>6, <2>5, <3>1, <3>2, <3>4 DEF CutSoFar, q, d
  <2> QED BY <2>6, <2>7
<1> QED BY <1>7, <1>8

\* subtract, inner loop: what is left of a range is in normal form and lies within it.
LEMMA CutIs ==
    ASSUME NEW r \in Ranges, NEW b, Normal(b)
    PROVE  /\ Normal(Cut(r, b))
           /\ \A i \in DOMAIN Cut(r, b) : r[1] <= Cut(r, b)[i][1] /\ Cut(r, b)[i][2] <= r[2]
           /\ \A m : m \in Denotes(Cut(r, b)) <=> m \in r[1]..r[2] /\ m \notin Denotes(b)
<1> DEFINE n == Len(b)
           begin == [cur |-> r[1], out |-> <<>>]
           Eq(u) == u = [k \in 0..n |-> IF k = 0 THEN begin ELSE Without(r, u[k - 1], b[k])]
           done == CHOOSE u : Eq(u)
           last == done[n]
<1>1. Cut(r, b) = IF last.cur <= r[2] THEN Append(last.out, <<last.cur, r[2]>>) ELSE last.out
  BY DEF Cut
<1>2. b \in Seq(Ranges) /\ n \in Nat /\ DOMAIN b = 1..n /\ r[1] \in Int /\ r[2] \in Int
      /\ \A k \in 1..n : b[k] \in Ranges
  BY DEF Normal, Ranges
<1>3. begin \in Left
  BY <1>2 DEF Left
<1> DEFINE step == [u \in Left \X (0..n) |-> IF u[2] = 0 THEN u[1] ELSE Without(r, u[1], b[u[2]])]
<1> HIDE DEF n
<1>4. PICK f \in [0..n -> Left] : IsLoop(f, 0, n, begin, step)
  <2>1. ASSUME NEW u \in Left \X (0..n)
        PROVE  (IF u[2] = 0 THEN u[1] ELSE Without(r, u[1], b[u[2]])) \in Left
    <3>1. u[1] \in Left /\ (u[2] # 0 => u[2] \in 1..n)
      BY <1>2
    <3>2. u[2] # 0 => b[u[2]] \in Ranges
      BY <1>2, <3>1
    <3> QED BY <3>1, <3>2, WithoutType
  <2>2. step \in [Left \X (0..n) -> Left]
    BY <2>1
  <2>3. 0 \in Int /\ n \in Int /\ 0 <= n
    BY <1>2
  <2> HIDE DEF step, begin
  <2> QED BY <1>3, <2>2, <2>3, Loop
<1> HIDE DEF begin
<1>5. Eq(f)
  <2>1. ASSUME NEW k \in 0..n, k # 0 PROVE f[k] = Without(r, f[k - 1], b[k])
    <3>1. k \in 0 + 1..n /\ k - 1 \in 0..n
      BY <1>2, <2>1
    <3>2. f[k - 1] \in Left
      BY <1>4, <3>1
    <3>3. f[k] = step[<<f[k - 1], k>>]
      BY <1>4, <3>1 DEF IsLoop
    <3> QED BY <2>1, <3>2, <3>3
  <2>2. f[0] = begin
    BY <1>4 DEF IsLoop
  <2> QED BY <1>4, <2>1, <2>2
<1> HIDE DEF Eq
<1>6. Eq(done)
  BY <1>5
<1> HIDE DEF done
<1>7. done[0] = begin /\ \A k \in 1..n : done[k] = Without(r, done[k - 1], b[k])
  <2>1. 0 \in 0..n /\ \A k \in 1..n : k \in 0..n /\ k # 0
    BY <1>2
  <2>2. \A k \in 0..n : done[k] = IF k = 0 THEN begin ELSE Without(r, done[k - 1], b[k])
    BY <1>6, Zenon DEF Eq
  <2> QED BY <2>1, <2>2
<1> DEFINE Inv(k) == done[k] \in Left /\ CutSoFar(r, b, k, done[k])
           T == {k \in 0..n : Inv(k)}
<1>8. Inv(0)
  <2>1. begin.cur = r[1] /\ begin.out = <<>>
    BY DEF begin
  <2>2. DOMAIN <<>> = {} /\ \A i : i \notin 1..0
    OBVIOUS
  <2>3. CutSoFar(r, b, 0, begin)
    BY <1>2, <2>1, <2>2, DenotesNothing DEF CutSoFar
  <2> QED BY <1>3, <1>7, <2>3
<1>9. ASSUME NEW k \in 0..n, k < n, Inv(k) PROVE Inv(k + 1)
  <2>1. k + 1 \in 1..n /\ (k + 1) - 1 = k /\ k \in Nat /\ k + 1 \in DOMAIN b
    BY <1>2, <1>9
  <2>2. done[k + 1] = Without(r, done[k], b[k + 1])
    BY <1>7, <2>1
  <2>3. done[k + 1] \in Left
    BY <1>2, <1>9, <2>1, <2>2, WithoutType
  <2> QED BY <1>9, <2>1, <2>2, <2>3, WithoutCuts
<1> HIDE DEF Inv
<1>10. n \in T
  <2>1. 0 \in T /\ \A k \in 0..n : k \in T /\ k < n => k + 1 \in T
    BY <1>2, <1>8, <1>9
  <2> HIDE DEF T
  <2> QED BY <1>2, <2>1, UpTo
<1>11. last \in Left /\ CutSoFar(r, b, n, last)
  BY <1>10 DEF Inv
<1> HIDE DEF last
<1>12. last.cur \in Int /\ last.out \in Seq(Ranges) /\ Normal(last.out)
  BY <1>11 DEF Left, CutSoFar
<1>13. \A m : m \in Denotes(last.out) \/ m \in last.cur..r[2] <=> m \in r[1]..r[2] /\ m \notin Denotes(b)
  <2> TAKE m
  <2>1. m \in Denotes(b) <=> \E i \in 1..n : m \in b[i][1]..b[i][2]
    BY <1>2, Denoted
  <2>2. CASE m \in Int
    BY <1>11, <2>1, <2>2 DEF CutSoFar
  <2>3. CASE m \notin Int
    <3>1. m \notin Denotes(last.out)
      <4>1. \A i \in DOMAIN last.out : last.out[i] \in Ranges
        BY <1>12
      <4>2. \A i \in DOMAIN last.out : last.out[i][1] \in Int /\ last.out[i][2] \in Int
        BY <4>1 DEF Ranges
      <4>3. \A i \in DOMAIN last.out : m \notin last.out[i][1]..last.out[i][2]
        BY <2>3, <4>2
      <4> QED BY <4>3, Denoted
    <3>2. m \notin last.cur..r[2] /\ m \notin r[1]..r[2]
      BY <1>2, <1>12, <2>3
    <3> QED BY <3>1, <3>2
  <2> QED BY <2>2, <2>3
<1>14. CASE last.cur <= r[2]
  <2> DEFINE new == <<last.cur, r[2]>>
             out == Append(last.out, new)
  <2>1. new \in Ranges /\ new[1] = last.cur /\ new[2] = r[2]
    BY <1>2, <1>12 DEF Ranges
  <2>2. Cut(r, b) = out
    BY <1>1, <1>14
  <2> HIDE DEF new
  <2>3. Normal(out)
    BY <1>11, <1>12, <1>14, <2>1, NormalAppended DEF CutSoFar
  <2>4. Denotes(out) = Denotes(last.out) \cup last.cur..r[2]
    BY <1>12, <2>1, Appended
  <2>5. \A i \in DOMAIN out : (i \in DOMAIN last.out /\ out[i] = last.out[i]) \/ out[i] = new
    BY <1>12, <2>1
  <2> HIDE DEF out
  <2>6. \A i \in DOMAIN out : r[1] <= out[i][1] /\ out[i][2] <= r[2]
    <3> TAKE i \in DOMAIN out
    <3>1. CASE i \in DOMAIN last.out /\ out[i] = last.out[i]
      BY <1>11, <3>1 DEF CutSoFar
    <3>2. CASE out[i] = new
      BY <1>2, <1>11, <2>1, <3>2 DEF CutSoFar
    <3> QED BY <2>5, <3>1, <3>2
  <2> QED BY <1>13, <2>2, <2>3, <2>4, <2>6
<1>15. CASE ~(last.cur <= r[2])
  <2>1. Cut(r, b) = last.out
    BY <1>1, <1>15
  <2>2. \A m : m \notin last.cur..r[2]
    BY <1>2, <1>12, <1>15
  <2> QED BY <1>11, <1>12, <1>13, <2>1, <2>2 DEF CutSoFar
<1> QED BY <1>14, <1>15

\* subtract: the result is in normal form and denotes what only the first list denotes.
LEMMA SubtractIs ==
    ASSUME NEW s \in Seq(Ranges), NEW t \in Seq(Ranges)
    PROVE  /\ Normal(Subtract(s, t))
           /\ Denotes(Subtract(s, t)) = Denotes(s) \ Denotes(t)
<1> DEFINE a == Merge(s)
           b == Merge(t)
           n == Len(a)
           Eq(u) == u = [k \in 0..n |-> IF k = 0 THEN <<>> ELSE u[k - 1] \o Cut(a[k], b)]
           out == CHOOSE u : Eq(u)
<1>1. Subtract(s, t) = out[n]
  BY DEF Subtract
<1>2. Normal(a) /\ Denotes(a) = Denotes(s) /\ Normal(b) /\ Denotes(b) = Denotes(t)
  BY MergeIs
<1> HIDE DEF a, b
<1>3. /\ n \in Nat /\ DOMAIN a = 1..n /\ \A k \in 1..n : a[k] \in Ranges
      /\ \A k \in 1..n : a[k][1] \in Int /\ a[k][2] \in Int /\ a[k][1] <= a[k][2]
  BY <1>2 DEF Normal, Ranges
<1> HIDE DEF n
<1> DEFINE step == [u \in Seq(Ranges) \X (0..n) |-> IF u[2] = 0 THEN u[1] ELSE u[1] \o Cut(a[u[2]], b)]
<1>4. PICK f \in [0..n -> Seq(Ranges)] : IsLoop(f, 0, n, <<>>, step)
  <2>1. ASSUME NEW u \in Seq(Ranges) \X (0..n)
        PROVE  (IF u[2] = 0 THEN u[1] ELSE u[1] \o Cut(a[u[2]], b)) \in Seq(Ranges)
    <3>1. u[1] \in Seq(Ranges) /\ (u[2] # 0 => u[2] \in 1..n)
      BY <1>3
    <3>2. u[2] # 0 => a[u[2]] \in Ranges
      BY <1>3, <3>1
    <3>3. u[2] # 0 => Cut(a[u[2]], b) \in Seq(Ranges)
      BY <1>2, <3>2, CutIs DEF Normal
    <3> QED BY <3>1, <3>3
  <2>2. step \in [Seq(Ranges) \X (0..n) -> Seq(Ranges)]
    BY <2>1
  <2>3. 0 \in Int /\ n \in Int /\ 0 <= n /\ <<>> \in Seq(Ranges)
    BY <1>3
  <2> HIDE DEF step
  <2> QED BY <2>2, <2>3, Loop
<1>5. Eq(f)
  <2>1. ASSUME NEW k \in 0..n, k # 0 PROVE f[k] = f[k - 1] \o Cut(a[k], b)
    <3>1. k \in 0 + 1..n /\ k - 1 \in 0..n
      BY <1>3, <2>1
    <3>2. f[k - 1] \in Seq(Ranges)
      BY <1>4, <3>1
    <3>3. f[k] = step[<<f[k - 1], k>>]
      BY <1>4, <3>1 DEF IsLoop
    <3> QED BY <2>1, <3>2, <3>3
  <2>2. f[0] = <<>>
    BY <1>4 DEF IsLoop
  <2> QED BY <1>4, <2>1, <2>2
<1> HIDE DEF Eq
<1>6. Eq(out)
  BY <1>5
<1> HIDE DEF out
<1>7. out[0] = <<>> /\ \A k \in 1..n : out[k] = out[k - 1] \o Cut(a[k], b)
  <2>1. 0 \in 0..n /\ \A k \in 1..n : k \in 0..n /\ k # 0
    BY <1>3
  <2>2. \A k \in 0..n : out[k] = IF k = 0 THEN <<>> ELSE out[k - 1] \o Cut(a[k], b)
    BY <1>6, Zenon DEF Eq
  <2> QED BY <2>1, <2>2
<1> DEFINE Inv(k) ==
             /\ Normal(out[k])
             /\ \A i \in DOMAIN out[k] : \A j \in 1..n : k < j => out[k][i][2] < a[j][1]
             /\ \A m : m \in Denotes(out[k])
                         <=> m \notin Denotes(b) /\ \E i \in 1..k : m \in a[i][1]..a[i][2]
           T == {k \in 0..n : Inv(k)}
<1>8. Inv(0)
  <2>1. DOMAIN <<>> = {} /\ \A i : i \notin 1..0
    OBVIOUS
  <2> QED BY <1>7, <2>1, DenotesNothing
<1>9. ASSUME NEW k \in 0..n, k < n, Inv(k) PROVE Inv(k + 1)
  <2>0. k < n
    BY <1>9
  <2>1. k + 1 \in 1..n /\ (k + 1) - 1 = k /\ k < k + 1
        /\ \A i : i \in 1..k + 1 <=> i \in 1..k \/ i = k + 1
    BY <1>3, <2>0, OneMore
  <2> DEFINE old == out[k]
             more == Cut(a[k + 1], b)
  <2>2. out[k + 1] = old \o more
    BY <1>7, <2>1
  <2>3. /\ Normal(more)
        /\ \A i \in DOMAIN more : a[k + 1][1] <= more[i][1] /\ more[i][2] <= a[k + 1][2]
        /\ \A m : m \in Denotes(more) <=> m \in a[k + 1][1]..a[k + 1][2] /\ m \notin Denotes(b)
    BY <1>2, <1>3, <2>1, CutIs
  <2> HIDE DEF more
  <2>4. /\ Normal(old) /\ old \in Seq(Ranges) /\ more \in Seq(Ranges)
        /\ \A i \in DOMAIN old : \A j \in 1..n : k < j => old[i][2] < a[j][1]
        /\ \A m : m \in Denotes(old)
                    <=> m \notin Denotes(b) /\ \E i \in 1..k : m \in a[i][1]..a[i][2]
    BY <1>9, <2>3 DEF Normal
  <2> HIDE DEF old
  <2>5. /\ \A i \in DOMAIN old : old[i][2] \in Int
        /\ \A i \in DOMAIN more : more[i][1] \in Int /\ more[i][2] \in Int
    <3>1. \A i \in DOMAIN old : old[i] \in Ranges
      BY <2>4
    <3>2. \A i \in DOMAIN more : more[i] \in Ranges
      BY <2>4
    <3> QED BY <3>1, <3>2 DEF Ranges
  <2>6. \A i \in DOMAIN old, j \in DOMAIN more : old[i][2] < more[j][1]
    <3> TAKE i \in DOMAIN old, j \in DOMAIN more
    <3>1. old[i][2] < a[k + 1][1] /\ a[k + 1][1] <= more[j][1]
      BY <2>1, <2>3, <2>4
    <3> QED BY <1>3, <2>1, <2>5, <3>1
  <2>7. /\ Normal(old \o more)
        /\ Denotes(old \o more) = Denotes(old) \cup Denotes(more)
        /\ \A i \in DOMAIN (old \o more) : \/ i \in DOMAIN old /\ (old \o more)[i] = old[i]
                                           \/ i - Len(old) \in DOMAIN more /\ (old \o more)[i] = more[i - Len(old)]
    BY <2>3, <2>4, <2>6, Joined
  <2>8. ASSUME NEW i \in DOMAIN out[k + 1], NEW j \in 1..n, k + 1 < j
        PROVE  out[k + 1][i][2] < a[j][1]
    <3>1. CASE i \in DOMAIN old /\ out[k + 1][i] = old[i]
      <4>1. k < j
        BY <1>3, <2>1, <2>8
      <4> QED BY <2>4, <3>1, <4>1
    <3>2. CASE i - Len(old) \in DOMAIN more /\ out[k + 1][i] = more[i - Len(old)]
      <4>1. a[k + 1][2] < a[j][1]
        BY <1>2, <1>3, <2>1, <2>8 DEF Normal
      <4>2. more[i - Len(old)][2] <= a[k + 1][2] /\ more[i - Len(old)][2] \in Int
        BY <2>3, <2>5, <3>2
      <4> QED BY <1>3, <2>1, <3>2, <4>1, <4>2, SMTT(30)
    <3> QED BY <2>2, <2>7, <3>1, <3>2
  <2>9. \A m : m \in Denotes(out[k + 1])
                <=> m \notin Denotes(b) /\ \E i \in 1..k + 1 : m \in a[i][1]..a[i][2]
    <3> TAKE m
    <3>1. m \in Denotes(out[k + 1]) <=> m \in Denotes(old) \/ m \in Denotes(more)
      BY <2>2, <2>7
    <3>2. (\E i \in 1..k + 1 : m \in a[i][1]..a[i][2])
            <=> (\E i \in 1..k : m \in a[i][1]..a[i][2]) \/ m \in a[k + 1][1]..a[k + 1][2]
      BY <2>1, Zenon
    <3> QED BY <2>3, <2>4, <3>1, <3>2, Zenon
  <2> QED BY <2>2, <2>7, <2>8, <2>9
<1> HIDE DEF Inv
<1>10. n \in T
  <2>1. 0 \in T /\ \A k \in 0..n : k \in T /\ k < n => k + 1 \in T
    BY <1>3, <1>8, <1>9
  <2> HIDE DEF T
  <2> QED BY <1>3, <2>1, UpTo
<1>11. /\ Normal(out[n])
       /\ \A m : m \in Denotes(out[n])
                   <=> m \notin Denotes(b) /\ \E i \in 1..n : m \in a[i][1]..a[i][2]
  BY <1>10 DEF Inv
<1>12. \A m : m \in Denotes(a) <=> \E i \in 1..n : m \in a[i][1]..a[i][2]
  BY <1>3, Denoted
<1>13. \A m : m \in Denotes(out[n]) <=> m \in Denotes(s) /\ m \notin Denotes(t)
  BY <1>2, <1>11, <1>12, Zenon
<1> QED BY <1>1, <1>11, <1>13

\* engine/ports.py computes on lists of ranges, in any order and overlapping as the objects
\* of the firewall give them, what the names of its functions say of sets of ports.
THEOREM RangesAreSets ==
    ASSUME NEW s \in Seq(Ranges), NEW t \in Seq(Ranges)
    PROVE  /\ Denotes(Merge(s)) = Denotes(s)
           /\ Denotes(Intersect(s, t)) = Denotes(s) \cap Denotes(t)
           /\ Denotes(Subtract(s, t)) = Denotes(s) \ Denotes(t)
BY MergeIs, IntersectIs, SubtractIs

(* -------------------------------- services -------------------------------- *)

\* The image of a finite set under a function is finite.
LEMMA ImageFinite ==
    ASSUME NEW S, IsFiniteSet(S), NEW f, DOMAIN f = S
    PROVE  IsFiniteSet({f[x] : x \in S})
<1> DEFINE T == {f[x] : x \in S}
           g == [x \in S |-> f[x]]
<1>1. g \in Surjection(S, T)
  BY DEF Surjection
<1> HIDE DEF T, g
<1>3. IsFiniteSet(T)
  BY <1>1, FS_Surjection
<1> QED BY <1>3 DEF T

\* A finite set as a list holds elements of the set.
LEMMA SetToSeqType ==
    ASSUME NEW S, IsFiniteSet(S)
    PROVE  SetToSeq(S) \in Seq(S)
<1>1. Cardinality(S) \in Nat
  BY FS_CardinalityType
<1>2. \E f \in [1..Cardinality(S) -> S] : IsInjective(f)
  <2>1. ExistsBijection(1..Cardinality(S), S)
    BY FS_CardinalityType
  <2>2. PICK f \in Bijection(1..Cardinality(S), S) : TRUE
    BY <2>1 DEF ExistsBijection
  <2>3. f \in [1..Cardinality(S) -> S] /\ \A x, y \in 1..Cardinality(S) : f[x] = f[y] => x = y
    BY <2>2 DEF Bijection, Injection, IsInjective
  <2>4. IsInjective(f)
    BY <2>3 DEF IsInjective
  <2> QED BY <2>3, <2>4
<1>3. SetToSeq(S) \in [1..Cardinality(S) -> S]
  BY <1>2 DEF SetToSeq
<1> QED BY <1>1, <1>3

\* Lists of ranges put behind one another make a list of ranges.
LEMMA FlattenType ==
    ASSUME NEW s \in Seq(Seq(Ranges))
    PROVE  FlattenSeq(s) \in Seq(Ranges)
<1>1. CASE Len(s) = 0
  <2>1. FlattenSeq(s) = s
    BY <1>1 DEF FlattenSeq
  <2>2. s = <<>>
    BY <1>1
  <2> QED BY <2>1, <2>2
<1>2. CASE Len(s) # 0
  <2> DEFINE n == Len(s)
             Eq(u) == u = [i \in 1..n |-> IF i = 1 THEN s[i] ELSE u[i - 1] \o s[i]]
             flatten == CHOOSE u : Eq(u)
  <2>1. FlattenSeq(s) = flatten[n]
    BY <1>2 DEF FlattenSeq
  <2>2. n \in Nat /\ 1 <= n /\ \A i \in 1..n : s[i] \in Seq(Ranges)
    BY <1>2
  <2> HIDE DEF n
  <2> DEFINE step == [u \in Seq(Ranges) \X (1..n) |-> u[1] \o s[u[2]]]
  <2>3. PICK f \in [1..n -> Seq(Ranges)] : IsLoop(f, 1, n, s[1], step)
    <3>1. ASSUME NEW u \in Seq(Ranges) \X (1..n) PROVE u[1] \o s[u[2]] \in Seq(Ranges)
      <4>1. u[1] \in Seq(Ranges) /\ s[u[2]] \in Seq(Ranges)
        BY <2>2
      <4> QED BY <4>1
    <3>2. step \in [Seq(Ranges) \X (1..n) -> Seq(Ranges)]
      BY <3>1
    <3>3. 1 \in Int /\ n \in Int /\ s[1] \in Seq(Ranges)
      BY <2>2
    <3> HIDE DEF step
    <3> QED BY <2>2, <3>2, <3>3, Loop
  <2>4. Eq(f)
    <3>1. ASSUME NEW i \in 1..n, i # 1 PROVE f[i] = f[i - 1] \o s[i]
      <4>1. i \in 1 + 1..n /\ i - 1 \in 1..n
        BY <2>2, <3>1
      <4>2. f[i - 1] \in Seq(Ranges)
        BY <2>3, <4>1
      <4>3. f[i] = step[<<f[i - 1], i>>]
        BY <2>3, <4>1 DEF IsLoop
      <4> QED BY <4>2, <4>3
    <3>2. f[1] = s[1]
      BY <2>3 DEF IsLoop
    <3> QED BY <2>3, <3>1, <3>2
  <2> HIDE DEF Eq
  <2>5. Eq(flatten)
    BY <2>4
  <2> HIDE DEF flatten
  <2>6. flatten[1] = s[1] /\ \A i \in 1..n : i # 1 => flatten[i] = flatten[i - 1] \o s[i]
    <3>1. 1 \in 1..n
      BY <2>2
    <3>2. \A i \in 1..n : flatten[i] = IF i = 1 THEN s[i] ELSE flatten[i - 1] \o s[i]
      BY <2>5, Zenon DEF Eq
    <3> QED BY <3>1, <3>2
  <2> DEFINE T == {k \in 0..n - 1 : flatten[k + 1] \in Seq(Ranges)}
  <2>7. n - 1 \in T
    <3>1. 0 \in T
      BY <2>2, <2>6
    <3>2. ASSUME NEW k \in 0..n - 1, k \in T, k < n - 1 PROVE k + 1 \in T
      <4>1. k + 2 \in 1..n /\ k + 2 # 1 /\ (k + 2) - 1 = k + 1 /\ k + 1 \in 0..n - 1 /\ (k + 1) + 1 = k + 2
        BY <2>2, <3>2
      <4>2. flatten[k + 2] = flatten[k + 1] \o s[k + 2] /\ s[k + 2] \in Seq(Ranges)
        BY <2>2, <2>6, <4>1
      <4>3. flatten[k + 1] \in Seq(Ranges)
        BY <3>2
      <4>4. flatten[k + 2] \in Seq(Ranges)
        BY <4>2, <4>3
      <4> QED BY <4>1, <4>4
    <3> HIDE DEF T
    <3>3. n - 1 \in Nat
      BY <2>2
    <3> QED BY <3>1, <3>2, <3>3, UpTo
  <2>8. flatten[n] \in Seq(Ranges)
    <3>1. (n - 1) + 1 = n
      BY <2>2
    <3>2. flatten[(n - 1) + 1] \in Seq(Ranges)
      BY <2>7
    <3> QED BY <3>1, <3>2
  <2> QED BY <2>1, <2>8
<1> QED BY <1>1, <1>2

\* The names met from a list of names on are finitely many.
LEMMA ReachedFinite ==
    ASSUME NEW names \in Seq(STRING), NEW objects, NEW group, IsFiniteSet(DOMAIN group),
           \A g \in DOMAIN group : group[g] \in Seq(STRING)
    PROVE  IsFiniteSet(Reached(names, objects, group))
<1> DEFINE n == Cardinality(DOMAIN group)
           Opened(seen) == seen \cup UNION {ToSet(group[g]) : g \in (seen \cap DOMAIN group) \ objects}
           Eq(u) == u = [k \in 0..n |-> IF k = 0 THEN ToSet(names)
                                        ELSE LET seen == u[k - 1] IN
                       seen \cup UNION {ToSet(group[g]) : g \in (seen \cap DOMAIN group) \ objects}]
           met == CHOOSE u : Eq(u)
<1>1. Reached(names, objects, group) = met[n]
  BY DEF Reached
<1>2. n \in Nat
  BY FS_CardinalityType
<1> HIDE DEF n
<1> DEFINE S == {u \in SUBSET STRING : IsFiniteSet(u)}
<1>3. ASSUME NEW u \in S PROVE Opened(u) \in S
  <2> DEFINE G == (u \cap DOMAIN group) \ objects
             fn == [g \in G |-> ToSet(group[g])]
  <2>1. IsFiniteSet(G)
    BY FS_Subset
  <2>2. {ToSet(group[g]) : g \in G} = {fn[g] : g \in G}
    OBVIOUS
  <2>3. IsFiniteSet({fn[g] : g \in G})
    <3> HIDE DEF G
    <3>1. DOMAIN fn = G
      OBVIOUS
    <3> HIDE DEF fn
    <3> QED BY <2>1, <3>1, ImageFinite
  <2>4. \A t \in {ToSet(group[g]) : g \in G} : IsFiniteSet(t) /\ t \subseteq STRING
    <3>1. \A g \in G : group[g] \in Seq(STRING)
      OBVIOUS
    <3>2. \A g \in G : IsFiniteSet(ToSet(group[g])) /\ ToSet(group[g]) \subseteq STRING
      BY <3>1, Elements
    <3> HIDE DEF G
    <3> QED BY <3>2
  <2> DEFINE W == {ToSet(group[g]) : g \in G}
  <2>5. IsFiniteSet(W) /\ \A t \in W : IsFiniteSet(t) /\ t \subseteq STRING
    BY <2>2, <2>3, <2>4
  <2>6. Opened(u) = u \cup UNION W
    OBVIOUS
  <2> HIDE DEF W
  <2>7. IsFiniteSet(UNION W) /\ UNION W \subseteq STRING
    BY <2>5, FS_UNION
  <2> HIDE DEF Opened
  <2>8. u \subseteq STRING /\ IsFiniteSet(u)
    OBVIOUS
  <2>9. IsFiniteSet(u \cup UNION W)
    BY <2>7, <2>8, FS_Union
  <2> QED BY <2>6, <2>7, <2>8, <2>9
<1>4. ToSet(names) \in S
  BY Elements
<1> DEFINE step == [u \in S \X (0..n) |-> Opened(u[1])]
<1>5. PICK f \in [0..n -> S] : IsLoop(f, 0, n, ToSet(names), step)
  <2> HIDE DEF Opened, S
  <2>1. step \in [S \X (0..n) -> S]
    BY <1>3
  <2>2. 0 \in Int /\ n \in Int /\ 0 <= n
    BY <1>2
  <2> HIDE DEF step
  <2> QED BY <1>4, <2>1, <2>2, Loop
<1>6. Eq(f)
  <2>1. ASSUME NEW k \in 0..n, k # 0 PROVE f[k] = Opened(f[k - 1])
    <3> HIDE DEF S, Opened
    <3>1. k \in 0 + 1..n /\ k - 1 \in 0..n
      BY <1>2, <2>1
    <3>2. f[k - 1] \in S
      BY <1>5, <3>1
    <3>3. f[k] = step[<<f[k - 1], k>>]
      BY <1>5, <3>1 DEF IsLoop
    <3> QED BY <3>1, <3>2, <3>3
  <2>2. f[0] = ToSet(names)
    BY <1>5 DEF IsLoop
  <2> QED BY <1>5, <2>1, <2>2
<1> HIDE DEF Eq
<1>7. Eq(met)
  BY <1>6
<1> HIDE DEF met
<1>8. met[0] = ToSet(names) /\ \A k \in 1..n : met[k] = Opened(met[k - 1])
  <2>1. 0 \in 0..n /\ \A k \in 1..n : k \in 0..n /\ k # 0
    BY <1>2
  <2>2. \A k \in 0..n : met[k] = IF k = 0 THEN ToSet(names) ELSE Opened(met[k - 1])
    BY <1>7, Zenon DEF Eq
  <2> HIDE DEF Opened
  <2> QED BY <2>1, <2>2
<1> HIDE DEF Opened, S
<1> DEFINE T == {k \in 0..n : met[k] \in S}
<1>9. n \in T
  <2>1. 0 \in T
    BY <1>2, <1>4, <1>8
  <2>2. ASSUME NEW k \in 0..n, k \in T, k < n PROVE k + 1 \in T
    <3>1. k + 1 \in 1..n /\ (k + 1) - 1 = k /\ k + 1 \in 0..n
      BY <1>2, <2>2
    <3> QED BY <1>3, <1>8, <2>2, <3>1
  <2> HIDE DEF T
  <2> QED BY <1>2, <2>1, <2>2, UpTo
<1> QED BY <1>1, <1>9 DEF S

\* The ranges of a service are pairs of whole numbers, whatever groups it is made of.
LEMMA ServiceType ==
    ASSUME NEW names \in Seq(STRING), NEW q \in Proto
    PROVE  ServiceIntervals(names)[q] \in Seq(Ranges)
<1> DEFINE reached == Reached(names, DOMAIN SvcPorts, SvcGroup)
           fn == [n \in reached |-> RangesOf(n, q)]
           W == {RangesOf(n, q) : n \in reached}
<1>1. IsFiniteSet(reached)
  BY ServiceAssumption, ReachedFinite
<1>2. \A n : RangesOf(n, q) \in Seq(Ranges)
  <2> TAKE n
  <2>1. <<1, MaxPort>> \in Ranges
    BY PortAssumption DEF Ranges
  <2>2. Full \in Seq(Ranges) /\ <<>> \in Seq(Ranges)
    BY <2>1 DEF Full
  <2>3. n \in DOMAIN SvcPorts => SvcPorts[n][q] \in Seq(Ranges)
    BY ServiceAssumption DEF Ranges
  <2> QED BY <2>2, <2>3 DEF RangesOf
<1>3. ServiceIntervals(names)[q] = FlattenSeq(SetToSeq(W))
  BY DEF ServiceIntervals
<1> HIDE DEF reached
<1>4. W = {fn[n] : n \in reached} /\ DOMAIN fn = reached
  OBVIOUS
<1>5. W \subseteq Seq(Ranges)
  BY <1>2
<1> HIDE DEF W, fn
<1>6. IsFiniteSet(W)
  BY <1>1, <1>4, ImageFinite
<1>7. SetToSeq(W) \in Seq(Seq(Ranges))
  BY <1>5, <1>6, SetToSeqType
<1> QED BY <1>3, <1>7, FlattenType

(* --------------------------- policies and zones --------------------------- *)

\* A list holds, in their order, the elements of ps at the positions of S up to n.
Holds(t, ps, S, n) ==
    \E g \in [1..Len(t) -> S \cap (1..n)] :
        /\ \A k \in 1..Len(t) : t[k] = ps[g[k]]
        /\ \A j, k \in 1..Len(t) : j < k => g[j] < g[k]
        /\ \A x \in S \cap (1..n) : \E k \in 1..Len(t) : g[k] = x

\* The empty list holds what lies at no position.
LEMMA HoldsNothing ==
    ASSUME NEW ps, NEW S
    PROVE  Holds(<<>>, ps, S, 0)
<1>1. Len(<<>>) = 0 /\ \A k : k \notin 1..0
  OBVIOUS
<1>2. S \cap (1..0) = {} /\ 1..0 = {}
  BY <1>1
<1>3. \E g : g \in [1..0 -> S \cap (1..0)]
  <2>1. [k \in {} |-> k] \in [{} -> {}]
    OBVIOUS
  <2> QED BY <1>2, <2>1
<1> QED BY <1>1, <1>2, <1>3 DEF Holds

\* One position more: its element is appended if S has it.
LEMMA HoldsMore ==
    ASSUME NEW U, NEW ps \in Seq(U), NEW S, NEW t \in Seq(U), NEW n \in Nat, n + 1 \in DOMAIN ps,
           Holds(t, ps, S, n)
    PROVE  /\ n + 1 \in S => Holds(Append(t, ps[n + 1]), ps, S, n + 1)
           /\ n + 1 \notin S => Holds(t, ps, S, n + 1)
<1>1. PICK g \in [1..Len(t) -> S \cap (1..n)] :
         /\ \A k \in 1..Len(t) : t[k] = ps[g[k]]
         /\ \A j, k \in 1..Len(t) : j < k => g[j] < g[k]
         /\ \A x \in S \cap (1..n) : \E k \in 1..Len(t) : g[k] = x
  BY DEF Holds
<1>2. Len(t) \in Nat /\ \A x : x \in 1..n + 1 <=> x \in 1..n \/ x = n + 1
  OBVIOUS
<1>3. ASSUME n + 1 \notin S PROVE Holds(t, ps, S, n + 1)
  <2>1. S \cap (1..n + 1) = S \cap (1..n)
    BY <1>2, <1>3
  <2> QED BY <1>1, <2>1 DEF Holds
<1>4. ASSUME n + 1 \in S PROVE Holds(Append(t, ps[n + 1]), ps, S, n + 1)
  <2> DEFINE u == Append(t, ps[n + 1])
             m == Len(t)
             h == [k \in 1..m + 1 |-> IF k = m + 1 THEN n + 1 ELSE g[k]]
  <2>1. Len(u) = m + 1 /\ u[m + 1] = ps[n + 1] /\ \A k \in 1..m : u[k] = t[k]
    OBVIOUS
  <2>2. \A k : k \in 1..m + 1 <=> k \in 1..m \/ k = m + 1
    BY <1>2
  <2>3. \A k \in 1..m : k # m + 1 /\ k \in 1..m + 1
    BY <1>2
  <2>4. h[m + 1] = n + 1 /\ \A k \in 1..m : h[k] = g[k]
    BY <2>2, <2>3
  <2> HIDE DEF u, m
  <2>5. h \in [1..m + 1 -> S \cap (1..n + 1)]
    <3>1. ASSUME NEW k \in 1..m + 1 PROVE h[k] \in S \cap (1..n + 1)
      <4>1. CASE k = m + 1
        BY <1>2, <1>4, <2>4, <4>1
      <4>2. CASE k \in 1..m
        <5>1. g[k] \in S \cap (1..n)
          BY <1>1, <4>2 DEF m
        <5> QED BY <1>2, <2>4, <4>2, <5>1
      <4> QED BY <2>2, <4>1, <4>2
    <3> QED BY <3>1
  <2> HIDE DEF h
  <2>6. \A k \in 1..m + 1 : u[k] = ps[h[k]]
    BY <1>1, <2>1, <2>2, <2>4 DEF m
  <2>7. ASSUME NEW j \in 1..m + 1, NEW k \in 1..m + 1, j < k PROVE h[j] < h[k]
    <3>1. j \in 1..m
      BY <1>2, <2>7 DEF m
    <3>2. CASE k = m + 1
      <4>1. g[j] \in 1..n
        BY <1>1, <3>1 DEF m
      <4> QED BY <2>4, <3>1, <3>2, <4>1
    <3>3. CASE k \in 1..m
      BY <1>1, <2>4, <2>7, <3>1, <3>3 DEF m
    <3> QED BY <2>2, <3>2, <3>3
  <2>8. ASSUME NEW x \in S \cap (1..n + 1) PROVE \E k \in 1..m + 1 : h[k] = x
    <3>1. CASE x = n + 1
      BY <2>2, <2>4, <3>1
    <3>2. CASE x \in 1..n
      <4>1. PICK k \in 1..m : g[k] = x
        BY <1>1, <3>2 DEF m
      <4> QED BY <2>2, <2>4, <4>1
    <3> QED BY <1>2, <3>1, <3>2
  <2>9. Holds(u, ps, S, n + 1)
    <3>1. Len(u) = m + 1
      BY <2>1
    <3>2. h \in [1..Len(u) -> S \cap (1..n + 1)]
      BY <2>5, <3>1
    <3>3. \A k \in 1..Len(u) : u[k] = ps[h[k]]
      BY <2>6, <3>1
    <3>4. \A j, k \in 1..Len(u) : j < k => h[j] < h[k]
      BY <2>7, <3>1
    <3>5. \A x \in S \cap (1..n + 1) : \E k \in 1..Len(u) : h[k] = x
      BY <2>8, <3>1
    <3> QED BY <3>2, <3>3, <3>4, <3>5, Zenon DEF Holds
  <2> QED BY <2>9 DEF u
<1> QED BY <1>3, <1>4

\* Selected keeps the elements at the given positions, and their order.
LEMMA SelectedIs ==
    ASSUME NEW U, NEW ps \in Seq(U), NEW S
    PROVE  Selected(ps, S) \in Seq(U) /\ Holds(Selected(ps, S), ps, S, Len(ps))
<1> DEFINE n == Len(ps)
           Eq(u) == u = [i \in 0..n |->
                          IF i = 0 THEN <<>>
                          ELSE IF i \in S THEN Append(u[i - 1], ps[i]) ELSE u[i - 1]]
           kept == CHOOSE u : Eq(u)
<1>1. Selected(ps, S) = kept[n]
  BY DEF Selected
<1>2. n \in Nat /\ DOMAIN ps = 1..n /\ \A i \in 1..n : ps[i] \in U
  OBVIOUS
<1> HIDE DEF n
<1> DEFINE step == [u \in Seq(U) \X (0..n) |->
                      IF u[2] # 0 /\ u[2] \in S THEN Append(u[1], ps[u[2]]) ELSE u[1]]
<1>3. PICK f \in [0..n -> Seq(U)] : IsLoop(f, 0, n, <<>>, step)
  <2>1. ASSUME NEW u \in Seq(U) \X (0..n)
        PROVE  (IF u[2] # 0 /\ u[2] \in S THEN Append(u[1], ps[u[2]]) ELSE u[1]) \in Seq(U)
    <3>1. u[1] \in Seq(U) /\ (u[2] # 0 => u[2] \in 1..n)
      BY <1>2
    <3>2. u[2] # 0 => ps[u[2]] \in U
      BY <1>2, <3>1
    <3> QED BY <3>1, <3>2
  <2>2. step \in [Seq(U) \X (0..n) -> Seq(U)]
    BY <2>1
  <2>3. 0 \in Int /\ n \in Int /\ 0 <= n /\ <<>> \in Seq(U)
    BY <1>2
  <2> HIDE DEF step
  <2> QED BY <2>2, <2>3, Loop
<1>4. Eq(f)
  <2>1. ASSUME NEW i \in 0..n, i # 0
        PROVE  f[i] = IF i \in S THEN Append(f[i - 1], ps[i]) ELSE f[i - 1]
    <3>1. i \in 0 + 1..n /\ i - 1 \in 0..n
      BY <1>2, <2>1
    <3>2. f[i - 1] \in Seq(U)
      BY <1>3, <3>1
    <3>3. f[i] = step[<<f[i - 1], i>>]
      BY <1>3, <3>1 DEF IsLoop
    <3> QED BY <2>1, <3>2, <3>3
  <2>2. f[0] = <<>>
    BY <1>3 DEF IsLoop
  <2> QED BY <1>3, <2>1, <2>2
<1> HIDE DEF Eq
<1>5. Eq(kept)
  BY <1>4
<1> HIDE DEF kept
<1>6. kept[0] = <<>> /\ \A i \in 1..n : kept[i] = IF i \in S THEN Append(kept[i - 1], ps[i]) ELSE kept[i - 1]
  <2>1. 0 \in 0..n /\ \A i \in 1..n : i \in 0..n /\ i # 0
    BY <1>2
  <2>2. \A i \in 0..n : kept[i] = IF i = 0 THEN <<>>
                                  ELSE IF i \in S THEN Append(kept[i - 1], ps[i]) ELSE kept[i - 1]
    BY <1>5, Zenon DEF Eq
  <2> QED BY <2>1, <2>2
<1> DEFINE Inv(i) == kept[i] \in Seq(U) /\ Holds(kept[i], ps, S, i)
           T == {i \in 0..n : Inv(i)}
<1>7. Inv(0)
  BY <1>6, HoldsNothing
<1>8. ASSUME NEW i \in 0..n, i < n, Inv(i) PROVE Inv(i + 1)
  <2>1. i + 1 \in 1..n /\ (i + 1) - 1 = i /\ i \in Nat /\ i + 1 \in DOMAIN ps
    BY <1>2, <1>8
  <2>2. kept[i + 1] = IF i + 1 \in S THEN Append(kept[i], ps[i + 1]) ELSE kept[i]
    BY <1>6, <2>1
  <2>3. kept[i + 1] \in Seq(U)
    BY <1>2, <1>8, <2>1, <2>2
  <2>4. Holds(kept[i + 1], ps, S, i + 1)
    BY <1>8, <2>1, <2>2, HoldsMore
  <2> QED BY <2>3, <2>4
<1> HIDE DEF Inv
<1>9. n \in T
  <2>1. 0 \in T /\ \A i \in 0..n : i \in T /\ i < n => i + 1 \in T
    BY <1>2, <1>7, <1>8
  <2> HIDE DEF T
  <2> QED BY <1>2, <2>1, UpTo
<1>10. Inv(n)
  BY <1>9
<1> QED BY <1>1, <1>10 DEF Inv, n

\* A set of zones lags another: the same mappings, and no device zone with more members.
Lags(z, w) ==
    /\ z.local = w.local
    /\ DOMAIN z.device \subseteq DOMAIN w.device
    /\ \A n \in DOMAIN z.device : z.device[n] \subseteq w.device[n]

\* More zones and more names give more names.
LEMMA MoreNamesGrow ==
    ASSUME NEW z, NEW w, Lags(z, w), NEW names, NEW larger, names \subseteq larger
    PROVE  MoreNames(z, names) \subseteq MoreNames(w, larger) /\ larger \subseteq MoreNames(w, larger)
BY DEF MoreNames, Mapped, Lags

\* The names an interface has with the inventory's zones, round by round.
IsRounds(f, z, intf, n) == f[0] = {intf} /\ \A k \in 1..n : f[k] = MoreNames(z, f[k - 1])

\* The rounds exist, for as many as one likes.
LEMMA RoundsExist ==
    ASSUME NEW z, NEW intf, NEW n \in Nat
    PROVE  \E S : \E f \in [0..n -> S] : IsRounds(f, z, intf, n)
<1> DEFINE U == {intf} \cup DOMAIN z.device \cup DOMAIN z.local \cup DOMAIN DefaultMap
           S == SUBSET U
           step == [u \in S \X (0..n) |-> MoreNames(z, u[1])]
<1>1. \A u \in S : MoreNames(z, u) \in S
  BY DEF MoreNames, Mapped
<1>2. {intf} \in S
  OBVIOUS
<1> HIDE DEF S
<1>3. PICK f \in [0..n -> S] : IsLoop(f, 0, n, {intf}, step)
  <2>1. step \in [S \X (0..n) -> S]
    BY <1>1
  <2>2. 0 \in Int /\ n \in Int /\ 0 <= n
    OBVIOUS
  <2> HIDE DEF step
  <2> QED BY <1>2, <2>1, <2>2, Loop
<1>4. ASSUME NEW k \in 0..n, k # 0 PROVE f[k] = MoreNames(z, f[k - 1])
  <2>1. k \in 0 + 1..n /\ k - 1 \in 0..n
    BY <1>4
  <2>2. f[k - 1] \in S
    BY <1>3, <2>1
  <2>3. f[k] = step[<<f[k - 1], k>>]
    BY <1>3, <2>1 DEF IsLoop
  <2> QED BY <1>4, <2>2, <2>3
<1>5. f[0] = {intf}
  BY <1>3 DEF IsLoop
<1>7. \A k \in 1..n : k \in 0..n /\ k # 0
  OBVIOUS
<1>8. IsRounds(f, z, intf, n)
  BY <1>4, <1>5, <1>7 DEF IsRounds
<1> QED BY <1>3, <1>8

\* Zones are looked up for as many rounds as there are names to find.
RoundsOf(z) ==
    Cardinality(DOMAIN z.device) + Cardinality(DOMAIN z.local) + Cardinality(DOMAIN DefaultMap)

\* zones_of is the last of its rounds.
LEMMA ZonesOfIs ==
    ASSUME NEW z, NEW intf, RoundsOf(z) \in Nat
    PROVE  \E f : IsRounds(f, z, intf, RoundsOf(z)) /\ ZonesOf(z, intf) = f[RoundsOf(z)]
<1> DEFINE n == RoundsOf(z)
           Eq(u) == u = [k \in 0..n |-> IF k = 0 THEN {intf} ELSE MoreNames(z, u[k - 1])]
           f == CHOOSE u : Eq(u)
<1>1. ZonesOf(z, intf) = f[n]
  BY DEF ZonesOf, RoundsOf
<1> HIDE DEF n
<1>2. n \in Nat
  BY DEF n
<1>3. \E u : Eq(u)
  <2>0. PICK S : \E g \in [0..n -> S] : IsRounds(g, z, intf, n)
    BY <1>2, RoundsExist
  <2>1. PICK g \in [0..n -> S] : IsRounds(g, z, intf, n)
    BY <2>0
  <2>2. \A k \in 0..n : k # 0 => k \in 1..n
    BY <1>2
  <2>3. \A k \in 0..n : g[k] = IF k = 0 THEN {intf} ELSE MoreNames(z, g[k - 1])
    BY <2>1, <2>2 DEF IsRounds
  <2>4. Eq(g)
    BY <2>1, <2>3
  <2> QED BY <2>4
<1> HIDE DEF Eq
<1>4. Eq(f)
  BY <1>3
<1> HIDE DEF f
<1>5. \A k \in 0..n : f[k] = IF k = 0 THEN {intf} ELSE MoreNames(z, f[k - 1])
  BY <1>4, Zenon DEF Eq
<1>6. 0 \in 0..n /\ \A k \in 1..n : k \in 0..n /\ k # 0
  BY <1>2
<1>7. IsRounds(f, z, intf, n)
  BY <1>5, <1>6 DEF IsRounds
<1> QED BY <1>1, <1>7 DEF n

\* With zones missing an interface has no name it does not have with all of them.
LEMMA ZonesOfGrow ==
    ASSUME NEW z, NEW w, NEW intf, Lags(z, w),
           IsFiniteSet(DOMAIN w.device), IsFiniteSet(DOMAIN w.local)
    PROVE  ZonesOf(z, intf) \subseteq ZonesOf(w, intf)
<1> DEFINE n == RoundsOf(z)
           m == RoundsOf(w)
<1>1. n \in Nat /\ m \in Nat /\ n <= m
  <2>1. Cardinality(DOMAIN w.device) \in Nat /\ Cardinality(DOMAIN w.local) \in Nat
        /\ Cardinality(DOMAIN DefaultMap) \in Nat
    BY ServiceAssumption, FS_CardinalityType
  <2>2. IsFiniteSet(DOMAIN z.device) /\ Cardinality(DOMAIN z.device) <= Cardinality(DOMAIN w.device)
    BY FS_Subset DEF Lags
  <2>3. Cardinality(DOMAIN z.device) \in Nat
    BY <2>2, FS_CardinalityType
  <2>4. Cardinality(DOMAIN z.local) = Cardinality(DOMAIN w.local)
    BY DEF Lags
  <2> QED BY <2>1, <2>2, <2>3, <2>4 DEF RoundsOf
<1>2. PICK f : IsRounds(f, z, intf, n) /\ ZonesOf(z, intf) = f[n]
  BY <1>1, ZonesOfIs
<1>3. PICK g : IsRounds(g, w, intf, m) /\ ZonesOf(w, intf) = g[m]
  BY <1>1, ZonesOfIs
<1> HIDE DEF n, m
<1> DEFINE A == {k \in 0..n : f[k] \subseteq g[k]}
           B == {k \in 0..m - n : f[n] \subseteq g[n + k]}
<1>4. n \in A
  <2>1. 0 \in A
    BY <1>1, <1>2, <1>3 DEF IsRounds
  <2>2. ASSUME NEW k \in 0..n, k \in A, k < n PROVE k + 1 \in A
    <3>1. k + 1 \in 0..n /\ k + 1 \in 1..n /\ k + 1 \in 1..m /\ (k + 1) - 1 = k
      BY <1>1, <2>2
    <3>2. f[k + 1] = MoreNames(z, f[k]) /\ g[k + 1] = MoreNames(w, g[k])
      BY <1>2, <1>3, <3>1 DEF IsRounds
    <3>3. f[k] \subseteq g[k]
      BY <2>2
    <3>4. MoreNames(z, f[k]) \subseteq MoreNames(w, g[k])
      BY <3>3, MoreNamesGrow
    <3> QED BY <3>1, <3>2, <3>4
  <2> HIDE DEF A
  <2> QED BY <1>1, <2>1, <2>2, UpTo
<1>5. m - n \in B
  <2>1. 0 \in B
    <3>1. 0 \in 0..m - n /\ n + 0 = n
      BY <1>1
    <3> QED BY <1>4, <3>1
  <2>2. ASSUME NEW k \in 0..m - n, k \in B, k < m - n PROVE k + 1 \in B
    <3>1. k + 1 \in 0..m - n /\ n + (k + 1) \in 1..m /\ (n + (k + 1)) - 1 = n + k
      BY <1>1, <2>2
    <3>2. g[n + (k + 1)] = MoreNames(w, g[n + k])
      BY <1>3, <3>1 DEF IsRounds
    <3>3. f[n] \subseteq g[n + k]
      BY <2>2
    <3>4. g[n + k] \subseteq MoreNames(w, g[n + k])
      <4>1. Lags(w, w)
        BY DEF Lags
      <4> QED BY <4>1, MoreNamesGrow
    <3> QED BY <3>1, <3>2, <3>3, <3>4
  <2>3. m - n \in Nat
    BY <1>1
  <2> HIDE DEF B
  <2> QED BY <2>1, <2>2, <2>3, UpTo
<1>6. n + (m - n) = m
  BY <1>1
<1>7. f[n] \subseteq g[n + (m - n)]
  BY <1>5
<1> QED BY <1>2, <1>3, <1>6, <1>7

(* -------------------------------- combine --------------------------------- *)

Lists == [Proto -> Seq(Ranges)]
Limits == Seq([range : Ranges, hop : Nat])

\* No number is listed more than once, each at the first hop up to i that lacks it, and
\* none that all of them have.
ListedOnce(limits, q, hops, i) ==
    \A n \in 1..MaxPort :
        LET stops == {j \in 1..i : n \notin Denotes(hops[j][q])}
            listed == {k \in DOMAIN limits : n \in limits[k].range[1]..limits[k].range[2]}
        IN IF stops = {} THEN listed = {}
           ELSE \E k \in listed : /\ listed = {k} /\ limits[k].hop \in stops
                                  /\ \A j \in stops : limits[k].hop <= j

\* Open after i hops is what every one of them has.
OpenTo(ports, q, hops, i) ==
    \A n : n \in Denotes(ports) <=> n \in 1..MaxPort /\ \A j \in 1..i : n \in Denotes(hops[j][q])

\* The ranges stopped at a hop are a list of limits.
LEMMA StoppedType ==
    ASSUME NEW ranges \in Seq(Ranges), NEW i \in Nat
    PROVE  /\ Stopped(ranges, i) \in Limits /\ DOMAIN Stopped(ranges, i) = DOMAIN ranges
           /\ Len(Stopped(ranges, i)) = Len(ranges)
           /\ \A k \in DOMAIN ranges : Stopped(ranges, i)[k].range = ranges[k]
                                       /\ Stopped(ranges, i)[k].hop = i
<1>1. DOMAIN ranges = 1..Len(ranges) /\ Len(ranges) \in Nat
      /\ \A k \in 1..Len(ranges) : ranges[k] \in Ranges
  OBVIOUS
<1> DEFINE s == [k \in 1..Len(ranges) |-> [range |-> ranges[k], hop |-> i]]
           R == [range : Ranges, hop : Nat]
<1>2. Stopped(ranges, i) = s
  BY <1>1 DEF Stopped
<1>3. \A k \in 1..Len(ranges) : [range |-> ranges[k], hop |-> i] \in R
  BY <1>1
<1>4. \A k \in 1..Len(ranges) : s[k].range = ranges[k] /\ s[k].hop = i
  OBVIOUS
<1>5. s \in [1..Len(ranges) -> R]
  <2> HIDE DEF R
  <2> QED BY <1>3
<1> HIDE DEF s, R
<1>6. s \in Seq(R) /\ Len(s) = Len(ranges) /\ DOMAIN s = 1..Len(ranges)
  BY <1>1, <1>5
<1> QED BY <1>1, <1>2, <1>4, <1>6 DEF Limits, R

\* One more hop: what it lacks of the open ports is listed there, once.
LEMMA PassOne ==
    ASSUME NEW q \in Proto, NEW hops, NEW i \in Nat, NEW ports \in Seq(Ranges), NEW limits \in Limits,
           hops[i + 1][q] \in Seq(Ranges), OpenTo(ports, q, hops, i), ListedOnce(limits, q, hops, i)
    PROVE  /\ OpenTo(Intersect(ports, hops[i + 1][q]), q, hops, i + 1)
           /\ limits \o Stopped(Dropped(ports, hops[i + 1][q]), i + 1) \in Limits
           /\ ListedOnce(limits \o Stopped(Dropped(ports, hops[i + 1][q]), i + 1), q, hops, i + 1)
<1> DEFINE hop == hops[i + 1][q]
           dropped == Dropped(ports, hop)
           more == Stopped(dropped, i + 1)
           all == limits \o more
<1>1. \A j : j \in 1..i + 1 <=> j \in 1..i \/ j = i + 1
  OBVIOUS
<1>2. Denotes(Intersect(ports, hop)) = Denotes(ports) \cap Denotes(hop)
  BY IntersectIs
<1>3. Normal(dropped) /\ Denotes(dropped) = Denotes(ports) \ Denotes(hop) /\ dropped \in Seq(Ranges)
  BY SubtractIs DEF Dropped, Normal
<1>4. OpenTo(Intersect(ports, hop), q, hops, i + 1)
  BY <1>1, <1>2, Zenon DEF OpenTo, hop
<1> HIDE DEF dropped
<1>5. /\ more \in Limits /\ DOMAIN more = DOMAIN dropped /\ Len(more) = Len(dropped)
      /\ \A k \in DOMAIN dropped : more[k].range = dropped[k] /\ more[k].hop = i + 1
  BY <1>3, StoppedType
<1> HIDE DEF more
<1>6. all \in Limits
  <2>1. \A R : limits \in Seq(R) /\ more \in Seq(R) => limits \o more \in Seq(R)
    OBVIOUS
  <2> QED BY <1>5, <2>1 DEF Limits
<1>7. /\ Len(limits) \in Nat /\ DOMAIN limits = 1..Len(limits)
      /\ DOMAIN more = 1..Len(more) /\ Len(more) \in Nat
      /\ DOMAIN all = 1..Len(limits) + Len(more)
      /\ \A k \in 1..Len(limits) : all[k] = limits[k]
      /\ \A k \in 1..Len(more) : all[Len(limits) + k] = more[k]
  <2>1. ASSUME NEW R, limits \in Seq(R), more \in Seq(R) PROVE 
               /\ Len(limits) \in Nat /\ DOMAIN limits = 1..Len(limits)
               /\ DOMAIN more = 1..Len(more) /\ Len(more) \in Nat
               /\ DOMAIN all = 1..Len(limits) + Len(more)
               /\ \A k \in 1..Len(limits) : all[k] = limits[k]
               /\ \A k \in 1..Len(more) : all[Len(limits) + k] = more[k]
    BY <2>1
  <2> QED BY <1>5, <2>1 DEF Limits
<1>8. \A k \in DOMAIN limits : k \in DOMAIN all /\ all[k] = limits[k]
  BY <1>7
<1>9. \A k \in DOMAIN dropped : Len(limits) + k \in DOMAIN all /\ all[Len(limits) + k] = more[k]
  BY <1>5, <1>7, SMTT(60)
<1>10. \A k \in DOMAIN all : k \in DOMAIN limits \/ \E l \in DOMAIN dropped : k = Len(limits) + l
  <2> TAKE k \in DOMAIN all
  <2>1. k \in 1..Len(limits) \/ k - Len(limits) \in 1..Len(more)
    BY <1>7
  <2>2. k = Len(limits) + (k - Len(limits))
    BY <1>7
  <2> QED BY <1>5, <1>7, <2>1, <2>2
<1> HIDE DEF all
<1> DEFINE Stops(n, m) == {j \in 1..m : n \notin Denotes(hops[j][q])}
           Listed(l, n) == {k \in DOMAIN l : n \in l[k].range[1]..l[k].range[2]}
<1>11. ASSUME NEW n \in 1..MaxPort
       PROVE  IF Stops(n, i + 1) = {} THEN Listed(all, n) = {}
              ELSE \E k \in Listed(all, n) : /\ Listed(all, n) = {k} /\ all[k].hop \in Stops(n, i + 1)
                                             /\ \A j \in Stops(n, i + 1) : all[k].hop <= j
  <2>1. n \in Denotes(ports) <=> Stops(n, i) = {}
    BY DEF OpenTo
  <2>2. n \in Denotes(dropped) <=> \E l \in DOMAIN dropped : n \in dropped[l][1]..dropped[l][2]
    BY Denoted
  <2>3. \A k \in DOMAIN limits : k \in Listed(all, n) <=> k \in Listed(limits, n)
    BY <1>8
  <2>4. \A l \in DOMAIN dropped : Len(limits) + l \in Listed(all, n) <=> n \in dropped[l][1]..dropped[l][2]
    BY <1>5, <1>9
  <2>5. IF Stops(n, i) = {} THEN Listed(limits, n) = {}
        ELSE \E k \in Listed(limits, n) : /\ Listed(limits, n) = {k} /\ limits[k].hop \in Stops(n, i)
                                          /\ \A j \in Stops(n, i) : limits[k].hop <= j
    BY DEF ListedOnce
  <2>6. \A j : j \in Stops(n, i + 1) <=> j \in Stops(n, i) \/ (j = i + 1 /\ n \notin Denotes(hop))
    BY <1>1 DEF hop
  <2>7. Listed(all, n) \subseteq DOMAIN all /\ Listed(limits, n) \subseteq DOMAIN limits
    OBVIOUS
  <2>8. \A j \in Stops(n, i) : j \in 1..i
    OBVIOUS
  <2> HIDE DEF Stops, Listed, hop
  <2>9. CASE Stops(n, i) # {}
    <3>1. PICK k \in Listed(limits, n) : /\ Listed(limits, n) = {k} /\ limits[k].hop \in Stops(n, i)
                                         /\ \A j \in Stops(n, i) : limits[k].hop <= j
      BY <2>5, <2>9
    <3>2. k \in DOMAIN limits /\ k \in Listed(all, n) /\ all[k] = limits[k]
      BY <1>8, <2>3, <2>7, <3>1
    <3>3. \A l \in DOMAIN dropped : Len(limits) + l \notin Listed(all, n)
      BY <1>3, <2>1, <2>2, <2>4, <2>9
    <3>4. Listed(all, n) = {k}
      BY <1>10, <2>3, <2>7, <3>1, <3>2, <3>3
    <3>5. all[k].hop \in Stops(n, i + 1) /\ \A j \in Stops(n, i + 1) : all[k].hop <= j
      <4>1. all[k].hop \in 1..i
        BY <2>8, <3>1, <3>2
      <4>2. all[k].hop <= i + 1
        BY <4>1
      <4> QED BY <2>6, <3>1, <3>2, <4>2
    <3> QED BY <3>2, <3>4, <3>5
  <2>10. CASE Stops(n, i) = {} /\ n \in Denotes(hop)
    <3>1. Listed(limits, n) = {} /\ n \notin Denotes(dropped)
      BY <1>3, <2>5, <2>10
    <3>2. Listed(all, n) = {}
      BY <1>10, <2>2, <2>3, <2>4, <2>7, <3>1
    <3>3. Stops(n, i + 1) = {}
      BY <2>6, <2>10
    <3> QED BY <3>2, <3>3
  <2>11. CASE Stops(n, i) = {} /\ n \notin Denotes(hop)
    <3>1. Listed(limits, n) = {} /\ n \in Denotes(dropped)
      BY <1>3, <2>1, <2>5, <2>11
    <3>2. PICK l \in DOMAIN dropped : n \in dropped[l][1]..dropped[l][2]
      BY <2>2, <3>1
    <3>3. \A m \in DOMAIN dropped : n \in dropped[m][1]..dropped[m][2] => m = l
      <4>1. \A m \in DOMAIN dropped : m \in Int /\ dropped[m][1] \in Int /\ dropped[m][2] \in Int
        <5>1. \A m \in DOMAIN dropped : m \in Int /\ dropped[m] \in Ranges
          BY <1>3
        <5> QED BY <5>1 DEF Ranges
      <4> TAKE m \in DOMAIN dropped
      <4> HAVE n \in dropped[m][1]..dropped[m][2]
      <4>2. CASE m < l
        <5>1. dropped[m][2] < dropped[l][1]
          BY <1>3, <4>2 DEF Normal
        <5> QED BY <3>2, <4>1, <5>1
      <4>3. CASE l < m
        <5>1. dropped[l][2] < dropped[m][1]
          BY <1>3, <4>3 DEF Normal
        <5> QED BY <3>2, <4>1, <5>1
      <4> QED BY <4>1, <4>2, <4>3
    <3> DEFINE k == Len(limits) + l
    <3>4. k \in Listed(all, n) /\ all[k] = more[l] /\ all[k].hop = i + 1
      BY <1>5, <1>9, <2>4, <3>2
    <3>5. Listed(all, n) = {k}
      BY <1>10, <2>3, <2>4, <2>7, <3>1, <3>3, <3>4
    <3>6. Stops(n, i + 1) = {i + 1}
      BY <2>6, <2>11
    <3> HIDE DEF k
    <3>7. \A j \in Stops(n, i + 1) : all[k].hop <= j
      BY <3>4, <3>6
    <3> QED BY <3>4, <3>5, <3>6, <3>7
  <2> QED BY <2>9, <2>10, <2>11
<1>12. ListedOnce(all, q, hops, i + 1)
  BY <1>11 DEF ListedOnce
<1> QED BY <1>4, <1>6, <1>12 DEF all, more, dropped

Ends == [ports : Lists, limits : [Proto -> Limits]]

\* A hop leaves lists of ranges and limits.
LEMMA PassHopType ==
    ASSUME NEW end \in Ends, NEW hop \in Lists, NEW i \in Nat
    PROVE  PassHop(end, hop, i) \in Ends
<1>1. ASSUME NEW q \in Proto
      PROVE  /\ Intersect(end.ports[q], hop[q]) \in Seq(Ranges)
             /\ end.limits[q] \o Stopped(Dropped(end.ports[q], hop[q]), i) \in Limits
  <2>1. end.ports[q] \in Seq(Ranges) /\ hop[q] \in Seq(Ranges) /\ end.limits[q] \in Limits
    BY DEF Ends, Lists
  <2>2. Dropped(end.ports[q], hop[q]) \in Seq(Ranges)
    BY <2>1, SubtractIs DEF Dropped, Normal
  <2>3. Stopped(Dropped(end.ports[q], hop[q]), i) \in Limits
    BY <2>2, StoppedType
  <2>4. end.limits[q] \o Stopped(Dropped(end.ports[q], hop[q]), i) \in Limits
    BY <2>1, <2>3 DEF Limits
  <2> QED BY <2>1, <2>4, IntersectIs
<1> QED BY <1>1 DEF PassHop, Ends, Lists

\* All ports are those from 1 to MaxPort.
LEMMA FullIs == Full \in Seq(Ranges) /\ Normal(Full) /\ Denotes(Full) = 1..MaxPort
<1> DEFINE r == <<1, MaxPort>>
<1>1. r \in Ranges /\ r[1] = 1 /\ r[2] = MaxPort /\ 1 <= MaxPort
  BY PortAssumption DEF Ranges
<1>2. Full = <<r>>
  BY DEF Full
<1> HIDE DEF r
<1>3. <<r>> = Append(<<>>, r) /\ DOMAIN <<>> = {} /\ <<>> \in Seq(Ranges)
  BY <1>1
<1>4. Denotes(Append(<<>>, r)) = 1..MaxPort /\ Append(<<>>, r) \in Seq(Ranges)
  BY <1>1, <1>3, Appended, DenotesNothing
<1>5. Normal(Append(<<>>, r))
  BY <1>1, <1>3, NormalAppended, DenotesNothing
<1> QED BY <1>2, <1>3, <1>4, <1>5

\* combine: open is what every hop has; every other port is listed once, where it stops.
LEMMA CombineIs ==
    ASSUME NEW hops \in Seq(Lists)
    PROVE  /\ Combine(hops) \in Ends
           /\ \A q \in Proto : /\ OpenTo(Combine(hops).ports[q], q, hops, Len(hops))
                               /\ ListedOnce(Combine(hops).limits[q], q, hops, Len(hops))
<1> DEFINE n == Len(hops)
           begin == [ports |-> AllFull, limits |-> Nothing]
           Eq(u) == u = [i \in 0..n |-> IF i = 0 THEN begin ELSE PassHop(u[i - 1], hops[i], i)]
           end == CHOOSE u : Eq(u)
<1>1. Combine(hops) = end[n]
  BY DEF Combine
<1>2. n \in Nat /\ \A i \in 1..n : hops[i] \in Lists /\ \A q \in Proto : hops[i][q] \in Seq(Ranges)
  BY DEF Lists
<1>3. begin \in Ends
  <2>1. AllFull \in Lists
    BY FullIs DEF AllFull, Lists
  <2>2. Nothing \in [Proto -> Limits]
    BY DEF Nothing, Limits
  <2> QED BY <2>1, <2>2 DEF Ends
<1> HIDE DEF n
<1> DEFINE step == [u \in Ends \X (0..n) |-> IF u[2] = 0 THEN u[1] ELSE PassHop(u[1], hops[u[2]], u[2])]
<1>4. PICK f \in [0..n -> Ends] : IsLoop(f, 0, n, begin, step)
  <2>1. ASSUME NEW u \in Ends \X (0..n)
        PROVE  (IF u[2] = 0 THEN u[1] ELSE PassHop(u[1], hops[u[2]], u[2])) \in Ends
    <3>1. u[1] \in Ends /\ u[2] \in Nat /\ (u[2] # 0 => u[2] \in 1..n)
      BY <1>2
    <3>2. u[2] # 0 => hops[u[2]] \in Lists
      BY <1>2, <3>1
    <3> QED BY <3>1, <3>2, PassHopType
  <2>2. step \in [Ends \X (0..n) -> Ends]
    BY <2>1
  <2>3. 0 \in Int /\ n \in Int /\ 0 <= n
    BY <1>2
  <2> HIDE DEF step, begin
  <2> QED BY <1>3, <2>2, <2>3, Loop
<1>5. Eq(f)
  <2>1. ASSUME NEW i \in 0..n, i # 0 PROVE f[i] = PassHop(f[i - 1], hops[i], i)
    <3>1. i \in 0 + 1..n /\ i - 1 \in 0..n
      BY <1>2, <2>1
    <3>2. f[i - 1] \in Ends
      BY <1>4, <3>1
    <3>3. f[i] = step[<<f[i - 1], i>>]
      BY <1>4, <3>1 DEF IsLoop
    <3> QED BY <2>1, <3>2, <3>3
  <2>2. f[0] = begin
    BY <1>4 DEF IsLoop
  <2> HIDE DEF begin
  <2> QED BY <1>4, <2>1, <2>2
<1> HIDE DEF Eq
<1>6. Eq(end)
  BY <1>5
<1> HIDE DEF end
<1>7. end[0] = begin /\ \A i \in 1..n : end[i] = PassHop(end[i - 1], hops[i], i)
  <2>1. 0 \in 0..n /\ \A i \in 1..n : i \in 0..n /\ i # 0
    BY <1>2
  <2> HIDE DEF begin
  <2>2. \A i \in 0..n : end[i] = IF i = 0 THEN begin ELSE PassHop(end[i - 1], hops[i], i)
    BY <1>6, Zenon DEF Eq
  <2> QED BY <2>1, <2>2
<1> DEFINE Inv(i) ==
             /\ end[i] \in Ends
             /\ \A q \in Proto : /\ OpenTo(end[i].ports[q], q, hops, i)
                                 /\ ListedOnce(end[i].limits[q], q, hops, i)
           T == {i \in 0..n : Inv(i)}
<1>8. Inv(0)
  <2>1. ASSUME NEW q \in Proto PROVE OpenTo(Full, q, hops, 0) /\ ListedOnce(<<>>, q, hops, 0)
    <3>1. \A j : j \notin 1..0
      OBVIOUS
    <3>2. OpenTo(Full, q, hops, 0)
      BY <3>1, FullIs DEF OpenTo
    <3>3. DOMAIN <<>> = {}
      OBVIOUS
    <3>4. ListedOnce(<<>>, q, hops, 0)
      BY <3>1, <3>3 DEF ListedOnce
    <3> QED BY <3>2, <3>4
  <2>2. end[0].ports = AllFull /\ end[0].limits = Nothing
    BY <1>7
  <2>3. end[0] \in Ends
    BY <1>3, <1>7
  <2> QED BY <2>1, <2>2, <2>3 DEF AllFull, Nothing
<1>9. ASSUME NEW i \in 0..n, i < n, Inv(i) PROVE Inv(i + 1)
  <2>1. i + 1 \in 1..n /\ (i + 1) - 1 = i /\ i \in Nat /\ i + 1 \in Nat
    BY <1>2, <1>9
  <2>2. end[i + 1] = PassHop(end[i], hops[i + 1], i + 1)
    BY <1>7, <2>1
  <2>3. end[i + 1] \in Ends
    BY <1>2, <1>9, <2>1, <2>2, PassHopType, SMTT(60)
  <2>4. ASSUME NEW q \in Proto
        PROVE  OpenTo(end[i + 1].ports[q], q, hops, i + 1) /\ ListedOnce(end[i + 1].limits[q], q, hops, i + 1)
    <3>1. /\ end[i + 1].ports[q] = Intersect(end[i].ports[q], hops[i + 1][q])
          /\ end[i + 1].limits[q] = end[i].limits[q] \o Stopped(Dropped(end[i].ports[q], hops[i + 1][q]), i + 1)
      <4> DEFINE e == end[i]
                 h == hops[i + 1]
                 new == PassHop(e, h, i + 1)
      <4>1. /\ new.ports = [r \in Proto |-> Intersect(e.ports[r], h[r])]
            /\ new.limits = [r \in Proto |->
                              e.limits[r] \o Stopped(Dropped(e.ports[r], h[r]), i + 1)]
        BY DEF PassHop
      <4>2. end[i + 1] = new
        BY <2>2
      <4> HIDE DEF e, h, new
      <4>3. /\ new.ports[q] = Intersect(e.ports[q], h[q])
            /\ new.limits[q] = e.limits[q] \o Stopped(Dropped(e.ports[q], h[q]), i + 1)
        BY <4>1
      <4> QED BY <4>2, <4>3 DEF e, h
    <3>2. end[i].ports[q] \in Seq(Ranges) /\ end[i].limits[q] \in Limits /\ hops[i + 1][q] \in Seq(Ranges)
      BY <1>2, <1>9, <2>1 DEF Ends, Lists
    <3>3. OpenTo(end[i].ports[q], q, hops, i) /\ ListedOnce(end[i].limits[q], q, hops, i)
      BY <1>9
    <3> QED BY <2>1, <3>1, <3>2, <3>3, PassOne
  <2> QED BY <2>3, <2>4
<1> HIDE DEF Inv
<1>10. n \in T
  <2>1. 0 \in T /\ \A i \in 0..n : i \in T /\ i < n => i + 1 \in T
    BY <1>2, <1>8, <1>9
  <2> HIDE DEF T
  <2> QED BY <1>2, <2>1, UpTo
<1>11. Inv(n)
  BY <1>10
<1> QED BY <1>1, <1>11 DEF Inv, n

(* ------------------------------ first match ------------------------------- *)

\* At first no rule is looked at and every port is undecided.
LEMMA AbstractInit == Abstract!Init => Abstract!IInv
<1> SUFFICES ASSUME Abstract!Init PROVE Abstract!IInv
  OBVIOUS
<1> DEFINE a == Pairs(allowed)
           u == Pairs(undecided)
<1>1. AsRules = <<>> /\ rule = 1 /\ a = {} /\ u = Port
  BY DEF Abstract!Init
<1>2. \A k : k \notin 1..rule - 1
  BY <1>1
<1>3. AsRules \in Seq(Abstract!Rule) /\ rule \in 1..Len(AsRules) + 1
  BY <1>1
<1>4. Abstract!TypeOK
  BY <1>1, <1>3 DEF Abstract!TypeOK
<1>5. Abstract!SoFar
  BY <1>1, <1>2 DEF Abstract!SoFar
<1> QED BY <1>4, <1>5 DEF Abstract!IInv

\* Taking a rule settles exactly the undecided ports it covers.
LEMMA AbstractTakeRuleKeeps == Abstract!IInv /\ Abstract!TakeRule => Abstract!IInv'
<1> SUFFICES ASSUME Abstract!IInv, Abstract!TakeRule PROVE Abstract!IInv'
  OBVIOUS
<1>1. /\ AsRules' = AsRules /\ rule' = rule + 1 /\ rule \in 1..Len(AsRules)
      /\ AsRules[rule] \in Abstract!Rule /\ rule \in Nat /\ rule >= 1
  BY DEF Abstract!IInv, Abstract!TypeOK, Abstract!TakeRule
<1>2. Pairs(undecided)' = Pairs(undecided) \ AsRules[rule].covers
  BY DEF Abstract!TakeRule
<1>3. Abstract!TypeOK'
  BY <1>1, <1>2 DEF Abstract!IInv, Abstract!TypeOK, Abstract!TakeRule, Abstract!Rule
<1>4. \A k : k \in 1..rule' - 1 <=> k \in 1..rule - 1 \/ k = rule
  BY <1>1
<1>5. Pairs(undecided)' = {p \in Port : \A k \in 1..rule' - 1 : p \notin AsRules'[k].covers}
  <2>1. \A p \in Port : p \in Pairs(undecided)' <=> \A k \in 1..rule' - 1 : p \notin AsRules[k].covers
    BY <1>2, <1>4 DEF Abstract!IInv, Abstract!SoFar
  <2>2. Pairs(undecided)' \subseteq Port
    BY <1>3 DEF Abstract!TypeOK
  <2> QED
    BY <1>1, <2>1, <2>2
<1>6. \A p \in Port : Abstract!Decides(AsRules, rule, p) <=> p \in Pairs(undecided) /\ p \in AsRules[rule].covers
  BY DEF Abstract!Decides, Abstract!IInv, Abstract!SoFar
<1>7. Pairs(allowed)' = {p \in Port : \E k \in 1..rule' - 1 : Abstract!Decides(AsRules', k, p) /\ AsRules'[k].accept}
  <2>1. \A p \in Port : p \in Pairs(allowed)'
                          <=> p \in Pairs(allowed) \/ (Abstract!Decides(AsRules, rule, p) /\ AsRules[rule].accept)
    <3>1. CASE AsRules[rule].accept
      BY <3>1, <1>6 DEF Abstract!TakeRule
    <3>2. CASE ~AsRules[rule].accept
      BY <3>2, <1>6 DEF Abstract!TakeRule
    <3> QED
      BY <3>1, <3>2
  <2>2. \A p \in Port : p \in Pairs(allowed)
                          <=> \E k \in 1..rule - 1 : Abstract!Decides(AsRules, k, p) /\ AsRules[k].accept
    BY DEF Abstract!IInv, Abstract!SoFar
  <2>3. \A p \in Port : p \in Pairs(allowed)'
                          <=> \E k \in 1..rule' - 1 : Abstract!Decides(AsRules, k, p) /\ AsRules[k].accept
    BY <1>4, <2>1, <2>2
  <2>4. Pairs(allowed)' \subseteq Port
    BY <1>3 DEF Abstract!TypeOK
  <2> QED
    BY <1>1, <2>3, <2>4
<1> QED
  BY <1>3, <1>5, <1>7 DEF Abstract!IInv, Abstract!SoFar

\* The next firewall begins with its rules and all ports that got this far.
LEMMA NextFirewallKeeps == Abstract!IInv /\ Abstract!NextFirewall => Abstract!IInv'
<1> SUFFICES ASSUME Abstract!IInv, Abstract!NextFirewall PROVE Abstract!IInv'
  OBVIOUS
<1>1. rule' = 1 /\ Pairs(allowed)' = {} /\ Pairs(undecided)' = Port /\ AsRules' \in Seq(Abstract!Rule)
  BY DEF Abstract!NextFirewall
<1>2. Abstract!TypeOK'
  BY <1>1 DEF Abstract!TypeOK
<1>3. \A k : k \notin 1..rule' - 1
  BY <1>1
<1> QED
  BY <1>1, <1>2, <1>3 DEF Abstract!IInv, Abstract!SoFar

\* Nothing is left for later rules once all rules were looked at, or all ports decided.
LEMMA SoFarIsRight == Abstract!IInv => Abstract!Right
<1> SUFFICES ASSUME Abstract!IInv, Abstract!Through PROVE Pairs(allowed) = {p \in Port : Abstract!Accepted(AsRules, p)}
  BY DEF Abstract!Right
<1>1. rule \in Nat /\ rule >= 1 /\ rule <= Len(AsRules) + 1 /\ DOMAIN AsRules = 1..Len(AsRules)
      /\ Len(AsRules) \in Nat
  BY DEF Abstract!IInv, Abstract!TypeOK
<1>2. ASSUME NEW p \in Port, NEW k \in DOMAIN AsRules, Abstract!Decides(AsRules, k, p)
      PROVE  k \in 1..rule - 1
  <2>1. CASE rule > Len(AsRules)
    BY <1>1, <2>1
  <2>2. CASE Pairs(undecided) = {}
    <3>1. PICK j \in 1..rule - 1 : p \in AsRules[j].covers
      BY <2>2 DEF Abstract!IInv, Abstract!SoFar
    <3>2. ~(j \in 1..k - 1)
      BY <1>2, <3>1 DEF Abstract!Decides
    <3> QED
      BY <1>1, <3>1, <3>2
  <2> QED
    BY <2>1, <2>2 DEF Abstract!Through
<1>3. \A k \in 1..rule - 1 : k \in DOMAIN AsRules
  BY <1>1
<1> QED
  BY <1>2, <1>3 DEF Abstract!IInv, Abstract!SoFar, Abstract!Accepted

\* Every step of a first match keeps what the rules looked at so far say.
LEMMA AbstractNextKeeps == Abstract!IInv /\ [Abstract!Next]_(Abstract!vars) => Abstract!IInv'
<1> SUFFICES ASSUME Abstract!IInv, [Abstract!Next]_(Abstract!vars) PROVE Abstract!IInv'
  OBVIOUS
<1>1. CASE Abstract!TakeRule
  BY <1>1, AbstractTakeRuleKeeps
<1>2. CASE Abstract!NextFirewall
  BY <1>2, NextFirewallKeeps
<1>3. CASE UNCHANGED Abstract!vars
  <2> DEFINE a == Pairs(allowed)
             u == Pairs(undecided)
  <2>1. AsRules' = AsRules /\ rule' = rule /\ a' = a /\ u' = u
    BY <1>3 DEF Abstract!vars
  <2>2. Abstract!TypeOK'
    BY <2>1 DEF Abstract!IInv, Abstract!TypeOK
  <2>3. Abstract!SoFar'
    BY <2>1 DEF Abstract!IInv, Abstract!SoFar, Abstract!Decides
  <2> QED
    BY <2>2, <2>3 DEF Abstract!IInv
<1> QED
  BY <1>1, <1>2, <1>3 DEF Abstract!Next

\* The list of rules, the position in it and both sets of ports keep their types.
THEOREM FirstMatchTyped == Abstract!Spec => []Abstract!TypeOK
<1>1. Abstract!IInv => Abstract!TypeOK
  BY DEF Abstract!IInv
<1> QED
  BY <1>1, AbstractInit, AbstractNextKeeps, PTL DEF Abstract!Spec

\* For every list of rules the loop of hop_allowed ends with the ports whose first
\* covering rule accepts, also when it ends early because nothing is undecided.
THEOREM FirstMatchRight == Abstract!Spec => []Abstract!Right
<1> QED
  BY AbstractInit, AbstractNextKeeps, SoFarIsRight, PTL DEF Abstract!Spec

(* ------------------------- ports of all protocols ------------------------- *)

\* A port of a protocol is among the pairs if its list of ranges has it.
LEMMA PairsAre ==
    ASSUME NEW lists
    PROVE  /\ \A p \in Pairs(lists) : p \in Proto \X UNION {Denotes(lists[q]) : q \in Proto}
           /\ \A q, n : <<q, n>> \in Pairs(lists) <=> q \in Proto /\ n \in Denotes(lists[q])
<1> DEFINE D(q) == Denotes(lists[q])
<1>1. Pairs(lists) = UNION {{q} \X D(q) : q \in Proto}
  BY DEF Pairs
<1> HIDE DEF D
<1>2. \A p : p \in Pairs(lists) <=> \E q \in Proto : p \in {q} \X D(q)
  BY <1>1
<1>3. \A p \in Pairs(lists) : p \in Proto \X UNION {D(q) : q \in Proto}
  BY <1>2
<1>4. \A q, n : <<q, n>> \in Pairs(lists) <=> q \in Proto /\ n \in D(q)
  BY <1>2
<1> QED BY <1>3, <1>4 DEF D

\* A port is among the pairs if the list of its protocol has it.
LEMMA InPairs ==
    ASSUME NEW lists, NEW p
    PROVE  p \in Pairs(lists) <=> \E q \in Proto : \E n \in Denotes(lists[q]) : p = <<q, n>>
<1> DEFINE D(q) == Denotes(lists[q])
<1>1. Pairs(lists) = UNION {{q} \X D(q) : q \in Proto}
  BY DEF Pairs
<1> HIDE DEF D
<1>2. p \in Pairs(lists) <=> \E q \in Proto : p \in {q} \X D(q)
  BY <1>1
<1>3. p \in Pairs(lists) <=> \E q \in Proto : \E n \in D(q) : p = <<q, n>>
  BY <1>2
<1> QED BY <1>3 DEF D

\* Lists of the ports two lists have in common stand for the pairs in common.
LEMMA PairsCap ==
    ASSUME NEW a, NEW b, NEW c,
           \A q \in Proto : Denotes(c[q]) = Denotes(a[q]) \cap Denotes(b[q])
    PROVE  Pairs(c) = Pairs(a) \cap Pairs(b)
<1> DEFINE D(l, q) == Denotes(l[q])
<1>1. \A l, p : p \in Pairs(l) <=> \E q \in Proto : \E n \in D(l, q) : p = <<q, n>>
  BY InPairs
<1>2. \A q \in Proto : D(c, q) = D(a, q) \cap D(b, q)
  OBVIOUS
<1> HIDE DEF D
<1> QED BY <1>1, <1>2

\* Lists of the ports of either list stand for the pairs of either.
LEMMA PairsCup ==
    ASSUME NEW a, NEW b, NEW c,
           \A q \in Proto : Denotes(c[q]) = Denotes(a[q]) \cup Denotes(b[q])
    PROVE  Pairs(c) = Pairs(a) \cup Pairs(b)
<1> DEFINE D(l, q) == Denotes(l[q])
<1>1. \A l, p : p \in Pairs(l) <=> \E q \in Proto : \E n \in D(l, q) : p = <<q, n>>
  BY InPairs
<1>2. \A q \in Proto : D(c, q) = D(a, q) \cup D(b, q)
  OBVIOUS
<1> HIDE DEF D
<1> QED BY <1>1, <1>2

\* Lists of the ports left of a list stand for the pairs left.
LEMMA PairsMinus ==
    ASSUME NEW a, NEW b, NEW c,
           \A q \in Proto : Denotes(c[q]) = Denotes(a[q]) \ Denotes(b[q])
    PROVE  Pairs(c) = Pairs(a) \ Pairs(b)
<1> DEFINE D(l, q) == Denotes(l[q])
<1>1. \A l, p : p \in Pairs(l) <=> \E q \in Proto : \E n \in D(l, q) : p = <<q, n>>
  BY InPairs
<1>2. \A q \in Proto : D(c, q) = D(a, q) \ D(b, q)
  OBVIOUS
<1> HIDE DEF D
<1> QED BY <1>1, <1>2

\* Nothing has no pairs, and the full ranges have all ports.
LEMMA PairsEnds == Nothing \in Lists /\ AllFull \in Lists /\ Pairs(Nothing) = {} /\ Pairs(AllFull) = Port
<1>1. Nothing \in Lists /\ AllFull \in Lists
  BY FullIs DEF Nothing, AllFull, Lists
<1>2. \A q \in Proto : Nothing[q] = <<>> /\ AllFull[q] = Full
  BY DEF Nothing, AllFull
<1>3. \A q, n : <<q, n>> \notin Pairs(Nothing)
  BY <1>2, PairsAre, DenotesNothing
<1>4. Pairs(Nothing) = {}
  BY <1>3, PairsAre
<1>5. \A q, n : <<q, n>> \in Pairs(AllFull) <=> q \in Proto /\ n \in 1..MaxPort
  BY <1>2, PairsAre, FullIs
<1>6. Pairs(AllFull) \subseteq Port
  <2>1. UNION {Denotes(AllFull[q]) : q \in Proto} \subseteq 1..MaxPort
    BY <1>2, FullIs
  <2> QED BY <2>1, PairsAre DEF Port
<1>7. Port \subseteq Pairs(AllFull)
  BY <1>5 DEF Port
<1> QED BY <1>1, <1>4, <1>6, <1>7

(* ------------------------------- the loops -------------------------------- *)

\* A policy that is looked at moves exactly the undecided ports it covers.
LEMMA RuleTaken ==
    ASSUME NEW p \in Policies, ~Unresolvable(p), ByAddress(p),
           NEW a \in Lists, NEW u \in Lists, Pairs(u) \subseteq Port,
           NEW d, \A q \in Proto : d[q] = Intersect(u[q], ServiceIntervals(p.service)[q]),
           NEW more, \A q \in Proto : more[q] = Merge(a[q] \o d[q]),
           NEW left, \A q \in Proto : left[q] = Subtract(u[q], d[q])
    PROVE  /\ \A q \in Proto : more[q] \in Seq(Ranges) /\ left[q] \in Seq(Ranges)
           /\ Pairs(more) = Pairs(a) \cup (Pairs(u) \cap Covers(p))
           /\ Pairs(left) = Pairs(u) \ Covers(p)
<1> DEFINE s == ServiceIntervals(p.service)
<1>1. p.service \in Seq(STRING)
  BY DEF Policies
<1>2. \A q \in Proto : s[q] \in Seq(Ranges)
  BY <1>1, ServiceType
<1>3. Covers(p) = Port \cap Pairs(s)
  BY DEF Covers
<1>4. \A q \in Proto : a[q] \in Seq(Ranges) /\ u[q] \in Seq(Ranges)
  BY DEF Lists
<1>5. \A q \in Proto : d[q] = Intersect(u[q], s[q])
  OBVIOUS
<1> HIDE DEF s
<1>6. \A q \in Proto : d[q] \in Seq(Ranges) /\ Denotes(d[q]) = Denotes(u[q]) \cap Denotes(s[q])
  BY <1>2, <1>4, <1>5, IntersectIs
<1>7. \A q \in Proto : more[q] \in Seq(Ranges) /\ Denotes(more[q]) = Denotes(a[q]) \cup Denotes(d[q])
  <2> TAKE q \in Proto
  <2>1. a[q] \o d[q] \in Seq(Ranges) /\ Denotes(a[q] \o d[q]) = Denotes(a[q]) \cup Denotes(d[q])
    BY <1>4, <1>6, Joined
  <2>2. more[q] = Merge(a[q] \o d[q])
    OBVIOUS
  <2> QED BY <2>1, <2>2, MergeIs DEF Normal
<1>8. \A q \in Proto : left[q] \in Seq(Ranges) /\ Denotes(left[q]) = Denotes(u[q]) \ Denotes(d[q])
  BY <1>4, <1>6, SubtractIs DEF Normal
<1>9. Pairs(d) = Pairs(u) \cap Pairs(s)
  BY <1>6, PairsCap
<1>10. Pairs(more) = Pairs(a) \cup Pairs(d)
  BY <1>7, PairsCup
<1>11. Pairs(left) = Pairs(u) \ Pairs(d)
  BY <1>8, PairsMinus, ZenonT(60)
<1>12. Pairs(d) = Pairs(u) \cap Covers(p)
  BY <1>3, <1>9
<1> QED BY <1>7, <1>8, <1>10, <1>11, <1>12

\* The policies analysed at a hop are policies of the firewall, in their order.
LEMMA FlowType ==
    ASSUME NEW w \in Paths, NEW i \in 1..Len(w)
    PROVE  w[i] \in ToSet(w) /\ w[i].policies \in Seq(Policies)
           /\ FlowPolicies(w[i]).policies \in Seq(Policies)
<1>1. w \in Seq(ToSet(w))
  BY PathAssumption
<1>2. w[i] \in ToSet(w)
  BY <1>1
<1> DEFINE h == w[i]
<1>3. h.policies \in Seq(Policies)
  BY <1>2, PathAssumption
<1> HIDE DEF h
<1>4. \A S : Selected(h.policies, S) \in Seq(Policies)
  BY <1>3, SelectedIs
<1>5. FlowPolicies(h).policies \in Seq(Policies)
  BY <1>4 DEF FlowPolicies, CandidatePolicies
<1> QED BY <1>2, <1>3, <1>5 DEF h

\* What is known at every step: whose policies are looked at, ...
HopInv ==
    /\ path \in Paths /\ at \in 0..Len(path)
    /\ policies \in Seq(Policies) /\ rule \in 1..Len(policies) + 1
    /\ IF at = 0 THEN policies = <<>>
       ELSE policies = FlowPolicies(path[at]).policies /\ widened = FlowPolicies(path[at]).widened

\* ... that ports stay within bounds, ...
PortInv == allowed \in Lists /\ undecided \in Lists /\ Pairs(undecided) \subseteq Port

\* ... and that the result is that of the hops that are through.
ResultInv ==
    /\ open \in Seq(Lists)
    /\ result.done /\ open # <<>> =>
          result.ports = Combine(open).ports /\ result.limits = Combine(open).limits

PInv == HopInv /\ PortInv /\ ResultInv

\* The analysis begins before the first hop.
LEMMA InitPInv == Init => PInv
<1> SUFFICES ASSUME Init PROVE PInv
  OBVIOUS
<1>1. path \in Seq(ToSet(path))
  BY PathAssumption DEF Init
<1>2. HopInv
  BY <1>1 DEF Init, HopInv
<1>3. PortInv
  BY PairsEnds DEF Init, PortInv
<1>4. ResultInv
  BY DEF Init, ResultInv, NoResult
<1> QED BY <1>2, <1>3, <1>4 DEF PInv

\* The hops that are through, each with its open ports.
LEMMA CollectedType == PInv => Collected \in Seq(Lists)
<1> SUFFICES ASSUME PInv PROVE Collected \in Seq(Lists)
  OBVIOUS
<1>1. \A q \in Proto : allowed[q] \in Seq(Ranges)
  BY DEF PInv, PortInv, Lists
<1>2. \A q \in Proto : Merge(allowed[q]) \in Seq(Ranges)
  BY <1>1, MergeIs DEF Normal
<1>3. [q \in Proto |-> Merge(allowed[q])] \in Lists
  BY <1>2 DEF Lists
<1> QED BY <1>3 DEF Collected, PInv, ResultInv

\* At the next hop its own policies are looked at, and all ports are undecided.
LEMMA EnterHopKeeps == PInv /\ EnterHop => PInv'
<1> SUFFICES ASSUME PInv, EnterHop PROVE PInv'
  OBVIOUS
<1>1. /\ path' = path /\ path \in Paths /\ at' = at + 1 /\ at' \in 1..Len(path) /\ rule' = 1
      /\ policies' = FlowPolicies(path[at']).policies /\ widened' = FlowPolicies(path[at']).widened
  <2>1. path \in Seq(ToSet(path))
    BY PathAssumption DEF PInv, HopInv
  <2> QED BY <2>1 DEF EnterHop, PInv, HopInv
<1>2. policies' \in Seq(Policies)
  BY <1>1, FlowType
<1>3. HopInv'
  BY <1>1, <1>2 DEF HopInv
<1>4. PortInv'
  BY PairsEnds DEF EnterHop, PortInv
<1>5. ResultInv'
  BY CollectedType DEF EnterHop, ResultInv
<1> QED BY <1>3, <1>4, <1>5 DEF PInv

\* Passing over a policy moves on to the next one.
LEMMA PassOverKeeps == PInv /\ PassOver => PInv'
<1> SUFFICES ASSUME PInv, PassOver PROVE PInv'
  OBVIOUS
<1>1. rule \in 1..Len(policies) /\ rule' = rule + 1 /\ Len(policies) \in Nat
  BY DEF PassOver, HopThrough, PInv, HopInv
<1>2. HopInv'
  BY <1>1 DEF PassOver, PInv, HopInv
<1>3. PortInv' /\ ResultInv'
  BY DEF PassOver, PInv, PortInv, ResultInv
<1> QED BY <1>2, <1>3 DEF PInv

\* A policy that is looked at is accounted for in ports.
LEMMA TakenIs ==
    PInv /\ TakeRule =>
        /\ rule \in 1..Len(policies) /\ policies[rule] \in Policies
        /\ allowed' \in Lists /\ undecided' \in Lists
        /\ Pairs(allowed') = IF policies[rule].accept
                             THEN Pairs(allowed) \cup (Pairs(undecided) \cap Covers(policies[rule]))
                             ELSE Pairs(allowed)
        /\ Pairs(undecided') = Pairs(undecided) \ Covers(policies[rule])
<1> SUFFICES ASSUME PInv, TakeRule
             PROVE  /\ rule \in 1..Len(policies) /\ policies[rule] \in Policies
                    /\ allowed' \in Lists /\ undecided' \in Lists
                    /\ Pairs(allowed') = IF policies[rule].accept
                                         THEN Pairs(allowed) \cup (Pairs(undecided) \cap Covers(policies[rule]))
                                         ELSE Pairs(allowed)
                    /\ Pairs(undecided') = Pairs(undecided) \ Covers(policies[rule])
  OBVIOUS
<1> DEFINE p == policies[rule]
           d == [q \in Proto |-> Intersect(undecided[q], ServiceIntervals(p.service)[q])]
           more == [q \in Proto |-> Merge(allowed[q] \o d[q])]
           left == [q \in Proto |-> Subtract(undecided[q], d[q])]
<1>1. rule \in 1..Len(policies) /\ p \in Policies
  BY DEF TakeRule, HopThrough, PInv, HopInv
<1>2. ~Unresolvable(p) /\ ByAddress(p)
  BY DEF TakeRule
<1>3. allowed \in Lists /\ undecided \in Lists /\ Pairs(undecided) \subseteq Port
  BY DEF PInv, PortInv
<1>4. undecided' = left
  BY DEF TakeRule, Remaining
<1>5. allowed' = [q \in Proto |-> IF p.accept THEN Merge(allowed[q] \o d[q]) ELSE allowed[q]]
  BY DEF TakeRule
<1>6. allowed' = IF p.accept THEN more ELSE allowed
  BY <1>3, <1>5 DEF Lists
<1>7. /\ \A q \in Proto : more[q] \in Seq(Ranges) /\ left[q] \in Seq(Ranges)
      /\ Pairs(more) = Pairs(allowed) \cup (Pairs(undecided) \cap Covers(p))
      /\ Pairs(left) = Pairs(undecided) \ Covers(p)
  <2>1. /\ \A q \in Proto : d[q] = Intersect(undecided[q], ServiceIntervals(p.service)[q])
        /\ \A q \in Proto : more[q] = Merge(allowed[q] \o d[q])
        /\ \A q \in Proto : left[q] = Subtract(undecided[q], d[q])
    OBVIOUS
  <2> HIDE DEF d, more, left
  <2>2. p \in Policies /\ ~Unresolvable(p) /\ ByAddress(p) /\ allowed \in Lists /\ undecided \in Lists
        /\ Pairs(undecided) \subseteq Port
    BY <1>1, <1>2, <1>3 DEF p
  <2> HIDE DEF p
  <2>3. \A e, m, l :
           /\ \A q \in Proto : e[q] = Intersect(undecided[q], ServiceIntervals(p.service)[q])
           /\ \A q \in Proto : m[q] = Merge(allowed[q] \o e[q])
           /\ \A q \in Proto : l[q] = Subtract(undecided[q], e[q])
           => /\ \A q \in Proto : m[q] \in Seq(Ranges) /\ l[q] \in Seq(Ranges)
              /\ Pairs(m) = Pairs(allowed) \cup (Pairs(undecided) \cap Covers(p))
              /\ Pairs(l) = Pairs(undecided) \ Covers(p)
    BY <2>2, RuleTaken, SMTT(30)
  <2> QED BY <2>1, <2>3, SMTT(60)
<1>71. more \in Lists /\ left \in Lists
  BY <1>7 DEF Lists
<1> HIDE DEF p, more, left, d
<1>8. CASE p.accept
  BY <1>1, <1>4, <1>6, <1>7, <1>71, <1>8 DEF p
<1>9. CASE ~p.accept
  BY <1>1, <1>3, <1>4, <1>6, <1>7, <1>71, <1>9 DEF p
<1> QED BY <1>8, <1>9

\* Looking at a policy decides ports, and no port comes in.
LEMMA TakeRuleKeeps == PInv /\ TakeRule => PInv'
<1> SUFFICES ASSUME PInv, TakeRule PROVE PInv'
  OBVIOUS
<1>1. rule' = rule + 1 /\ UNCHANGED <<path, at, policies, widened, open, result>>
  BY DEF TakeRule
<1>2. HopInv'
  BY <1>1, TakenIs DEF PInv, HopInv
<1>3. PortInv'
  BY TakenIs DEF PInv, PortInv
<1>4. ResultInv'
  BY <1>1 DEF PInv, ResultInv
<1> QED BY <1>2, <1>3, <1>4 DEF PInv

\* The analysis ends with the result of all hops that are through.
LEMMA FinishKeeps == PInv /\ Finish => PInv'
<1> SUFFICES ASSUME PInv, Finish PROVE PInv'
  OBVIOUS
<1>1. HopInv' /\ PortInv'
  BY DEF Finish, PInv, HopInv, PortInv
<1>2. open' = Collected /\ open' \in Seq(Lists)
  BY CollectedType DEF Finish
<1>3. open' # <<>> => result' = [done |-> TRUE, ports |-> Combine(open').ports, limits |-> Combine(open').limits]
  BY <1>2 DEF Finish
<1>4. ResultInv'
  BY <1>2, <1>3 DEF ResultInv
<1> QED BY <1>1, <1>4 DEF PInv

\* Every step of the analysis keeps what is known.
LEMMA NextKeeps == PInv /\ [Next]_vars => PInv'
<1> SUFFICES ASSUME PInv, [Next]_vars PROVE PInv'
  OBVIOUS
<1>1. CASE UnknownHop
  BY <1>1 DEF UnknownHop, PInv, HopInv, PortInv, ResultInv
<1>2. CASE UNCHANGED vars
  BY <1>2 DEF vars, PInv, HopInv, PortInv, ResultInv
<1> QED BY <1>1, <1>2, EnterHopKeeps, PassOverKeeps, TakeRuleKeeps, FinishKeeps DEF Next

(* ----------------------------- the refinement ----------------------------- *)

\* Policies are rules over plain sets of ports.
LEMMA AsRulesType ==
    ASSUME NEW ps \in Seq(Policies),
           NEW r, r = [i \in DOMAIN ps |-> [covers |-> Covers(ps[i]), accept |-> ps[i].accept]]
    PROVE  r \in Seq(Abstract!Rule) /\ Len(r) = Len(ps)
<1>1. DOMAIN ps = 1..Len(ps) /\ Len(ps) \in Nat /\ \A i \in 1..Len(ps) : ps[i] \in Policies
  OBVIOUS
<1>2. \A p \in Policies : Covers(p) \in SUBSET Port /\ p.accept \in BOOLEAN
  BY DEF Covers, Policies
<1>3. \A i \in 1..Len(ps) : [covers |-> Covers(ps[i]), accept |-> ps[i].accept] \in Abstract!Rule
  BY <1>1, <1>2 DEF Abstract!Rule
<1>4. r \in [1..Len(ps) -> Abstract!Rule]
  BY <1>1, <1>3
<1> QED BY <1>1, <1>4

\* The analysis begins like a first match before its first firewall.
LEMMA InitRefines == Init => Abstract!Init
<1> SUFFICES ASSUME Init PROVE Abstract!Init
  OBVIOUS
<1>1. AsRules = <<>>
  BY DEF Init, AsRules
<1>2. Pairs(allowed) = {} /\ Pairs(undecided) = Port
  BY PairsEnds DEF Init
<1> QED BY <1>1, <1>2 DEF Init, Abstract!Init

\* The next hop is the next firewall: the one before is through.
LEMMA EnterHopRefines == PInv /\ PInv' /\ EnterHop => Abstract!NextFirewall
<1> SUFFICES ASSUME PInv, PInv', EnterHop PROVE Abstract!NextFirewall
  OBVIOUS
<1>1. AsRules' \in Seq(Abstract!Rule)
  BY AsRulesType DEF AsRules, PInv, HopInv
<1>2. Len(AsRules) = Len(policies)
  BY AsRulesType DEF AsRules, PInv, HopInv
<1>3. rule > Len(AsRules) \/ Pairs(undecided) = {}
  BY <1>2, PairsEnds DEF EnterHop, HopThrough, Decided
<1>4. rule' = 1 /\ Pairs(allowed') = {} /\ Pairs(undecided') = Port
  BY PairsEnds DEF EnterHop
<1> QED BY <1>1, <1>3, <1>4 DEF Abstract!NextFirewall, Abstract!Through

\* A policy that is passed over is a rule that covers no port.
LEMMA PassOverRefines == PInv /\ PassOver => Abstract!TakeRule
<1> SUFFICES ASSUME PInv, PassOver PROVE Abstract!TakeRule
  OBVIOUS
<1>1. rule \in 1..Len(policies) /\ Len(AsRules) = Len(policies) /\ DOMAIN policies = 1..Len(policies)
  BY AsRulesType DEF AsRules, PassOver, HopThrough, PInv, HopInv
<1>2. AsRules[rule].covers = Covers(policies[rule])
  BY <1>1 DEF AsRules
<1>3. Covers(policies[rule]) = {}
  BY DEF PassOver, Covers
<1>4. AsRules' = AsRules /\ Pairs(allowed)' = Pairs(allowed) /\ Pairs(undecided)' = Pairs(undecided)
  BY DEF PassOver, AsRules
<1>5. rule' = rule + 1 /\ rule <= Len(AsRules)
  BY <1>1 DEF PassOver
<1> QED BY <1>2, <1>3, <1>4, <1>5 DEF Abstract!TakeRule

\* A policy that is looked at is the rule that is taken.
LEMMA TakeRuleRefines == PInv /\ TakeRule => Abstract!TakeRule
<1> SUFFICES ASSUME PInv, TakeRule PROVE Abstract!TakeRule
  OBVIOUS
<1>1. rule \in 1..Len(policies) /\ Len(AsRules) = Len(policies) /\ DOMAIN policies = 1..Len(policies)
  BY AsRulesType, TakenIs DEF AsRules, PInv, HopInv
<1>2. AsRules[rule].covers = Covers(policies[rule]) /\ AsRules[rule].accept = policies[rule].accept
  BY <1>1 DEF AsRules
<1>3. AsRules' = AsRules /\ rule' = rule + 1
  BY DEF TakeRule, AsRules
<1>4. /\ Pairs(allowed)' = IF policies[rule].accept
                           THEN Pairs(allowed) \cup (Pairs(undecided) \cap Covers(policies[rule]))
                           ELSE Pairs(allowed)
      /\ Pairs(undecided)' = Pairs(undecided) \ Covers(policies[rule])
  BY TakenIs
<1>5. rule <= Len(AsRules)
  BY <1>1
<1> QED BY <1>2, <1>3, <1>4, <1>5 DEF Abstract!TakeRule

\* Ending the analysis leaves rules and ports alone.
LEMMA EndStutters == UnknownHop \/ Finish \/ UNCHANGED vars => UNCHANGED Abstract!vars
<1> SUFFICES ASSUME UnknownHop \/ Finish \/ UNCHANGED vars PROVE UNCHANGED Abstract!vars
  OBVIOUS
<1>1. policies' = policies /\ rule' = rule /\ allowed' = allowed /\ undecided' = undecided
  BY DEF UnknownHop, Finish, vars
<1> QED BY <1>1 DEF Abstract!vars, AsRules

\* On every path, whatever its policies, services, groups and zones are, the loop of
\* hop_allowed over lists of ranges does, rule by rule, what first match on sets of ports
\* does: with the algebra of engine/ports.py a set of ports may be kept as ranges.
THEOREM RefinesSets == Spec => RefinesFirstMatch
<1>1. PInv /\ PInv' /\ [Next]_vars => [Abstract!Next]_(Abstract!vars)
  BY EnterHopRefines, PassOverRefines, TakeRuleRefines, EndStutters DEF Next, Abstract!Next
<1> QED
  BY <1>1, InitPInv, NextKeeps, InitRefines, PTL DEF Spec, RefinesFirstMatch, Abstract!Spec

(* -------------------------- what the report says -------------------------- *)

\* A single range stands for its numbers.
LEMMA SingleDenotes ==
    ASSUME NEW r, NEW n
    PROVE  n \in Denotes(<<r>>) <=> n \in r[1]..r[2]
<1> DEFINE s == <<r>>
<1>1. DOMAIN s = {1} /\ s[1] = r
  OBVIOUS
<1> HIDE DEF s
<1>2. n \in Denotes(s) <=> \E i \in DOMAIN s : n \in s[i][1]..s[i][2]
  BY Denoted
<1>3. n \in Denotes(s) <=> n \in s[1][1]..s[1][2]
  BY <1>1, <1>2, Zenon
<1> QED BY <1>1, <1>3 DEF s

\* The result lists every port that is not open once, at the first hop without it.
LEMMA ResultIsRight == PInv => StoppedOnce
<1> SUFFICES ASSUME PInv, result.done, open # <<>>, NEW q \in Proto, NEW n \in 1..MaxPort
             PROVE  LET stops == {i \in DOMAIN open : n \notin Denotes(open[i][q])}
                        listed == {k \in DOMAIN result.limits[q] :
                                      n \in Denotes(<<result.limits[q][k].range>>)}
                    IN /\ n \in Denotes(result.ports[q]) <=> stops = {}
                       /\ IF stops = {} THEN listed = {}
                          ELSE \E k \in listed : /\ listed = {k}
                                                 /\ result.limits[q][k].hop \in stops
                                                 /\ \A i \in stops : result.limits[q][k].hop <= i
  BY DEF StoppedOnce
<1> DEFINE limits == result.limits[q]
           stops == {i \in DOMAIN open : n \notin Denotes(open[i][q])}
           first == {j \in 1..Len(open) : n \notin Denotes(open[j][q])}
           listed == {k \in DOMAIN limits : n \in Denotes(<<limits[k].range>>)}
           within == {k \in DOMAIN limits : n \in limits[k].range[1]..limits[k].range[2]}
<1>1. open \in Seq(Lists) /\ result.ports = Combine(open).ports /\ result.limits = Combine(open).limits
  BY DEF PInv, ResultInv
<1>2. OpenTo(result.ports[q], q, open, Len(open)) /\ ListedOnce(limits, q, open, Len(open))
  BY <1>1, CombineIs
<1>3. stops = first
  BY <1>1
<1>4. listed = within
  <2>1. \A k : n \in Denotes(<<limits[k].range>>) <=> n \in limits[k].range[1]..limits[k].range[2]
    BY SingleDenotes, SMTT(60)
  <2> HIDE DEF limits
  <2> QED BY <2>1, Zenon
<1>5. n \in Denotes(result.ports[q]) <=> first = {}
  BY <1>2 DEF OpenTo
<1>6. IF first = {} THEN within = {}
      ELSE \E k \in within : /\ within = {k} /\ limits[k].hop \in first
                             /\ \A j \in first : limits[k].hop <= j
  BY <1>2 DEF ListedOnce
<1> HIDE DEF stops, first, listed, within, limits
<1>7. /\ n \in Denotes(result.ports[q]) <=> stops = {}
      /\ IF stops = {} THEN listed = {}
         ELSE \E k \in listed : /\ listed = {k} /\ limits[k].hop \in stops
                                /\ \A j \in stops : limits[k].hop <= j
  BY <1>3, <1>4, <1>5, <1>6
<1> QED BY <1>7 DEF stops, listed, limits

\* The policies that fit the flow by address alone.
ByAddressAlone(h) == {i \in DOMAIN h.policies : h.policies[i].enabled /\ ByAddress(h.policies[i])}
ByInterface(h) == {i \in DOMAIN h.policies : Candidate(h.policies[i], h, h.zones)}

\* If the addresses find no policy the interfaces rule out, those that fit by address are
\* among the ones the interfaces leave: an id names one policy.
LEMMA NoneRuledOut ==
    ASSUME NEW w \in Paths, NEW i \in 1..Len(w), ~FlowPolicies(w[i]).widened
    PROVE  /\ FlowPolicies(w[i]).policies = Selected(w[i].policies, ByInterface(w[i]))
           /\ ByAddressAlone(w[i]) \subseteq ByInterface(w[i])
<1> DEFINE h == w[i]
           ps == h.policies
           C == ByInterface(h)
           W == ByAddressAlone(h)
           strict == Selected(ps, C)
           wide == Selected(ps, W)
<1>1. h \in ToSet(w) /\ ps \in Seq(Policies)
  BY FlowType
<1>2. \A j, k \in DOMAIN ps : ps[j].id = ps[k].id => j = k
  BY <1>1, PathAssumption
<1>3. FlowPolicies(h) = [policies |-> IF Widens(strict, wide) THEN wide ELSE strict,
                         widened |-> Widens(strict, wide)]
  BY DEF FlowPolicies, CandidatePolicies, ByInterface, ByAddressAlone
<1>4. ~Widens(strict, wide) /\ FlowPolicies(h).policies = strict
  BY <1>3
<1>5. C \subseteq DOMAIN ps /\ W \subseteq DOMAIN ps /\ DOMAIN ps = 1..Len(ps)
  BY <1>1 DEF ByInterface, ByAddressAlone
<1> HIDE DEF h, C, W
<1>6. strict \in Seq(Policies) /\ Holds(strict, ps, C, Len(ps))
      /\ wide \in Seq(Policies) /\ Holds(wide, ps, W, Len(ps))
  BY <1>1, SelectedIs
<1> HIDE DEF strict, wide, ps
<1>7. ASSUME NEW x \in W PROVE x \in C
  <2>1. PICK k \in 1..Len(wide) : wide[k] = ps[x]
    BY <1>5, <1>6 DEF Holds
  <2>2. ps[x].id \in Ids(wide)
    BY <1>6, <2>1 DEF Ids, ToSet
  <2>3. ps[x].id \in Ids(strict)
    BY <1>4, <2>2 DEF Widens
  <2>4. PICK l \in 1..Len(strict) : strict[l].id = ps[x].id
    <3>1. PICK p \in ToSet(strict) : p.id = ps[x].id
      BY <2>3 DEF Ids
    <3>2. PICK l \in DOMAIN strict : strict[l] = p
      BY <1>6, Elements
    <3> QED BY <1>6, <3>1, <3>2
  <2>5. PICK y \in C : strict[l] = ps[y]
    BY <1>6, <2>4 DEF Holds
  <2>6. x \in DOMAIN ps /\ y \in DOMAIN ps
    BY <1>5, <1>7, <2>5
  <2> QED BY <1>2, <2>4, <2>5, <2>6
<1> QED BY <1>4, <1>7 DEF strict, ps, h, C, W

\* A policy the inventory's zones leave to an interface is left to it by the device's.
LEMMA ZonesOnlyRuleOut ==
    ASSUME NEW w \in Paths, NEW i \in 1..Len(w), NEW p, Candidate(p, w[i], w[i].zones)
    PROVE  Candidate(p, w[i], w[i].real)
<1> DEFINE h == w[i]
<1>1. h \in ToSet(w)
  BY FlowType
<1>2. Lags(h.zones, h.real) /\ IsFiniteSet(DOMAIN h.real.device) /\ IsFiniteSet(DOMAIN h.real.local)
  BY <1>1, PathAssumption DEF Lags
<1> HIDE DEF h
<1>3. \A intf : ZonesOf(h.zones, intf) \subseteq ZonesOf(h.real, intf)
  BY <1>2, ZonesOfGrow
<1>4. Candidate(p, h, h.zones)
  BY DEF h
<1>5. Candidate(p, h, h.real)
  BY <1>3, <1>4 DEF Candidate, Pinned
<1> QED BY <1>5 DEF h

\* Without widening, the policies that fit are those that fit by address alone.
LEMMA FittingIs ==
    ASSUME NEW w \in Paths, NEW i \in 1..Len(w), ~FlowPolicies(w[i]).widened
    PROVE  Fitting(w[i]) = ByAddressAlone(w[i])
<1>1. \A p : Candidate(p, w[i], w[i].real) => p.enabled
  BY DEF Candidate
<1>2. Fitting(w[i]) \subseteq ByAddressAlone(w[i])
  BY <1>1 DEF Fitting, ByAddressAlone
<1>3. ASSUME NEW x \in ByAddressAlone(w[i]) PROVE x \in Fitting(w[i])
  <2>1. x \in ByInterface(w[i])
    BY NoneRuledOut
  <2>2. Candidate(w[i].policies[x], w[i], w[i].real)
    BY <2>1, ZonesOnlyRuleOut DEF ByInterface
  <2> QED BY <2>2 DEF Fitting, ByAddressAlone
<1> QED BY <1>2, <1>3

\* The first policy at the positions S that covers a port accepts it.
AcceptsFirst(ps, S, p) ==
    \E x \in S : /\ ps[x].accept /\ p \in Covers(ps[x])
                 /\ \A y \in S : y < x => p \notin Covers(ps[y])

\* Among the policies the interfaces leave, the first that covers a port is the first that
\* fits and covers it.
LEMMA FirstOfSelected ==
    ASSUME NEW ps \in Seq(Policies), NEW C, C \subseteq DOMAIN ps, NEW F, F \subseteq C,
           \A x \in C : ByAddress(ps[x]) => x \in F,
           NEW p
    PROVE  AcceptsFirst(Selected(ps, C), DOMAIN Selected(ps, C), p) <=> AcceptsFirst(ps, F, p)
<1> DEFINE t == Selected(ps, C)
           n == Len(t)
<1>1. t \in Seq(Policies) /\ Holds(t, ps, C, Len(ps))
  BY SelectedIs
<1> HIDE DEF t
<1>2. n \in Nat /\ DOMAIN t = 1..n /\ DOMAIN ps = 1..Len(ps)
  BY <1>1
<1>3. PICK g \in [1..n -> C \cap (1..Len(ps))] :
          /\ \A k \in 1..n : t[k] = ps[g[k]]
          /\ \A j, k \in 1..n : j < k => g[j] < g[k]
          /\ \A x \in C \cap (1..Len(ps)) : \E k \in 1..n : g[k] = x
  BY <1>1 DEF Holds
<1>4. \A k \in 1..n : g[k] \in C /\ g[k] \in Int /\ t[k] = ps[g[k]]
  BY <1>3
<1>5. \A j, k \in 1..n : j < k => g[j] < g[k]
  BY <1>3
<1>6. \A x \in C : \E k \in 1..n : g[k] = x
  BY <1>2, <1>3
<1>7. \A k \in 1..n : p \in Covers(t[k]) => g[k] \in F
  BY <1>4 DEF Covers
<1> HIDE DEF n
<1>8. \A k, l \in 1..n : g[l] < g[k] => l < k
  <2> TAKE k, l \in 1..n
  <2> HAVE g[l] < g[k]
  <2>1. ~(k < l) /\ k # l
    BY <1>4, <1>5
  <2> QED BY <2>1
<1>9. ASSUME NEW k \in 1..n, p \in Covers(t[k]), t[k].accept,
             \A l \in 1..n : l < k => p \notin Covers(t[l])
      PROVE  AcceptsFirst(ps, F, p)
  <2>1. g[k] \in F /\ t[k] = ps[g[k]]
    BY <1>4, <1>7, <1>9
  <2>2. ASSUME NEW y \in F, y < g[k] PROVE p \notin Covers(ps[y])
    <3>1. PICK l \in 1..n : g[l] = y
      BY <1>6
    <3>2. l < k
      BY <1>8, <2>2, <3>1
    <3> QED BY <1>4, <1>9, <3>1, <3>2
  <2> QED BY <1>9, <2>1, <2>2 DEF AcceptsFirst
<1>10. ASSUME NEW x \in F, ps[x].accept, p \in Covers(ps[x]), \A y \in F : y < x => p \notin Covers(ps[y])
       PROVE  AcceptsFirst(t, 1..n, p)
  <2>1. PICK k \in 1..n : g[k] = x
    BY <1>6
  <2>2. ASSUME NEW l \in 1..n, l < k PROVE p \notin Covers(t[l])
    <3>1. g[l] < x
      BY <1>5, <2>1, <2>2
    <3>2. g[l] \in F => p \notin Covers(ps[g[l]])
      BY <1>10, <3>1
    <3> QED BY <1>4, <1>7, <3>2
  <2> QED BY <1>4, <1>10, <2>1, <2>2 DEF AcceptsFirst
<1>11. AcceptsFirst(t, 1..n, p) <=> AcceptsFirst(ps, F, p)
  BY <1>9, <1>10 DEF AcceptsFirst
<1> QED BY <1>2, <1>11 DEF t, n

\* On a hop that is through without widening, the first match over the policies the
\* interfaces leave is the answer of the device.
LEMMA HopIsRight == PInv /\ Abstract!Right => StrictIsLive
<1> SUFFICES ASSUME PInv, Abstract!Right, at > 0, HopThrough, ~widened
             PROVE  Pairs(allowed) = LivePorts(path[at])
  BY DEF StrictIsLive
<1> DEFINE h == path[at]
           ps == h.policies
           C == ByInterface(h)
           F == Fitting(h)
<1>1. path \in Paths /\ at \in 1..Len(path) /\ policies \in Seq(Policies)
      /\ policies = FlowPolicies(h).policies /\ ~FlowPolicies(h).widened
  <2>1. Len(path) \in Nat
    BY PathAssumption DEF PInv, HopInv
  <2> QED BY <2>1 DEF PInv, HopInv
<1>2. ps \in Seq(Policies)
  BY <1>1, FlowType
<1>3. policies = Selected(ps, C) /\ ByAddressAlone(h) \subseteq C
  BY <1>1, NoneRuledOut
<1>4. F = ByAddressAlone(h)
  BY <1>1, FittingIs
<1>5. C \subseteq DOMAIN ps
  BY DEF ByInterface
<1>6. \A x \in C : ByAddress(ps[x]) => x \in F
  BY <1>4 DEF ByInterface, ByAddressAlone, Candidate
<1>7. AsRules \in Seq(Abstract!Rule) /\ Len(AsRules) = Len(policies)
  BY <1>1, AsRulesType DEF AsRules
<1>8. Pairs(allowed) = {p \in Port : Abstract!Accepted(AsRules, p)}
  <2>1. rule > Len(AsRules) \/ Pairs(undecided) = {}
    BY <1>7, PairsEnds DEF HopThrough, Decided
  <2> QED BY <2>1 DEF Abstract!Right, Abstract!Through
<1>9. DOMAIN AsRules = DOMAIN policies /\ DOMAIN policies = 1..Len(policies) /\ Len(policies) \in Nat
      /\ \A k \in DOMAIN policies : AsRules[k].covers = Covers(policies[k])
                                   /\ AsRules[k].accept = policies[k].accept
  BY <1>1 DEF AsRules
<1>10. \A k \in DOMAIN policies : \A l : l \in 1..k - 1 <=> l \in DOMAIN policies /\ l < k
  BY <1>9
<1>11. \A p : Abstract!Accepted(AsRules, p) <=> AcceptsFirst(policies, DOMAIN policies, p)
  BY <1>9, <1>10 DEF Abstract!Accepted, Abstract!Decides, AcceptsFirst
<1>12. \A p : p \in LivePorts(h) <=> p \in Port /\ AcceptsFirst(ps, F, p)
  BY DEF LivePorts, AcceptsFirst
<1> HIDE DEF h, C, F, ps
<1>13. \A p : AcceptsFirst(policies, DOMAIN policies, p) <=> AcceptsFirst(ps, F, p)
  <2>1. F \subseteq C
    BY <1>3, <1>4
  <2> QED BY <1>2, <1>3, <1>5, <1>6, <2>1, FirstOfSelected
<1>14. Pairs(allowed) = LivePorts(h)
  <2>1. LivePorts(h) \subseteq Port
    BY <1>12
  <2> QED BY <1>8, <1>11, <1>12, <1>13, <2>1
<1> QED BY <1>14 DEF h

\* What the report says of a port is true.  Of one hop: unless flow_policies fell back to
\* the addresses, the ports are those the device itself would let through, although the
\* inventory may lack some of its zones.  Of the path: combine leaves the ports all hops
\* let through, and names for every other port the first hop that stops it, once.
THEOREM PortsAreTrue == Spec => []PortsTrue
<1>1. Spec => []PInv
  BY InitPInv, NextKeeps, PTL DEF Spec
<1>2. Spec => []Abstract!Right
  BY RefinesSets, FirstMatchRight DEF RefinesFirstMatch
<1>3. PInv /\ Abstract!Right => PortsTrue
  BY HopIsRight, ResultIsRight DEF PortsTrue
<1> QED
  BY <1>1, <1>2, <1>3, PTL
===============================================================================
