----------------------------- MODULE Drawings_proofs -----------------------------
(***************************************************************************)
(* Every drawing (Drawings, Sheets) lies apart, whatever it is drawn of.   *)
(* Tidy says of one frame what DrawnApart says of all: what is measured    *)
(* has room for what is drawn.  From the helpers (Max, Total, From, Pack)  *)
(* by way of columns, rows and grids of boxes to each kind of drawing, in  *)
(* the order of the models: structure, family, segments, VLAN page,        *)
(* logical plan, LLDP topology.  The theorem is BoxesLieApart, in          *)
(* Requests_proofs.                                                        *)
(***************************************************************************)
EXTENDS Sheets, FiniteSetTheorems, SequenceTheorems, WellFoundedInduction, TLAPS

\* A set of numbers that is not empty has a least one.
LEMMA LeastOf ==
    ASSUME NEW T, T \subseteq Nat, T # {}
    PROVE  \E x \in T : \A y \in T : x <= y
<1> DEFINE R == {ss \in Nat \X Nat : ss[1] < ss[2]}
<1>1. IsWellFoundedOn(R, Nat)
  BY NatLessThanWellFounded DEF OpToRel
<1>2. PICK x \in T : \A y \in T : ~ (<<y, x>> \in R)
  <2> HIDE DEF R
  <2> QED BY <1>1, WFMin
<1>3. \A y \in T : ~ (y < x)
  BY <1>2
<1> QED BY <1>3, <1>2

\* Counting up to n: what holds of 0 and of the next holds of n.
LEMMA UpTo ==
    ASSUME NEW n \in Nat, NEW T, 0 \in T, \A m \in 0..n : m \in T /\ m < n => m + 1 \in T
    PROVE  n \in T
<1> DEFINE bad == {m \in 0..n : m \notin T}
<1> SUFFICES ASSUME n \notin T PROVE FALSE
  OBVIOUS
<1>1. PICK m \in bad : \A k \in bad : m <= k
  <2>1. bad \subseteq Nat /\ bad # {}
    OBVIOUS
  <2> HIDE DEF bad
  <2> QED BY <2>1, LeastOf
<1>2. m # 0 /\ m \in 0..n /\ m \notin T
  OBVIOUS
<1>3. m - 1 \in 0..n /\ m - 1 < n /\ m - 1 \notin bad
  BY <1>1, <1>2
<1> QED BY <1>2, <1>3

\* A loop over a..b has a result at each n: the one before it and one step.
IsLoop(f, a, b, s0, step) == f[a] = s0 /\ \A n \in (a+1)..b : f[n] = step[<<f[n-1], n>>]
\* So each loop over a..b has a result.
LEMMA Loop ==
    ASSUME NEW a \in Int, NEW b \in Int, a <= b, NEW S, NEW s0 \in S, NEW step \in [S \X (a..b) -> S]
    PROVE  \E f \in [a..b -> S] : IsLoop(f, a, b, s0, step)
<1> DEFINE Runs(m) == \E f \in [a..(a+m) -> S] : f[a] = s0 /\ \A n \in (a+1)..(a+m) : f[n] = step[<<f[n-1], n>>]
           T == {m \in 0..(b-a) : Runs(m)}
<1>1. Runs(0)
  <2>1. [n \in a..a |-> s0] \in [a..a -> S] /\ [n \in a..a |-> s0][a] = s0 /\ (a+1)..a = {} /\ a + 0 = a
    OBVIOUS
  <2> QED BY <2>1
<1>2. ASSUME NEW m \in 0..(b-a), m < b - a, Runs(m) PROVE Runs(m + 1)
  <2>1. PICK f \in [a..(a+m) -> S] : f[a] = s0 /\ \A n \in (a+1)..(a+m) : f[n] = step[<<f[n-1], n>>]
    BY <1>2
  <2>2. f[a+m] \in S /\ a+m+1 \in a..b
    BY <1>2
  <2>3. step[<<f[a+m], a+m+1>>] \in S
    BY <2>2
  <2> DEFINE g == [n \in a..(a+m+1) |-> IF n <= a+m THEN f[n] ELSE step[<<f[a+m], a+m+1>>]]
  <2>4. g \in [a..(a+m+1) -> S]
    <3>1. \A n \in a..(a+m+1) : n <= a+m => n \in a..(a+m)
      OBVIOUS
    <3> QED BY <3>1, <2>3
  <2>5. g[a] = s0
    BY <2>1
  <2>6. ASSUME NEW n \in (a+1)..(a+m+1) PROVE g[n] = step[<<g[n-1], n>>]
    <3>1. CASE n <= a+m
      <4>1. n \in (a+1)..(a+m) /\ g[n] = f[n] /\ g[n-1] = f[n-1]
        BY <3>1
      <4> QED BY <4>1, <2>1
    <3>2. CASE n = a+m+1
      <4>1. g[n] = step[<<f[a+m], a+m+1>>] /\ g[n-1] = f[a+m]
        BY <3>2
      <4> QED BY <4>1, <3>2
    <3> QED BY <3>1, <3>2
  <2> HIDE DEF g
  <2>7. a + (m + 1) = a+m+1
    OBVIOUS
  <2> QED BY <2>4, <2>5, <2>6, <2>7
<1> HIDE DEF Runs
<1>3. b - a \in T
  <2>1. 0 \in T /\ b - a \in Nat /\ \A m \in 0..(b-a) : m \in T /\ m < b - a => m + 1 \in T
    BY <1>1, <1>2
  <2> HIDE DEF T
  <2> QED BY <2>1, UpTo
<1>4. Runs(b - a) /\ a + (b - a) = b
  BY <1>3
<1> QED BY <1>4 DEF Runs, IsLoop

(* --------------------------------- sequences --------------------------------- *)

\* A function of the first n numbers is a sequence of length n.
LEMMA FunctionIsSeq ==
    ASSUME NEW n \in Nat, NEW S, NEW f \in [1..n -> S]
    PROVE  f \in Seq(S) /\ Len(f) = n /\ DOMAIN f = 1..n
<1>1. f \in Seq(S)
  BY SeqDef
<1>2. Len(f) \in Nat /\ DOMAIN f = 1..Len(f) /\ DOMAIN f = 1..n
  BY <1>1, LenProperties
<1>3. Len(f) = n
  BY <1>2
<1> QED BY <1>1, <1>2, <1>3

\* A finite set of numbers has a largest one.
LEMMA MaxIs ==
    ASSUME NEW S, IsFiniteSet(S), S \subseteq Int, S # {}
    PROVE  Max(S) \in S /\ \A x \in S : x <= Max(S)
<1>0. PICK n \in Nat : \E f \in [1..n -> S] : \A s \in S : \E k \in 1..n : f[k] = s
  BY FS_NatSurjection DEF Surjection, ExistsSurjection
<1>1. PICK f \in [1..n -> S] : \A s \in S : \E k \in 1..n : f[k] = s
  BY <1>0
<1> DEFINE Top(m) == \E x \in S : \A k \in 1..m : f[k] <= x
           T == {m \in 0..n : Top(m)}
<1>2. Top(0)
  <2>1. \A k : k \notin 1..0
    OBVIOUS
  <2> QED BY <2>1
<1>3. ASSUME NEW m \in 0..n, m < n, Top(m) PROVE Top(m + 1)
  <2>1. PICK x \in S : \A k \in 1..m : f[k] <= x
    BY <1>3
  <2>2. m + 1 \in 1..n /\ \A k \in 1..m + 1 : k \in 1..m \/ k = m + 1
    BY <1>3
  <2>3. f[m + 1] \in S /\ f[m + 1] \in Int /\ x \in Int
    BY <2>2
  <2>4. CASE f[m + 1] <= x
    BY <2>1, <2>2, <2>4
  <2>5. CASE ~(f[m + 1] <= x)
    <3>1. \A k \in 1..m : f[k] \in Int
      <4>1. \A k \in 1..m : k \in 1..n
        OBVIOUS
      <4> QED BY <4>1
    <3>2. \A k \in 1..m + 1 : f[k] <= f[m + 1]
      BY <2>1, <2>2, <2>3, <2>5, <3>1
    <3> QED BY <2>3, <3>2
  <2> QED BY <2>4, <2>5
<1> HIDE DEF Top
<1>4. n \in T
  <2>1. 0 \in T /\ \A m \in 0..n : m \in T /\ m < n => m + 1 \in T
    BY <1>2, <1>3
  <2> HIDE DEF T
  <2> QED BY <2>1, UpTo
<1>5. PICK x \in S : \A y \in S : y <= x
  <2>1. PICK x \in S : \A k \in 1..n : f[k] <= x
    BY <1>4 DEF Top
  <2> QED BY <1>1, <2>1
<1>6. x >= x /\ \A y \in S : x >= y
  BY <1>5
<1> QED BY <1>5, <1>6 DEF Max

\* What a function gives for finitely many arguments is finite.
LEMMA ImageFinite ==
    ASSUME NEW S, IsFiniteSet(S), NEW f
    PROVE  IsFiniteSet({f[x] : x \in S}) /\ Cardinality({f[x] : x \in S}) <= Cardinality(S)
<1> DEFINE g == [x \in S |-> f[x]]
           T == {f[x] : x \in S}
<1>1. g \in Surjection(S, T)
  BY DEF Surjection
<1> HIDE DEF g
<1>2. IsFiniteSet(T) /\ Cardinality(T) <= Cardinality(S)
  <2> HIDE DEF T
  <2> QED BY <1>1, FS_Surjection
<1> QED BY <1>2

\* What a sequence holds is finite.
LEMMA ElementsFinite ==
    ASSUME NEW S, NEW s \in Seq(S)
    PROVE  IsFiniteSet(Elements(s)) /\ Elements(s) \subseteq S
<1>1. Len(s) \in Nat /\ DOMAIN s = 1..Len(s) /\ \A i \in DOMAIN s : s[i] \in S
  BY LenProperties
<1>2. IsFiniteSet(1..Len(s))
  BY <1>1, FS_Interval
<1>3. Elements(s) = {s[i] : i \in 1..Len(s)}
  BY <1>1 DEF Elements
<1>4. IsFiniteSet({s[i] : i \in 1..Len(s)})
  BY <1>2, ImageFinite
<1>5. Elements(s) \subseteq S
  BY <1>1 DEF Elements
<1> QED BY <1>3, <1>4, <1>5

\* Largest is reached and is exceeded by nothing.
LEMMA LargestIs ==
    ASSUME NEW s \in Seq(Int), NEW least \in Int
    PROVE  /\ Largest(s, least) \in Int /\ least <= Largest(s, least)
           /\ \A i \in DOMAIN s : s[i] <= Largest(s, least)
           /\ Largest(s, least) = least \/ \E i \in DOMAIN s : Largest(s, least) = s[i]
<1> DEFINE S == {least} \cup Elements(s)
<1>1. IsFiniteSet(S) /\ S \subseteq Int /\ S # {} /\ least \in S
  <2>1. IsFiniteSet(Elements(s)) /\ Elements(s) \subseteq Int
    BY ElementsFinite
  <2> QED BY <2>1, FS_Singleton, FS_Union
<1>2. \A i \in DOMAIN s : s[i] \in S
  BY DEF Elements
<1>3. \A x \in S : x = least \/ \E i \in DOMAIN s : x = s[i]
  BY DEF Elements
<1> HIDE DEF S
<1>4. Max(S) \in S /\ \A x \in S : x <= Max(S)
  BY <1>1, MaxIs
<1> QED BY <1>1, <1>2, <1>3, <1>4 DEF Largest, S

\* Where boxes begin: the first at nought, each at the end of the one before and a gap.
LEMMA FromIs ==
    ASSUME NEW lens \in Seq(Nat), NEW gap \in Nat
    PROVE  /\ From(lens, gap, 1) = 0
           /\ \A i \in 1..Len(lens) : From(lens, gap, i + 1) = From(lens, gap, i) + lens[i] + gap
           /\ \A i \in 1..Len(lens) + 1 : From(lens, gap, i) \in Nat
<1> DEFINE n == Len(lens)
           Eq(u) == u = [k \in 1..n + 1 |-> IF k = 1 THEN 0 ELSE u[k - 1] + lens[k - 1] + gap]
           at == CHOOSE u : Eq(u)
           long(k) == IF k \in 1..n THEN lens[k] ELSE 0
           step == [u \in Nat \X (1..n + 1) |-> u[1] + long(u[2] - 1) + gap]
<1>1. n \in Nat /\ \A k \in 1..n : lens[k] \in Nat
  BY LenProperties
<1>2. \A i : From(lens, gap, i) = at[i]
  BY DEF From
<1> HIDE DEF n
<1>3. PICK f \in [1..n + 1 -> Nat] : IsLoop(f, 1, n + 1, 0, step)
  <2>1. \A u \in Nat \X (1..n + 1) : u[1] + long(u[2] - 1) + gap \in Nat
    <3> TAKE u \in Nat \X (1..n + 1)
    <3>1. u[1] \in Nat /\ long(u[2] - 1) \in Nat
      BY <1>1
    <3> QED BY <3>1, SMTT(60)
  <2> HIDE DEF long
  <2>2. step \in [Nat \X (1..n + 1) -> Nat]
    BY <2>1
  <2>3. 1 \in Int /\ n + 1 \in Int /\ 1 <= n + 1 /\ 0 \in Nat
    BY <1>1
  <2> HIDE DEF step
  <2> QED BY <2>2, <2>3, Loop
<1>4. Eq(f)
  <2>1. ASSUME NEW k \in 1..n + 1, k # 1 PROVE f[k] = f[k - 1] + lens[k - 1] + gap
    <3>1. k \in 1 + 1..n + 1 /\ k - 1 \in 1..n /\ k - 1 \in 1..n + 1
      BY <1>1, <2>1
    <3>2. f[k] = step[<<f[k - 1], k>>] /\ f[k - 1] \in Nat
      BY <1>3, <3>1 DEF IsLoop
    <3>3. long(k - 1) = lens[k - 1]
      BY <3>1
    <3> HIDE DEF long
    <3> QED BY <3>2, <3>3
  <2>2. f[1] = 0
    BY <1>3 DEF IsLoop
  <2> QED BY <1>3, <2>1, <2>2
<1> HIDE DEF Eq
<1>5. Eq(at)
  BY <1>4
<1> HIDE DEF at
<1>6. at[1] = 0 /\ \A k \in 1..n : at[k + 1] = at[k] + lens[k] + gap
  <2>1. \A k \in 1..n + 1 : at[k] = IF k = 1 THEN 0 ELSE at[k - 1] + lens[k - 1] + gap
    BY <1>5, Zenon DEF Eq
  <2>2. 1 \in 1..n + 1 /\ \A k \in 1..n : k + 1 \in 1..n + 1 /\ k + 1 # 1 /\ (k + 1) - 1 = k
    BY <1>1
  <2>3. ASSUME NEW k \in 1..n PROVE at[k + 1] = at[k] + lens[k] + gap
    <3>1. at[k + 1] = at[(k + 1) - 1] + lens[(k + 1) - 1] + gap
      BY <2>1, <2>2
    <3> QED BY <2>2, <3>1
  <2> QED BY <2>1, <2>2, <2>3
<1> DEFINE T == {m \in 0..n : at[m + 1] \in Nat}
<1>7. ASSUME NEW m \in 0..n PROVE m \in T
  <2>1. 0 \in T
    BY <1>1, <1>6
  <2>2. ASSUME NEW k \in 0..m, k \in T, k < m PROVE k + 1 \in T
    <3>1. k + 1 \in 1..n /\ k + 1 \in 0..n
      BY <1>1, <2>2
    <3>2. at[(k + 1) + 1] = at[k + 1] + lens[k + 1] + gap /\ lens[k + 1] \in Nat /\ at[k + 1] \in Nat
      BY <1>1, <1>6, <2>2, <3>1
    <3> QED BY <3>1, <3>2
  <2>3. m \in Nat
    BY <1>1
  <2> HIDE DEF T
  <2> QED BY <2>1, <2>2, <2>3, UpTo
<1>8. ASSUME NEW i \in 1..n + 1 PROVE at[i] \in Nat
  <2>1. i - 1 \in 0..n /\ (i - 1) + 1 = i
    BY <1>1
  <2>2. at[(i - 1) + 1] \in Nat
    BY <1>7, <2>1
  <2> QED BY <2>1, <2>2
<1> QED BY <1>2, <1>6, <1>8 DEF n

\* What is added to a larger number keeps it larger.
LEMMA Farther == ASSUME NEW a \in Nat, NEW b \in Nat, NEW c \in Nat, NEW d \in Nat, a <= b PROVE a <= b + c + d
OBVIOUS

\* A box ends, with its gap, before any later one begins.
LEMMA FromGrows ==
    ASSUME NEW lens \in Seq(Nat), NEW gap \in Nat, NEW i \in 1..Len(lens), NEW j \in 1..Len(lens) + 1, i < j
    PROVE  From(lens, gap, i) + lens[i] + gap <= From(lens, gap, j)
<1> DEFINE at(k) == From(lens, gap, k)
           n == Len(lens)
           T == {m \in 0..j - (i + 1) : at(i + 1) <= at(i + 1 + m)}
<1>1. n \in Nat /\ \A k \in 1..n : lens[k] \in Nat /\ at(k + 1) = at(k) + lens[k] + gap
  BY FromIs, LenProperties
<1>2. \A k \in 1..n + 1 : at(k) \in Nat
  BY FromIs
<1>3. i \in 1..n /\ j \in 1..n + 1 /\ i < j
  OBVIOUS
<1> HIDE DEF at, n
<1>4. j - (i + 1) \in Nat /\ i + 1 \in 1..n + 1
  BY <1>1, <1>3
<1>5. 0 \in T
  <2>1. i + 1 + 0 = i + 1 /\ at(i + 1) <= at(i + 1)
    BY <1>1, <1>2, <1>3, <1>4
  <2> QED BY <1>4, <2>1
<1>6. ASSUME NEW m \in 0..j - (i + 1), m \in T, m < j - (i + 1) PROVE m + 1 \in T
  <2>1. i + 1 + m \in 1..n /\ i + 1 + m \in 1..n + 1 /\ i + 1 + (m + 1) = (i + 1 + m) + 1 /\ i + 1 + (m + 1) \in 1..n + 1
        /\ m + 1 \in 0..j - (i + 1)
    BY <1>1, <1>3, <1>4, <1>6
  <2>2. at((i + 1 + m) + 1) = at(i + 1 + m) + lens[i + 1 + m] + gap /\ lens[i + 1 + m] \in Nat
    BY <1>1, <2>1
  <2>3. at(i + 1) \in Nat /\ at(i + 1 + m) \in Nat /\ at(i + 1) <= at(i + 1 + m)
    BY <1>2, <1>4, <1>6, <2>1
  <2>4. at(i + 1) <= at(i + 1 + m) + lens[i + 1 + m] + gap
    BY <2>2, <2>3, Farther
  <2>5. at(i + 1) <= at(i + 1 + (m + 1))
    BY <2>1, <2>2, <2>4
  <2> QED BY <2>1, <2>5
<1> HIDE DEF T
<1>7. j - (i + 1) \in T
  BY <1>4, <1>5, <1>6, UpTo
<1>8. at(i + 1) <= at(i + 1 + (j - (i + 1))) /\ i + 1 + (j - (i + 1)) = j
  BY <1>3, <1>7 DEF T
<1>9. at(i + 1) = at(i) + lens[i] + gap
  BY <1>1, <1>3
<1> QED BY <1>8, <1>9 DEF at

\* Each box ends within the length of all.
LEMMA ExtentIs ==
    ASSUME NEW lens \in Seq(Nat), NEW gap \in Nat
    PROVE  /\ Extent(lens, gap) \in Nat
           /\ \A i \in 1..Len(lens) : From(lens, gap, i) + lens[i] <= Extent(lens, gap)
<1>1. Len(lens) \in Nat /\ \A i \in 1..Len(lens) : lens[i] \in Nat
  BY LenProperties
<1>2. CASE lens = <<>>
  <2>1. 1..Len(lens) = {}
    BY <1>2
  <2> QED BY <1>2, <2>1 DEF Extent
<1>3. CASE lens # <<>>
  <2> DEFINE all == From(lens, gap, Len(lens) + 1)
  <2>1. Extent(lens, gap) = all - gap
    BY <1>3 DEF Extent
  <2>2. Len(lens) \in 1..Len(lens)
    <3>1. Len(lens) # 0
      BY <1>3, EmptySeq
    <3> QED BY <1>1, <3>1
  <2>3. \A i \in 1..Len(lens) : From(lens, gap, i) \in Nat /\ From(lens, gap, i) + lens[i] + gap <= all
    <3> TAKE i \in 1..Len(lens)
    <3>1. Len(lens) + 1 \in 1..Len(lens) + 1 /\ i < Len(lens) + 1 /\ i \in 1..Len(lens) + 1
      BY <1>1
    <3> QED BY <3>1, FromIs, FromGrows
  <2>4. all \in Nat
    <3>1. Len(lens) + 1 \in 1..Len(lens) + 1
      BY <1>1
    <3> QED BY <3>1, FromIs
  <2> HIDE DEF all
  <2>5. \A i \in 1..Len(lens) : From(lens, gap, i) + lens[i] <= all - gap
    BY <1>1, <2>3, <2>4
  <2>6. all - gap \in Nat
    BY <1>1, <2>2, <2>3, <2>4
  <2> QED BY <2>1, <2>5, <2>6
<1> QED BY <1>2, <1>3

(* ------------------------------------ rows ------------------------------------ *)

\* A factor that both sides have does not change their order.
LEMMA Cancel == ASSUME NEW a \in Int, NEW b \in Int, NEW c \in Nat \ {0}, a * c < b * c PROVE a < b
<1> SUFFICES ASSUME b <= a PROVE FALSE
  OBVIOUS
<1>1. a * c = b * c + (a - b) * c /\ a - b \in Nat
  OBVIOUS
<1>2. (a - b) * c >= 0
  BY <1>1
<1>3. a * c \in Int /\ b * c \in Int /\ (a - b) * c \in Int
  OBVIOUS
<1> QED BY <1>1, <1>2, <1>3

\* The row of a place and the place within the row.
LEMMA RowOf ==
    ASSUME NEW k \in Nat, NEW c \in Nat \ {0}
    PROVE  /\ k \div c \in Nat /\ (k \div c) * c \in Nat
           /\ (k \div c) * c <= k /\ k < (k \div c) * c + c
<1>1. k \div c \in Int /\ c * (k \div c) <= k
  OBVIOUS
<1>2. k < c * (k \div c) + c
  OBVIOUS
<1>3. k \div c >= 0
  OBVIOUS
<1> DEFINE r == k \div c
<1> HIDE DEF r
<1>4. c * r = r * c /\ r * c \in Nat /\ r \in Nat
  BY <1>1, <1>3 DEF r
<1> QED BY <1>1, <1>2, <1>4 DEF r

\* There are rows enough, and no row begins after the last place.
LEMMA RowsOf ==
    ASSUME NEW n \in Nat, NEW c \in Nat \ {0}
    PROVE  /\ CeilDiv(n, c) \in Nat
           /\ \A k \in 0..n - 1 : k \div c \in Nat /\ k \div c < CeilDiv(n, c)
           /\ \A r \in Nat : r < CeilDiv(n, c) => r * c \in Nat /\ r * c + 1 <= n
           /\ n \div c <= CeilDiv(n, c)
<1> DEFINE m == n + c - 1
           rows == m \div c
<1>1. m \in Nat /\ CeilDiv(n, c) = rows
  BY DEF CeilDiv
<1>2. rows \in Nat /\ rows * c \in Nat /\ rows * c <= m /\ m < rows * c + c
  <2> HIDE DEF m
  <2> QED BY <1>1, RowOf
<1> HIDE DEF rows
<1>3. ASSUME NEW k \in 0..n - 1 PROVE k \div c \in Nat /\ k \div c < rows
  <2> DEFINE r == k \div c
  <2>1. r \in Nat /\ r * c \in Nat /\ r * c <= k
    BY RowOf
  <2> HIDE DEF r
  <2>2. r * c < rows * c
    BY <1>2, <2>1
  <2>3. r < rows
    BY <1>2, <2>1, <2>2, Cancel
  <2> QED BY <2>1, <2>3 DEF r
<1>4. ASSUME NEW r \in Nat, r < rows PROVE r * c \in Nat /\ r * c + 1 <= n
  <2>1. r + 1 <= rows /\ r * c \in Nat /\ (r + 1) * c = r * c + c
    BY <1>2, <1>4
  <2>2. (r + 1) * c <= rows * c
    <3>1. CASE r + 1 = rows
      BY <3>1, <1>2
    <3>2. CASE r + 1 < rows
      <4>1. (r + 1) * c \in Nat
        BY <2>1
      <4> SUFFICES ASSUME rows * c < (r + 1) * c PROVE FALSE
        BY <1>2, <4>1
      <4>2. rows < r + 1
        BY <1>2, Cancel
      <4> QED BY <1>2, <3>2, <4>2
    <3> QED BY <1>2, <2>1, <3>1, <3>2
  <2> QED BY <1>2, <2>1, <2>2
<1>5. n \div c <= rows
  <2> DEFINE r == n \div c
  <2>1. r \in Nat /\ r * c \in Nat /\ r * c <= n
    BY RowOf
  <2> HIDE DEF r
  <2>2. r * c < (rows + 1) * c /\ rows + 1 \in Int
    <3>1. (rows + 1) * c = rows * c + c
      BY <1>2
    <3> QED BY <1>2, <2>1, <3>1
  <2>3. r < rows + 1
    BY <2>1, <2>2, Cancel
  <2>4. r <= rows
    BY <1>2, <2>1, <2>3
  <2> QED BY <2>4 DEF r
<1> QED BY <1>1, <1>2, <1>3, <1>4, <1>5

\* Later boxes do not begin before earlier ones.
LEMMA FromRises ==
    ASSUME NEW lens \in Seq(Nat), NEW gap \in Nat, NEW i \in 1..Len(lens) + 1, NEW j \in 1..Len(lens) + 1, i <= j
    PROVE  From(lens, gap, i) <= From(lens, gap, j)
<1>1. Len(lens) \in Nat /\ \A k \in 1..Len(lens) : lens[k] \in Nat
  BY LenProperties
<1>2. From(lens, gap, i) \in Nat /\ From(lens, gap, j) \in Nat
  BY FromIs
<1>3. CASE i = j
  BY <1>2, <1>3
<1>4. CASE i < j
  <2>1. i \in 1..Len(lens) /\ lens[i] \in Nat
    BY <1>1, <1>4
  <2>2. From(lens, gap, i) + lens[i] + gap <= From(lens, gap, j)
    BY <1>4, <2>1, FromGrows
  <2> QED BY <1>2, <2>1, <2>2, SMTT(60)
<1> QED BY <1>1, <1>3, <1>4

\* A box that ends where the next begins, less the gap, counted from where its row begins.
LEMMA Fits ==
    ASSUME NEW a \in Nat, NEW b \in Nat, NEW e \in Nat, NEW w \in Nat, NEW gap \in Nat, NEW most \in Nat,
           b <= a, a + w + gap <= e, e - gap - b <= most
    PROVE  a - b \in Nat /\ (a - b) + w <= most
OBVIOUS

\* A later place is not in an earlier row.
LEMMA RowsRise ==
    ASSUME NEW a \in Nat, NEW b \in Nat, NEW c \in Nat \ {0}, a <= b
    PROVE  a \div c <= b \div c
<1> DEFINE r == a \div c
           s == b \div c
<1>1. r \in Nat /\ r * c \in Nat /\ r * c <= a /\ s \in Nat /\ s * c \in Nat /\ b < s * c + c
  BY RowOf
<1> HIDE DEF r, s
<1>2. (s + 1) * c = s * c + c
  BY <1>1
<1>3. r * c < (s + 1) * c
  BY <1>1, <1>2
<1>4. r < s + 1
  BY <1>1, <1>3, Cancel
<1> QED BY <1>1, <1>4 DEF r, s

Sizes == [w : Nat, h : Nat]

\* _pack: every box lies within the size, and no two cover each other.
LEMMA PackIs ==
    ASSUME NEW sizes \in Seq(Sizes), NEW cols \in Nat \ {0}, NEW gap \in Nat,
           NEW p, p = Pack(sizes, cols, gap)
    PROVE  /\ p.w \in Nat /\ p.h \in Nat
           /\ \A i \in 1..Len(sizes) :
                /\ p.pos[i].x \in Nat /\ p.pos[i].y \in Nat
                /\ p.pos[i].x + sizes[i].w <= p.w /\ p.pos[i].y + sizes[i].h <= p.h
                /\ \A j \in 1..Len(sizes) : i < j =>
                     p.pos[i].x + sizes[i].w <= p.pos[j].x \/ p.pos[i].y + sizes[i].h <= p.pos[j].y
<1> DEFINE n      == Len(sizes)
           row(i) == (i - 1) \div cols
           rows   == CeilDiv(n, cols)
           widths == [i \in 1..n |-> sizes[i].w]
           begin(r) == From(widths, gap, r * cols + 1)
           end(r)   == From(widths, gap, Least(n, (r + 1) * cols) + 1) - gap
           wide == [r \in 1..rows |-> end(r - 1) - begin(r - 1)]
           inRow(r) == {0} \cup {sizes[i].h : i \in {k \in 1..n : row(k) = r - 1}}
           high == [r \in 1..rows |-> Max(inRow(r))]
<1>1. n \in Nat /\ rows \in Nat /\ \A i \in 1..n : sizes[i].w \in Nat /\ sizes[i].h \in Nat
  <2>1. n \in Nat
    BY LenProperties
  <2>2. \A i \in 1..n : sizes[i] \in Sizes
    BY LenProperties
  <2>3. \A i \in 1..n : sizes[i].w \in Nat /\ sizes[i].h \in Nat
    BY <2>2 DEF Sizes
  <2>4. rows \in Nat
    <3> HIDE DEF n
    <3> QED BY <2>1, RowsOf
  <2> QED BY <2>1, <2>3, <2>4
<1>2. p = [pos |-> [i \in 1..n |-> [x |-> From(widths, gap, i) - begin(row(i)),
                                    y |-> From(high, gap, row(i) + 1)]],
           w |-> Largest(wide, 0), h |-> Extent(high, gap)]
  BY DEF Pack
<1>3. ASSUME NEW i \in 1..n
      PROVE  /\ row(i) \in 0..rows - 1 /\ row(i) + 1 \in 1..rows /\ (row(i) + 1) - 1 = row(i)
             /\ row(i) * cols \in Nat /\ row(i) * cols + 1 <= i /\ i <= (row(i) + 1) * cols
  <2>1. i - 1 \in 0..n - 1 /\ i - 1 \in Nat
    BY <1>1
  <2>2. row(i) \in Nat /\ row(i) < rows
    BY <1>1, <2>1, RowsOf
  <2>3. row(i) * cols \in Nat /\ row(i) * cols <= i - 1 /\ i - 1 < row(i) * cols + cols
    BY <2>1, RowOf
  <2> HIDE DEF row, rows
  <2>4. (row(i) + 1) * cols = row(i) * cols + cols
    BY <2>2
  <2>5. row(i) \in 0..rows - 1 /\ row(i) + 1 \in 1..rows /\ (row(i) + 1) - 1 = row(i)
    BY <1>1, <2>2
  <2> DEFINE first == row(i) * cols
             next == (row(i) + 1) * cols
  <2>6. first \in Nat /\ first <= i - 1 /\ i - 1 < first + cols /\ next = first + cols
    BY <2>3, <2>4
  <2> HIDE DEF first, next
  <2>7. first + 1 <= i /\ i <= next
    BY <2>1, <2>6
  <2> QED BY <2>5, <2>6, <2>7 DEF first, next
<1>4. ASSUME NEW r \in 1..rows
      PROVE  /\ r - 1 \in Nat /\ (r - 1) * cols + 1 \in 1..n + 1
             /\ Least(n, ((r - 1) + 1) * cols) + 1 \in 1..n + 1
  <2>1. r - 1 \in Nat /\ r - 1 < rows
    BY <1>1
  <2>2. (r - 1) * cols \in Nat /\ (r - 1) * cols + 1 <= n
    BY <1>1, <2>1, RowsOf
  <2> HIDE DEF rows, n
  <2>3. ((r - 1) + 1) * cols \in Nat
    BY <2>1
  <2> QED BY <1>1, <2>1, <2>2, <2>3 DEF Least
<1> HIDE DEF n, rows
<1>5. widths \in Seq(Nat) /\ Len(widths) = n /\ \A i \in 1..n : widths[i] = sizes[i].w
  <2>1. widths \in [1..n -> Nat]
    BY <1>1
  <2> HIDE DEF widths
  <2>2. widths \in Seq(Nat) /\ Len(widths) = n
    BY <1>1, <2>1, FunctionIsSeq
  <2> QED BY <2>2 DEF widths
<1> HIDE DEF widths
<1>6. wide \in Seq(Int) /\ \A r \in 1..rows : r \in DOMAIN wide /\ wide[r] = end(r - 1) - begin(r - 1)
  <2>1. ASSUME NEW r \in 1..rows PROVE end(r - 1) - begin(r - 1) \in Int
    <3>1. begin(r - 1) \in Nat
      BY <1>4, <1>5, FromIs
    <3>2. From(widths, gap, Least(n, ((r - 1) + 1) * cols) + 1) \in Nat
      BY <1>4, <1>5, FromIs
    <3> QED BY <3>1, <3>2
  <2> HIDE DEF begin, end
  <2>2. wide \in [1..rows -> Int]
    BY <2>1
  <2>3. wide \in Seq(Int)
    <3> HIDE DEF wide
    <3> QED BY <1>1, <2>2, FunctionIsSeq
  <2> QED BY <2>3
<1>7. ASSUME NEW r \in 1..rows
      PROVE  Max(inRow(r)) \in Nat /\ \A i \in 1..n : row(i) = r - 1 => sizes[i].h <= Max(inRow(r))
  <2> DEFINE S == inRow(r)
             at == {k \in 1..n : row(k) = r - 1}
             height == [i \in 1..n |-> sizes[i].h]
  <2>1. IsFiniteSet({sizes[i].h : i \in at})
    <3>1. IsFiniteSet(at)
      <4>1. IsFiniteSet(1..n) /\ at \subseteq 1..n
        BY <1>1, FS_Interval
      <4> HIDE DEF at
      <4> QED BY <4>1, FS_Subset
    <3>2. IsFiniteSet({height[i] : i \in at})
      <4> HIDE DEF at, height
      <4> QED BY <3>1, ImageFinite
    <3>3. {sizes[i].h : i \in at} = {height[i] : i \in at}
      OBVIOUS
    <3> QED BY <3>2, <3>3
  <2>2. IsFiniteSet(S) /\ S \subseteq Nat /\ S # {} /\ \A i \in 1..n : row(i) = r - 1 => sizes[i].h \in S
    <3>1. S = {0} \cup {sizes[i].h : i \in at}
      OBVIOUS
    <3>2. IsFiniteSet(S)
      <4> HIDE DEF S, at
      <4> QED BY <2>1, <3>1, FS_Singleton, FS_Union
    <3> HIDE DEF row
    <3> QED BY <1>1, <3>2
  <2> HIDE DEF S
  <2>3. Max(S) \in S /\ \A x \in S : x <= Max(S)
    <3>1. S \subseteq Int
      BY <2>2
    <3> QED BY <2>2, <3>1, MaxIs
  <2> QED BY <2>2, <2>3 DEF S
<1> HIDE DEF inRow
<1>8. high \in Seq(Nat) /\ Len(high) = rows /\ \A i \in 1..n : sizes[i].h <= high[row(i) + 1]
  <2>1. high \in [1..rows -> Nat]
    BY <1>7
  <2>2. high \in Seq(Nat) /\ Len(high) = rows
    <3> HIDE DEF high
    <3> QED BY <1>1, <2>1, FunctionIsSeq
  <2>3. ASSUME NEW i \in 1..n PROVE sizes[i].h <= high[row(i) + 1]
    <3>1. row(i) + 1 \in 1..rows /\ (row(i) + 1) - 1 = row(i)
      BY <1>3
    <3> HIDE DEF row
    <3>2. sizes[i].h <= Max(inRow(row(i) + 1))
      BY <1>7, <3>1
    <3> QED BY <3>1, <3>2
  <2> QED BY <2>2, <2>3
<1> HIDE DEF wide, high
<1>9. Largest(wide, 0) \in Nat /\ \A r \in 1..rows : wide[r] <= Largest(wide, 0)
  <2>1. 0 <= Largest(wide, 0) /\ Largest(wide, 0) \in Int /\ \A r \in DOMAIN wide : wide[r] <= Largest(wide, 0)
    <3>1. wide \in Seq(Int) /\ 0 \in Int
      BY <1>6
    <3> HIDE DEF end, begin
    <3> QED BY <3>1, LargestIs
  <2>2. \A r \in 1..rows : r \in DOMAIN wide
    BY <1>6
  <2> QED BY <2>1, <2>2
<1>10. Extent(high, gap) \in Nat /\ \A r \in 1..rows : From(high, gap, r) + high[r] <= Extent(high, gap)
  BY <1>8, ExtentIs
<1>11. \A i \in 1..n : /\ p.pos[i].x = From(widths, gap, i) - begin(row(i))
                       /\ p.pos[i].y = From(high, gap, row(i) + 1)
  <2> HIDE DEF begin, row
  <2> QED BY <1>2
<1>12. p.w = Largest(wide, 0) /\ p.h = Extent(high, gap)
  <2> HIDE DEF begin, row
  <2> QED BY <1>2
<1>13. ASSUME NEW i \in 1..n
       PROVE  /\ p.pos[i].x \in Nat /\ p.pos[i].x + sizes[i].w <= p.w
              /\ From(widths, gap, i) \in Nat /\ begin(row(i)) \in Nat
  <2> DEFINE r == row(i)
             last == Least(n, (r + 1) * cols) + 1
  <2>1. r + 1 \in 1..rows /\ (r + 1) - 1 = r /\ r * cols \in Nat /\ r * cols + 1 <= i /\ i <= (r + 1) * cols
    BY <1>3
  <2>2. (r * cols) + 1 \in 1..n + 1 /\ last \in 1..n + 1
    BY <1>4, <2>1
  <2> HIDE DEF row
  <2>3. i < last /\ i \in 1..n + 1
    BY <1>1, <2>1, <2>2 DEF Least
  <2>4. From(widths, gap, i) \in Nat /\ begin(r) \in Nat /\ From(widths, gap, last) \in Nat
    <3> HIDE DEF r, last
    <3> QED BY <1>5, <2>2, <2>3, FromIs
  <2>5. begin(r) <= From(widths, gap, i)
    <3> HIDE DEF r
    <3> QED BY <1>1, <1>5, <2>1, <2>2, <2>3, FromRises
  <2>6. From(widths, gap, i) + sizes[i].w + gap <= From(widths, gap, last)
    <3> HIDE DEF r, last
    <3> QED BY <1>5, <2>2, <2>3, FromGrows
  <2>7. wide[r + 1] = From(widths, gap, last) - gap - begin(r)
    <3>1. wide[r + 1] = end((r + 1) - 1) - begin((r + 1) - 1)
      <4> HIDE DEF r, begin, end
      <4> QED BY <1>6, <2>1
    <3>2. end(r) = From(widths, gap, last) - gap
      OBVIOUS
    <3> HIDE DEF r, begin, end, last
    <3> QED BY <2>1, <3>1, <3>2
  <2>8. wide[r + 1] <= Largest(wide, 0)
    <3> HIDE DEF r
    <3> QED BY <1>9, <2>1
  <2>9. p.pos[i].x = From(widths, gap, i) - begin(r)
    BY <1>11
  <2>10. sizes[i].w \in Nat /\ Largest(wide, 0) \in Nat
    BY <1>1, <1>9
  <2>11. p.pos[i].x \in Nat /\ p.pos[i].x + sizes[i].w <= Largest(wide, 0)
    <3> DEFINE a == From(widths, gap, i)
               b == begin(r)
               e == From(widths, gap, last)
    <3>1. a \in Nat /\ b \in Nat /\ e \in Nat /\ b <= a /\ a + sizes[i].w + gap <= e /\ p.pos[i].x = a - b
      BY <2>4, <2>5, <2>6, <2>9
    <3>2. e - gap - b <= Largest(wide, 0)
      BY <2>7, <2>8
    <3> HIDE DEF a, b, e, r
    <3>3. a - b \in Nat /\ (a - b) + sizes[i].w <= Largest(wide, 0)
      BY <2>10, <3>1, <3>2, Fits, SMTT(60)
    <3> QED BY <3>1, <3>3
  <2> QED BY <1>12, <2>4, <2>11
<1>14. ASSUME NEW i \in 1..n
       PROVE  p.pos[i].y \in Nat /\ p.pos[i].y + sizes[i].h <= p.h
  <2>1. row(i) + 1 \in 1..rows /\ sizes[i].h <= high[row(i) + 1]
    BY <1>3, <1>8
  <2>2. row(i) + 1 \in 1..rows + 1
    BY <1>1, <2>1
  <2>3. From(high, gap, row(i) + 1) \in Nat
    BY <1>8, <2>2, FromIs
  <2>4. high[row(i) + 1] \in Nat
    BY <1>8, <2>1, LenProperties
  <2> HIDE DEF row
  <2> QED BY <1>1, <1>10, <1>11, <1>12, <2>1, <2>3, <2>4, SMTT(60)
<1>15. ASSUME NEW i \in 1..n, NEW j \in 1..n, i < j
       PROVE  p.pos[i].x + sizes[i].w <= p.pos[j].x \/ p.pos[i].y + sizes[i].h <= p.pos[j].y
  <2>2. row(i) + 1 \in 1..rows /\ row(j) + 1 \in 1..rows /\ row(i) \in Int /\ row(j) \in Int
    <3>1. \A k \in 1..n : row(k) \in 0..rows - 1 /\ row(k) + 1 \in 1..rows
      BY <1>3
    <3> HIDE DEF row
    <3> QED BY <1>1, <3>1
  <2>1. row(i) <= row(j)
    <3>1. i - 1 \in Nat /\ j - 1 \in Nat /\ i - 1 <= j - 1
      BY <1>1, <1>15
    <3>2. (i - 1) \div cols <= (j - 1) \div cols
      BY <3>1, RowsRise
    <3> QED BY <3>2
  <2> HIDE DEF row
  <2>3. CASE row(i) = row(j)
    <3>1. From(widths, gap, i) + sizes[i].w + gap <= From(widths, gap, j)
      <4>1. j \in 1..n + 1
        BY <1>1
      <4> QED BY <1>5, <1>15, <4>1, FromGrows
    <3>2. begin(row(i)) = begin(row(j))
      BY <2>3
    <3>3. /\ p.pos[i].x = From(widths, gap, i) - begin(row(i)) /\ p.pos[j].x = From(widths, gap, j) - begin(row(j))
          /\ From(widths, gap, i) \in Nat /\ From(widths, gap, j) \in Nat /\ begin(row(i)) \in Nat
      BY <1>11, <1>13
    <3>4. sizes[i].w \in Nat
      BY <1>1
    <3> HIDE DEF begin
    <3>5. p.pos[i].x + sizes[i].w <= p.pos[j].x
      BY <3>1, <3>2, <3>3, <3>4, SMTT(60)
    <3> QED BY <3>5
  <2>4. CASE row(i) < row(j)
    <3>1. row(i) + 1 < row(j) + 1 /\ row(j) + 1 \in 1..rows + 1
      BY <1>1, <2>2, <2>4
    <3>2. From(high, gap, row(i) + 1) + high[row(i) + 1] + gap <= From(high, gap, row(j) + 1)
      BY <1>8, <2>2, <3>1, FromGrows
    <3>3. sizes[i].h <= high[row(i) + 1] /\ high[row(i) + 1] \in Nat
      BY <1>8, <2>2, LenProperties
    <3>4. p.pos[i].y = From(high, gap, row(i) + 1) /\ p.pos[j].y = From(high, gap, row(j) + 1)
          /\ p.pos[i].y \in Nat /\ p.pos[j].y \in Nat
      BY <1>11, <1>14
    <3> QED BY <1>1, <3>2, <3>3, <3>4
  <2> QED BY <2>1, <2>2, <2>3, <2>4
<1> QED BY <1>1, <1>9, <1>10, <1>12, <1>13, <1>14, <1>15 DEF n

(* ----------------------------- boxes in a frame ------------------------------ *)

Boxes == [x : Int, y : Int, w : Int, h : Int]
Fit(b, w, h) == b.x >= 0 /\ b.y >= 0 /\ (w # Endless => b.x + b.w <= w) /\ (h # Endless => b.y + b.h <= h)
\* What DrawnApart says of a frame, and of the boxes in one.
Tidy(f) ==
    f.of = f.told /\ \A i \in DOMAIN f.cells :
      InFrame(f.cells[i], f) /\ \A j \in DOMAIN f.cells : i # j => Apart(f.cells[i], f.cells[j])
Clear(s, w, h) ==
    /\ s \in Seq(Boxes)
    /\ \A i \in DOMAIN s : Fit(s[i], w, h) /\ \A j \in DOMAIN s : i # j => Apart(s[i], s[j])
Across(a, b) == \A i \in DOMAIN a : \A j \in DOMAIN b : Apart(a[i], b[j])

\* A frame of such boxes.
LEMMA TidyFrame ==
    ASSUME NEW w, NEW h, NEW s, Clear(s, w, h)
    PROVE  Tidy(Frame(w, h, s)) /\ \A n, m : n = m => Tidy(List(w, h, s, n, m))
BY DEF Tidy, Frame, List, Clear, InFrame, Fit

\* A box of numbers.
LEMMA BoxIs ==
    ASSUME NEW x \in Int, NEW y \in Int, NEW w \in Int, NEW h \in Int
    PROVE  /\ Box(x, y, w, h) \in Boxes
           /\ Box(x, y, w, h).x = x /\ Box(x, y, w, h).y = y /\ Box(x, y, w, h).w = w /\ Box(x, y, w, h).h = h
BY DEF Box, Boxes

\* Each box apart from those after it.
LEMMA ClearBy ==
    ASSUME NEW n \in Nat, NEW s \in [1..n -> Boxes], NEW w, NEW h,
           \A i \in 1..n : Fit(s[i], w, h),
           \A i \in 1..n : \A j \in 1..n : i < j => Apart(s[i], s[j])
    PROVE  Clear(s, w, h) /\ DOMAIN s = 1..n /\ Len(s) = n
<1>2. s \in Seq(Boxes) /\ DOMAIN s = 1..n /\ Len(s) = n
  BY FunctionIsSeq
<1>3. ASSUME NEW i \in 1..n, NEW j \in 1..n, i # j PROVE Apart(s[i], s[j])
  <2>1. CASE i < j
    BY <2>1
  <2>2. CASE j < i
    <3>1. Apart(s[j], s[i])
      BY <2>2
    <3> QED BY <3>1 DEF Apart
  <2> QED BY <1>3, <2>1, <2>2
<1> QED BY <1>2, <1>3 DEF Clear

\* None, and one.
LEMMA ClearFew ==
    ASSUME NEW w, NEW h
    PROVE  Clear(<<>>, w, h) /\ \A b \in Boxes : Fit(b, w, h) => Clear(<<b>>, w, h)
<1>1. Clear(<<>>, w, h)
  BY DEF Clear
<1>2. ASSUME NEW b \in Boxes, Fit(b, w, h) PROVE Clear(<<b>>, w, h)
  <2>1. <<b>> \in Seq(Boxes) /\ DOMAIN <<b>> = {1} /\ <<b>>[1] = b
    OBVIOUS
  <2> QED BY <1>2, <2>1 DEF Clear
<1> QED BY <1>1, <1>2

\* Two sequences of boxes, one after the other.
LEMMA Halves ==
    ASSUME NEW m \in Nat, NEW k \in Nat, NEW i \in 1..m + k
    PROVE  (i \in 1..m /\ i <= m) \/ (i - m \in 1..k /\ i > m /\ ~(i <= m))
<1>1. CASE i <= m
  BY <1>1
<1>2. CASE ~(i <= m)
  <2>1. i > m /\ i - m \in 1..k
    BY <1>2
  <2> QED BY <1>2, <2>1
<1> QED BY <1>1, <1>2

\* Every box of two sequences after one another is one of the first or one of the second.
LEMMA Joined2 ==
    ASSUME NEW S, NEW a \in Seq(S), NEW b \in Seq(S)
    PROVE  /\ a \o b \in Seq(S) /\ Len(a \o b) = Len(a) + Len(b)
           /\ \A i \in DOMAIN (a \o b) :
                \/ i \in DOMAIN a /\ (a \o b)[i] = a[i]
                \/ i - Len(a) \in DOMAIN b /\ i > Len(a) /\ (a \o b)[i] = b[i - Len(a)]
           /\ \A i \in DOMAIN a : i \in 1..Len(a)
<1>1. Len(a) \in Nat /\ Len(b) \in Nat /\ DOMAIN a = 1..Len(a) /\ DOMAIN b = 1..Len(b)
  BY LenProperties
<1>2. /\ a \o b \in Seq(S) /\ Len(a \o b) = Len(a) + Len(b)
      /\ \A i \in 1..Len(a) + Len(b) : (a \o b)[i] = IF i <= Len(a) THEN a[i] ELSE b[i - Len(a)]
  BY ConcatProperties
<1>3. DOMAIN (a \o b) = 1..Len(a) + Len(b)
  BY <1>2, LenProperties
<1> DEFINE m == Len(a)
           k == Len(b)
<1>4. ASSUME NEW i \in 1..m + k PROVE (i \in 1..m /\ i <= m) \/ (i - m \in 1..k /\ i > m /\ ~(i <= m))
  BY <1>1, Halves
<1> HIDE DEF m, k
<1> QED BY <1>1, <1>2, <1>3, <1>4 DEF m, k

\* Two groups of boxes are clear together if each is and they keep apart.
LEMMA ClearJoin ==
    ASSUME NEW w, NEW h, NEW a, NEW b, Clear(a, w, h), Clear(b, w, h), Across(a, b)
    PROVE  Clear(a \o b, w, h)
<1>1. a \in Seq(Boxes) /\ b \in Seq(Boxes)
  BY DEF Clear
<1> DEFINE c == a \o b
           m == Len(a)
<1>2. /\ c \in Seq(Boxes) /\ m \in Nat
      /\ \A i \in DOMAIN c : \/ i \in DOMAIN a /\ c[i] = a[i]
                             \/ i - m \in DOMAIN b /\ i > m /\ c[i] = b[i - m]
      /\ \A i \in DOMAIN a : i \in 1..m
  BY <1>1, Joined2, LenProperties
<1>3. \A i \in DOMAIN c : i \in Nat
  <2> HIDE DEF c
  <2>1. DOMAIN c = 1..Len(c)
    BY <1>2, LenProperties
  <2> QED BY <2>1
<1> HIDE DEF c, m
<1>4. ASSUME NEW i \in DOMAIN c PROVE Fit(c[i], w, h)
  BY <1>2 DEF Clear
<1>5. ASSUME NEW i \in DOMAIN c, NEW j \in DOMAIN c, i # j PROVE Apart(c[i], c[j])
  <2>1. CASE i \in DOMAIN a /\ c[i] = a[i] /\ j \in DOMAIN a /\ c[j] = a[j]
    BY <1>5, <2>1 DEF Clear
  <2>2. CASE i - m \in DOMAIN b /\ c[i] = b[i - m] /\ j - m \in DOMAIN b /\ c[j] = b[j - m]
    <3>1. i - m # j - m
      BY <1>2, <1>3, <1>5
    <3> QED BY <2>2, <3>1 DEF Clear
  <2>3. CASE i \in DOMAIN a /\ c[i] = a[i] /\ j - m \in DOMAIN b /\ c[j] = b[j - m]
    BY <2>3 DEF Across
  <2>4. CASE j \in DOMAIN a /\ c[j] = a[j] /\ i - m \in DOMAIN b /\ c[i] = b[i - m]
    <3>1. Apart(c[j], c[i])
      BY <2>4 DEF Across
    <3> QED BY <3>1 DEF Apart
  <2> QED BY <1>2, <2>1, <2>2, <2>3, <2>4
<1> QED BY <1>2, <1>4, <1>5 DEF Clear, c

\* What keeps apart from each of two groups keeps apart from both together.
LEMMA AcrossJoin ==
    ASSUME NEW S, NEW a \in Seq(S), NEW b \in Seq(S), NEW c, Across(a, c), Across(b, c)
    PROVE  Across(a \o b, c)
<1> DEFINE d == a \o b
           m == Len(a)
<1>1. \A i \in DOMAIN d : \/ i \in DOMAIN a /\ d[i] = a[i]
                          \/ i - m \in DOMAIN b /\ d[i] = b[i - m]
  BY Joined2
<1> HIDE DEF d, m
<1> QED BY <1>1 DEF Across, d

\* Numbers along one axis.
LEMMA WithinAll ==
    ASSUME NEW p \in Int, NEW l \in Int, NEW y \in Nat, NEW at \in Nat, NEW len \in Nat, NEW all \in Int,
           y + at <= p, p + l <= y + at + len, at + len <= all
    PROVE  y <= p /\ p + l <= y + all
OBVIOUS

\* A box ends before the next one begins, wherever the column starts.
LEMMA EndsBefore ==
    ASSUME NEW p \in Int, NEW l \in Int, NEW q \in Int, NEW y \in Nat, NEW at \in Nat, NEW len \in Nat, NEW next \in Nat,
           p + l <= y + at + len, at + len <= next, y + next <= q
    PROVE  p + l <= q
OBVIOUS

\* What ends inside a limit ends inside every wider one, and inside none at all.
LEMMA NotOver ==
    ASSUME NEW p \in Int, NEW l \in Int, NEW a \in Int, NEW b \in Int, p + l <= a, b = Endless \/ a <= b
    PROVE  b = Endless \/ p + l <= b
OBVIOUS

\* What lies to the right of or below a place on the sheet lies on the sheet.
LEMMA NotUnder == ASSUME NEW p \in Int, NEW y \in Nat, y <= p PROVE p >= 0
OBVIOUS

\* Boxes in stretches of the height, one after the other.
Piled(n, at, len, all, s, x, y, to, w, h) ==
    /\ n \in Nat /\ at \in [1..n -> Nat] /\ len \in [1..n -> Nat] /\ all \in Int
    /\ \A i \in 1..n : at[i] + len[i] <= all /\ \A j \in 1..n : i < j => at[i] + len[i] <= at[j]
    /\ s \in [1..n -> Boxes] /\ x \in Nat /\ y \in Nat /\ {to, w, h} \subseteq Int
    /\ \A i \in 1..n : /\ y + at[i] <= s[i].y /\ s[i].y + s[i].h <= y + at[i] + len[i]
                     /\ x <= s[i].x /\ s[i].x + s[i].w <= to
    /\ (w = Endless \/ to <= w) /\ (h = Endless \/ y + all <= h)
\* Boxes piled on one another are apart and lie between the ends of the pile.
LEMMA PiledApart ==
    ASSUME NEW n, NEW at, NEW len, NEW all, NEW s, NEW x, NEW y, NEW to, NEW w, NEW h,
           Piled(n, at, len, all, s, x, y, to, w, h)
    PROVE  Clear(s, w, h) /\ DOMAIN s = 1..n
           /\ \A i \in DOMAIN s : y <= s[i].y /\ s[i].y + s[i].h <= y + all
                                  /\ x <= s[i].x /\ s[i].x + s[i].w <= to
<1> USE DEF Piled
<1>1. ASSUME NEW i \in 1..n
      PROVE  /\ at[i] \in Nat /\ len[i] \in Nat
             /\ s[i].x \in Int /\ s[i].y \in Int /\ s[i].w \in Int /\ s[i].h \in Int
  <2>1. s[i] \in Boxes
    OBVIOUS
  <2> QED BY <2>1 DEF Boxes
<1>2. ASSUME NEW i \in 1..n PROVE y <= s[i].y /\ s[i].y + s[i].h <= y + all
  BY <1>1, WithinAll
<1>3. ASSUME NEW i \in 1..n PROVE Fit(s[i], w, h)
  <2>1. h = Endless \/ s[i].y + s[i].h <= h
    <3>1. y + all \in Int
      OBVIOUS
    <3> QED BY <1>1, <1>2, <3>1, NotOver
  <2>2. w = Endless \/ s[i].x + s[i].w <= w
    BY <1>1, NotOver
  <2>3. s[i].y >= 0 /\ s[i].x >= 0
    BY <1>1, <1>2, NotUnder
  <2> QED BY <2>1, <2>2, <2>3 DEF Fit
<1>4. ASSUME NEW i \in 1..n, NEW j \in 1..n, i < j PROVE Apart(s[i], s[j])
  <2>1. at[i] + len[i] <= at[j]
    BY <1>4
  <2>2. s[i].y + s[i].h <= s[j].y
    BY <1>1, <2>1, EndsBefore
  <2> QED BY <2>2 DEF Apart
<1>5. Clear(s, w, h) /\ DOMAIN s = 1..n
  BY <1>3, <1>4, ClearBy
<1> QED BY <1>2, <1>5

\* Boxes in stretches of the width, one after the other.
Lined(n, at, len, all, s, x, y, to, w, h) ==
    /\ n \in Nat /\ at \in [1..n -> Nat] /\ len \in [1..n -> Nat] /\ all \in Int
    /\ \A i \in 1..n : at[i] + len[i] <= all /\ \A j \in 1..n : i < j => at[i] + len[i] <= at[j]
    /\ s \in [1..n -> Boxes] /\ x \in Nat /\ y \in Nat /\ {to, w, h} \subseteq Int
    /\ \A i \in 1..n : /\ x + at[i] <= s[i].x /\ s[i].x + s[i].w <= x + at[i] + len[i]
                     /\ y <= s[i].y /\ s[i].y + s[i].h <= to
    /\ (h = Endless \/ to <= h) /\ (w = Endless \/ x + all <= w)
\* The same of boxes in a line from left to right.
LEMMA LinedApart ==
    ASSUME NEW n, NEW at, NEW len, NEW all, NEW s, NEW x, NEW y, NEW to, NEW w, NEW h,
           Lined(n, at, len, all, s, x, y, to, w, h)
    PROVE  Clear(s, w, h) /\ DOMAIN s = 1..n
           /\ \A i \in DOMAIN s : x <= s[i].x /\ s[i].x + s[i].w <= x + all
                                  /\ y <= s[i].y /\ s[i].y + s[i].h <= to
<1> USE DEF Lined
<1>1. ASSUME NEW i \in 1..n
      PROVE  /\ at[i] \in Nat /\ len[i] \in Nat
             /\ s[i].x \in Int /\ s[i].y \in Int /\ s[i].w \in Int /\ s[i].h \in Int
  <2>1. s[i] \in Boxes
    OBVIOUS
  <2> QED BY <2>1 DEF Boxes
<1>2. ASSUME NEW i \in 1..n PROVE x <= s[i].x /\ s[i].x + s[i].w <= x + all
  BY <1>1, WithinAll
<1>3. ASSUME NEW i \in 1..n PROVE Fit(s[i], w, h)
  <2>1. w = Endless \/ s[i].x + s[i].w <= w
    <3>1. x + all \in Int
      OBVIOUS
    <3> QED BY <1>1, <1>2, <3>1, NotOver
  <2>2. h = Endless \/ s[i].y + s[i].h <= h
    BY <1>1, NotOver
  <2>3. s[i].x >= 0 /\ s[i].y >= 0
    BY <1>1, <1>2, NotUnder
  <2> QED BY <2>1, <2>2, <2>3 DEF Fit
<1>4. ASSUME NEW i \in 1..n, NEW j \in 1..n, i < j PROVE Apart(s[i], s[j])
  <2>1. at[i] + len[i] <= at[j]
    BY <1>4
  <2>2. s[i].x + s[i].w <= s[j].x
    BY <1>1, <2>1, EndsBefore
  <2> QED BY <2>2 DEF Apart
<1>5. Clear(s, w, h) /\ DOMAIN s = 1..n
  BY <1>3, <1>4, ClearBy
<1> QED BY <1>2, <1>5

\* The lengths of a column and their running sums: numbers, each before the next.
LEMMA Stretches ==
    ASSUME NEW lens \in Seq(Nat), NEW gap \in Nat
    PROVE  /\ Len(lens) \in Nat /\ [i \in 1..Len(lens) |-> From(lens, gap, i)] \in [1..Len(lens) -> Nat]
           /\ [i \in 1..Len(lens) |-> lens[i]] \in [1..Len(lens) -> Nat] /\ Extent(lens, gap) \in Int
           /\ \A i \in 1..Len(lens) : From(lens, gap, i) + lens[i] <= Extent(lens, gap)
           /\ \A i \in 1..Len(lens) : \A j \in 1..Len(lens) : i < j => From(lens, gap, i) + lens[i] <= From(lens, gap, j)
<1>1. Len(lens) \in Nat /\ \A i \in 1..Len(lens) : lens[i] \in Nat
  BY LenProperties
<1>0. Extent(lens, gap) \in Nat /\ \A i \in 1..Len(lens) : From(lens, gap, i) + lens[i] <= Extent(lens, gap)
  BY ExtentIs
<1> DEFINE n == Len(lens)
<1> HIDE DEF n
<1>2. \A i \in 1..n : i \in 1..n + 1
  BY <1>1 DEF n
<1>3. \A i \in 1..n : From(lens, gap, i) \in Nat
  BY <1>2, FromIs DEF n
<1>4. ASSUME NEW i \in 1..n, NEW j \in 1..n, i < j PROVE From(lens, gap, i) + lens[i] <= From(lens, gap, j)
  <2>1. From(lens, gap, i) + lens[i] + gap <= From(lens, gap, j)
    BY <1>2, <1>4, FromGrows DEF n
  <2>2. From(lens, gap, i) \in Nat /\ From(lens, gap, j) \in Nat /\ lens[i] \in Nat
    BY <1>1, <1>3 DEF n
  <2> QED BY <2>1, <2>2
<1> QED BY <1>0, <1>1, <1>3, <1>4 DEF n

\* One above the other, each as high as its length says.
InColumn(lens, gap, s, x, y, to, w, h) ==
    /\ lens \in Seq(Nat) /\ gap \in Nat /\ s \in [1..Len(lens) -> Boxes]
    /\ x \in Nat /\ y \in Nat /\ {to, w, h} \subseteq Int
    /\ \A i \in 1..Len(lens) :
         /\ y + From(lens, gap, i) <= s[i].y /\ s[i].y + s[i].h <= y + From(lens, gap, i) + lens[i]
         /\ x <= s[i].x /\ s[i].x + s[i].w <= to
    /\ (w = Endless \/ to <= w) /\ (h = Endless \/ y + Extent(lens, gap) <= h)
\* Boxes one below the other as high as their lengths say lie apart (From, Extent).
LEMMA ColumnLies ==
    ASSUME NEW lens, NEW gap, NEW s, NEW x, NEW y, NEW to, NEW w, NEW h, InColumn(lens, gap, s, x, y, to, w, h)
    PROVE  Clear(s, w, h) /\ DOMAIN s = 1..Len(lens)
           /\ \A i \in DOMAIN s : y <= s[i].y /\ s[i].y + s[i].h <= y + Extent(lens, gap)
                                  /\ x <= s[i].x /\ s[i].x + s[i].w <= to
<1> DEFINE n == Len(lens)
           at == [i \in 1..n |-> From(lens, gap, i)]
           len == [i \in 1..n |-> lens[i]]
<1>1. n \in Nat /\ at \in [1..n -> Nat] /\ len \in [1..n -> Nat] /\ Extent(lens, gap) \in Int
      /\ (\A i \in 1..n : at[i] + len[i] <= Extent(lens, gap))
      /\ \A i \in 1..n : \A j \in 1..n : i < j => at[i] + len[i] <= at[j]
  BY Stretches DEF InColumn
<1>2. \A i \in 1..n : at[i] = From(lens, gap, i) /\ len[i] = lens[i]
  OBVIOUS
<1>3. \A i \in 1..n : /\ y + at[i] <= s[i].y /\ s[i].y + s[i].h <= y + at[i] + len[i]
                     /\ x <= s[i].x /\ s[i].x + s[i].w <= to
  BY <1>2 DEF InColumn
<1> HIDE DEF at, len
<1>4. Piled(n, at, len, Extent(lens, gap), s, x, y, to, w, h)
  BY <1>1, <1>3 DEF Piled, InColumn
<1> QED BY <1>4, PiledApart

\* One beside the other, each as wide as its length says.
InRowOf(lens, gap, s, x, y, to, w, h) ==
    /\ lens \in Seq(Nat) /\ gap \in Nat /\ s \in [1..Len(lens) -> Boxes]
    /\ x \in Nat /\ y \in Nat /\ {to, w, h} \subseteq Int
    /\ \A i \in 1..Len(lens) :
         /\ x + From(lens, gap, i) <= s[i].x /\ s[i].x + s[i].w <= x + From(lens, gap, i) + lens[i]
         /\ y <= s[i].y /\ s[i].y + s[i].h <= to
    /\ (h = Endless \/ to <= h) /\ (w = Endless \/ x + Extent(lens, gap) <= w)
\* Boxes beside one another as wide as their lengths say lie apart.
LEMMA RowLies ==
    ASSUME NEW lens, NEW gap, NEW s, NEW x, NEW y, NEW to, NEW w, NEW h, InRowOf(lens, gap, s, x, y, to, w, h)
    PROVE  Clear(s, w, h) /\ DOMAIN s = 1..Len(lens)
           /\ \A i \in DOMAIN s : x <= s[i].x /\ s[i].x + s[i].w <= x + Extent(lens, gap)
                                  /\ y <= s[i].y /\ s[i].y + s[i].h <= to
<1> DEFINE n == Len(lens)
           at == [i \in 1..n |-> From(lens, gap, i)]
           len == [i \in 1..n |-> lens[i]]
<1>1. n \in Nat /\ at \in [1..n -> Nat] /\ len \in [1..n -> Nat] /\ Extent(lens, gap) \in Int
      /\ (\A i \in 1..n : at[i] + len[i] <= Extent(lens, gap))
      /\ \A i \in 1..n : \A j \in 1..n : i < j => at[i] + len[i] <= at[j]
  BY Stretches DEF InRowOf
<1>2. \A i \in 1..n : at[i] = From(lens, gap, i) /\ len[i] = lens[i]
  OBVIOUS
<1>3. \A i \in 1..n : /\ x + at[i] <= s[i].x /\ s[i].x + s[i].w <= x + at[i] + len[i]
                     /\ y <= s[i].y /\ s[i].y + s[i].h <= to
  BY <1>2 DEF InRowOf
<1> HIDE DEF at, len
<1>4. Lined(n, at, len, Extent(lens, gap), s, x, y, to, w, h)
  BY <1>1, <1>3 DEF Lined, InRowOf
<1> QED BY <1>4, LinedApart

\* As many steps as there are places before the i-th.
Stride(i, step) == (i - 1) * step

\* Equal steps: each begins where the one before it ends, or later.
LEMMA StepsRise ==
    ASSUME NEW i \in Int, NEW j \in Int, NEW step \in Nat, i < j
    PROVE  Stride(i, step) + step <= Stride(j, step) /\ Stride(i, step) \in Int /\ Stride(j, step) \in Int
           /\ (i > 0 => Stride(i, step) \in Nat)
<1>1. Stride(j, step) = Stride(i, step) + step + (j - 1 - i) * step /\ j - 1 - i \in Nat
  BY DEF Stride
<1>2. (j - 1 - i) * step \in Nat
  BY <1>1
<1>3. Stride(i, step) \in Int /\ Stride(j, step) \in Int
  BY DEF Stride
<1>4. i > 0 => Stride(i, step) \in Nat
  BY DEF Stride
<1> QED BY <1>1, <1>2, <1>3, <1>4

\* One above the other, each one step below the last.
OnSteps(k, step, s, x, y, to, w, h) ==
    /\ k \in Nat /\ step \in Nat /\ s \in [1..k -> Boxes]
    /\ x \in Nat /\ y \in Nat /\ {to, w, h} \subseteq Int
    /\ \A i \in 1..k : /\ y + Stride(i, step) <= s[i].y /\ s[i].y + s[i].h <= y + Stride(i, step) + step
                     /\ x <= s[i].x /\ s[i].x + s[i].w <= to
    /\ (w = Endless \/ to <= w) /\ (h = Endless \/ y + Stride(k + 1, step) <= h)
\* Boxes on equal steps down lie apart.
LEMMA StepsDown ==
    ASSUME NEW k, NEW step, NEW s, NEW x, NEW y, NEW to, NEW w, NEW h, OnSteps(k, step, s, x, y, to, w, h)
    PROVE  Clear(s, w, h) /\ DOMAIN s = 1..k
           /\ \A i \in DOMAIN s : y <= s[i].y /\ s[i].y + s[i].h <= y + Stride(k + 1, step)
                                  /\ x <= s[i].x /\ s[i].x + s[i].w <= to
<1> DEFINE at == [i \in 1..k |-> Stride(i, step)]
           len == [i \in 1..k |-> step]
<1>0. k \in Nat /\ step \in Nat
  BY DEF OnSteps
<1>1. \A i \in 1..k : Stride(i, step) \in Nat /\ Stride(i, step) + step <= Stride(k + 1, step)
  BY <1>0, StepsRise
<1>2. Stride(k + 1, step) \in Int /\ at \in [1..k -> Nat] /\ len \in [1..k -> Nat]
  <2>1. Stride(k + 1, step) \in Int
    BY <1>0 DEF Stride
  <2> QED BY <1>0, <1>1, <2>1
<1>3. \A i \in 1..k : \A j \in 1..k : i < j => Stride(i, step) + step <= Stride(j, step)
  BY <1>0, StepsRise
<1>4. \A i \in 1..k : at[i] = Stride(i, step) /\ len[i] = step
  OBVIOUS
<1>5. \A i \in 1..k : at[i] + len[i] <= Stride(k + 1, step)
  BY <1>1, <1>4
<1>6. \A i \in 1..k : \A j \in 1..k : i < j => at[i] + len[i] <= at[j]
  BY <1>3, <1>4
<1>7. \A i \in 1..k : /\ y + at[i] <= s[i].y /\ s[i].y + s[i].h <= y + at[i] + len[i]
                     /\ x <= s[i].x /\ s[i].x + s[i].w <= to
  BY <1>4 DEF OnSteps
<1> HIDE DEF at, len
<1>8. Piled(k, at, len, Stride(k + 1, step), s, x, y, to, w, h)
  BY <1>2, <1>5, <1>6, <1>7 DEF Piled, OnSteps
<1> QED BY <1>8, PiledApart

\* One beside the other, each one step after the last.
OnPaces(k, step, s, x, y, to, w, h) ==
    /\ k \in Nat /\ step \in Nat /\ s \in [1..k -> Boxes]
    /\ x \in Nat /\ y \in Nat /\ {to, w, h} \subseteq Int
    /\ \A i \in 1..k : /\ x + Stride(i, step) <= s[i].x /\ s[i].x + s[i].w <= x + Stride(i, step) + step
                     /\ y <= s[i].y /\ s[i].y + s[i].h <= to
    /\ (h = Endless \/ to <= h) /\ (w = Endless \/ x + Stride(k + 1, step) <= w)
\* Boxes on equal steps to the right lie apart.
LEMMA StepsAlong ==
    ASSUME NEW k, NEW step, NEW s, NEW x, NEW y, NEW to, NEW w, NEW h, OnPaces(k, step, s, x, y, to, w, h)
    PROVE  Clear(s, w, h) /\ DOMAIN s = 1..k
           /\ \A i \in DOMAIN s : x <= s[i].x /\ s[i].x + s[i].w <= x + Stride(k + 1, step)
                                  /\ y <= s[i].y /\ s[i].y + s[i].h <= to
<1> DEFINE at == [i \in 1..k |-> Stride(i, step)]
           len == [i \in 1..k |-> step]
<1>0. k \in Nat /\ step \in Nat
  BY DEF OnPaces
<1>1. \A i \in 1..k : Stride(i, step) \in Nat /\ Stride(i, step) + step <= Stride(k + 1, step)
  BY <1>0, StepsRise
<1>2. Stride(k + 1, step) \in Int /\ at \in [1..k -> Nat] /\ len \in [1..k -> Nat]
  <2>1. Stride(k + 1, step) \in Int
    BY <1>0 DEF Stride
  <2> QED BY <1>0, <1>1, <2>1
<1>3. \A i \in 1..k : \A j \in 1..k : i < j => Stride(i, step) + step <= Stride(j, step)
  BY <1>0, StepsRise
<1>4. \A i \in 1..k : at[i] = Stride(i, step) /\ len[i] = step
  OBVIOUS
<1>5. \A i \in 1..k : at[i] + len[i] <= Stride(k + 1, step)
  BY <1>1, <1>4
<1>6. \A i \in 1..k : \A j \in 1..k : i < j => at[i] + len[i] <= at[j]
  BY <1>3, <1>4
<1>7. \A i \in 1..k : /\ x + at[i] <= s[i].x /\ s[i].x + s[i].w <= x + at[i] + len[i]
                     /\ y <= s[i].y /\ s[i].y + s[i].h <= to
  BY <1>4 DEF OnPaces
<1> HIDE DEF at, len
<1>8. Lined(k, at, len, Stride(k + 1, step), s, x, y, to, w, h)
  BY <1>2, <1>5, <1>6, <1>7 DEF Lined, OnPaces
<1> QED BY <1>8, LinedApart

\* Boxes on either side of a line.
Over(a, m)    == \A i \in DOMAIN a : a[i].y + a[i].h <= m
Under(a, m)   == \A i \in DOMAIN a : m <= a[i].y
LeftOf(a, m)  == \A i \in DOMAIN a : a[i].x + a[i].w <= m
RightOf(a, m) == \A i \in DOMAIN a : m <= a[i].x

Parted(a, b, m) ==
    /\ a \in Seq(Boxes) /\ b \in Seq(Boxes) /\ m \in Int
    /\ \/ Over(a, m) /\ Under(b, m)
       \/ Under(a, m) /\ Over(b, m)
       \/ LeftOf(a, m) /\ RightOf(b, m)
       \/ RightOf(a, m) /\ LeftOf(b, m)

\* What ends at a line ends before what begins behind it.
LEMMA LineBetween ==
    ASSUME NEW p \in Int, NEW q \in Int, NEW m \in Int, NEW r \in Int, p + q <= m, m <= r
    PROVE  p + q <= r
OBVIOUS

\* A line between two groups of boxes keeps them apart.
LEMMA Divided ==
    ASSUME NEW a, NEW b, NEW m, Parted(a, b, m)
    PROVE  Across(a, b)
<1>0. a \in Seq(Boxes) /\ b \in Seq(Boxes) /\ m \in Int
  BY DEF Parted
<1>1. ASSUME NEW i \in DOMAIN a, NEW j \in DOMAIN b PROVE Apart(a[i], b[j])
  <2>1. a[i] \in Boxes /\ b[j] \in Boxes
    BY <1>0, LenProperties
  <2>2. /\ a[i].x \in Int /\ a[i].y \in Int /\ a[i].w \in Int /\ a[i].h \in Int
        /\ b[j].x \in Int /\ b[j].y \in Int /\ b[j].w \in Int /\ b[j].h \in Int
    BY <2>1 DEF Boxes
  <2>3. CASE Over(a, m) /\ Under(b, m)
    <3>1. a[i].y + a[i].h <= m /\ m <= b[j].y
      BY <2>3 DEF Over, Under
    <3>2. a[i].y + a[i].h <= b[j].y
      BY <1>0, <2>2, <3>1, LineBetween
    <3> QED BY <3>2, Zenon DEF Apart
  <2>4. CASE Under(a, m) /\ Over(b, m)
    <3>1. b[j].y + b[j].h <= m /\ m <= a[i].y
      BY <2>4 DEF Over, Under
    <3>2. b[j].y + b[j].h <= a[i].y
      BY <1>0, <2>2, <3>1, LineBetween
    <3> QED BY <3>2, Zenon DEF Apart
  <2>5. CASE LeftOf(a, m) /\ RightOf(b, m)
    <3>1. a[i].x + a[i].w <= m /\ m <= b[j].x
      BY <2>5 DEF LeftOf, RightOf
    <3>2. a[i].x + a[i].w <= b[j].x
      BY <1>0, <2>2, <3>1, LineBetween
    <3> QED BY <3>2, Zenon DEF Apart
  <2>6. CASE RightOf(a, m) /\ LeftOf(b, m)
    <3>1. b[j].x + b[j].w <= m /\ m <= a[i].x
      BY <2>6 DEF LeftOf, RightOf
    <3>2. b[j].x + b[j].w <= a[i].x
      BY <1>0, <2>2, <3>1, LineBetween
    <3> QED BY <3>2, Zenon DEF Apart
  <2> QED BY <2>3, <2>4, <2>5, <2>6 DEF Parted
<1> QED BY <1>1 DEF Across

\* One box on one side of a line.
LEMMA OneIs ==
    ASSUME NEW b, NEW m
    PROVE  /\ Over(<<b>>, m) <=> b.y + b.h <= m
           /\ Under(<<b>>, m) <=> m <= b.y
           /\ LeftOf(<<b>>, m) <=> b.x + b.w <= m
           /\ RightOf(<<b>>, m) <=> m <= b.x
           /\ Over(<<>>, m) /\ Under(<<>>, m) /\ LeftOf(<<>>, m) /\ RightOf(<<>>, m)
<1>1. DOMAIN <<b>> = {1} /\ <<b>>[1] = b
  OBVIOUS
<1>2. /\ Over(<<b>>, m) <=> b.y + b.h <= m
      /\ Under(<<b>>, m) <=> m <= b.y
  BY <1>1, Zenon DEF Over, Under
<1>3. /\ LeftOf(<<b>>, m) <=> b.x + b.w <= m
      /\ RightOf(<<b>>, m) <=> m <= b.x
  BY <1>1, Zenon DEF LeftOf, RightOf
<1>4. Over(<<>>, m) /\ Under(<<>>, m) /\ LeftOf(<<>>, m) /\ RightOf(<<>>, m)
  BY DEF Over, Under, LeftOf, RightOf
<1> QED BY <1>2, <1>3, <1>4

\* A box by itself.
Room(n, most) == most = Endless \/ n <= most
IsOne(s, x, y, wide, high) == s = <<Box(x, y, wide, high)>> /\ x \in Nat /\ y \in Nat /\ wide \in Int /\ high \in Int

\* Where one box lies, and when it is inside its frame.
LEMMA OneBox ==
    ASSUME NEW s, NEW x, NEW y, NEW wide, NEW high, IsOne(s, x, y, wide, high)
    PROVE  /\ \A m : Over(s, m) <=> y + high <= m
           /\ \A m : Under(s, m) <=> m <= y
           /\ \A m : LeftOf(s, m) <=> x + wide <= m
           /\ \A m : RightOf(s, m) <=> m <= x
           /\ \A w, h : Room(x + wide, w) /\ Room(y + high, h) => Clear(s, w, h)
<1> DEFINE b == Box(x, y, wide, high)
<1>1. b \in Boxes /\ b.x = x /\ b.y = y /\ b.w = wide /\ b.h = high /\ x >= 0 /\ y >= 0
  BY DEF IsOne, Box, Boxes
<1>2. s = <<b>>
  BY DEF IsOne
<1> HIDE DEF b
<1>3. ASSUME NEW m PROVE (Over(s, m) <=> y + high <= m) /\ (Under(s, m) <=> m <= y)
  BY <1>1, <1>2, OneIs
<1>4. ASSUME NEW m PROVE (LeftOf(s, m) <=> x + wide <= m) /\ (RightOf(s, m) <=> m <= x)
  BY <1>1, <1>2, OneIs
<1>5. ASSUME NEW w, NEW h, Room(x + wide, w), Room(y + high, h) PROVE Clear(s, w, h)
  <2>1. Fit(b, w, h)
    BY <1>1, <1>5 DEF Fit, Room
  <2> QED BY <1>1, <1>2, <2>1, ClearFew
<1> QED BY <1>3, <1>4, <1>5

\* A column of boxes, as high as the lengths, and a row of boxes, as wide.
IsColumn(s, lens, gap, x, y, size) ==
    /\ lens \in Seq(Nat) /\ gap \in Nat /\ x \in Nat /\ y \in Nat /\ size \in Nat
    /\ s = [i \in 1..Len(lens) |-> Box(x, y + From(lens, gap, i), size, lens[i])]

\* The boxes of a column of equal width, each with its place.
LEMMA ColumnBoxes ==
    ASSUME NEW s, NEW lens, NEW gap, NEW x, NEW y, NEW size, IsColumn(s, lens, gap, x, y, size)
    PROVE  /\ s \in [1..Len(lens) -> Boxes] /\ Len(lens) \in Nat
           /\ lens \in Seq(Nat) /\ gap \in Nat /\ x \in Nat /\ y \in Nat /\ size \in Nat
           /\ \A i \in 1..Len(lens) :
                /\ From(lens, gap, i) \in Nat /\ lens[i] \in Nat
                /\ s[i].y = y + From(lens, gap, i) /\ s[i].x = x /\ s[i].h = lens[i] /\ s[i].w = size
<1>1. lens \in Seq(Nat) /\ gap \in Nat /\ x \in Nat /\ y \in Nat /\ size \in Nat
  BY DEF IsColumn
<1> DEFINE n == Len(lens)
<1>2. n \in Nat /\ \A i \in 1..n : i \in 1..n + 1 /\ lens[i] \in Nat
  BY <1>1, LenProperties
<1>3. s = [i \in 1..n |-> Box(x, y + From(lens, gap, i), size, lens[i])]
  BY DEF IsColumn
<1>4. ASSUME NEW i \in 1..n PROVE From(lens, gap, i) \in Nat /\ lens[i] \in Nat
  BY <1>1, <1>2, FromIs
<1> HIDE DEF n
<1>5. ASSUME NEW i \in 1..n
      PROVE  /\ Box(x, y + From(lens, gap, i), size, lens[i]) \in Boxes
             /\ s[i].y = y + From(lens, gap, i) /\ s[i].x = x /\ s[i].h = lens[i] /\ s[i].w = size
  <2>1. y + From(lens, gap, i) \in Int /\ x \in Int /\ size \in Int /\ lens[i] \in Int
    BY <1>1, <1>4
  <2>2. s[i] = Box(x, y + From(lens, gap, i), size, lens[i])
    BY <1>3
  <2> QED BY <2>1, <2>2 DEF Box, Boxes
<1>6. s \in [1..n -> Boxes]
  BY <1>3, <1>5
<1> QED BY <1>1, <1>2, <1>4, <1>5, <1>6 DEF n

\* A column of equal width lies apart, inside what it is given.
LEMMA ColumnIs ==
    ASSUME NEW s, NEW lens, NEW gap, NEW x, NEW y, NEW size, IsColumn(s, lens, gap, x, y, size),
           NEW w \in Int, NEW h \in Int, w = Endless \/ x + size <= w, h = Endless \/ y + Extent(lens, gap) <= h
    PROVE  Clear(s, w, h) /\ DOMAIN s = 1..Len(lens) /\ Under(s, y) /\ RightOf(s, x)
           /\ Over(s, y + Extent(lens, gap)) /\ LeftOf(s, x + size)
<1> DEFINE n == Len(lens)
<1>1. lens \in Seq(Nat) /\ gap \in Nat /\ x \in Nat /\ y \in Nat /\ size \in Nat /\ s \in [1..n -> Boxes]
  BY ColumnBoxes
<1>4. \A i \in 1..n : /\ From(lens, gap, i) \in Nat /\ lens[i] \in Nat
                     /\ s[i].y = y + From(lens, gap, i) /\ s[i].x = x /\ s[i].h = lens[i] /\ s[i].w = size
  BY ColumnBoxes
<1>6. \A i \in 1..n : /\ y + From(lens, gap, i) <= s[i].y /\ s[i].y + s[i].h <= y + From(lens, gap, i) + lens[i]
                     /\ x <= s[i].x /\ s[i].x + s[i].w <= x + size
  <2> TAKE i \in 1..n
  <2>1. y + From(lens, gap, i) \in Int /\ y + From(lens, gap, i) + lens[i] \in Int /\ x + size \in Int
    BY <1>1, <1>4, SMTT(60)
  <2>2. y + From(lens, gap, i) <= y + From(lens, gap, i) /\ x <= x
        /\ y + From(lens, gap, i) + lens[i] <= y + From(lens, gap, i) + lens[i] /\ x + size <= x + size
    BY <1>1, <2>1
  <2> QED BY <1>4, <2>2
<1>7. InColumn(lens, gap, s, x, y, x + size, w, h)
  BY <1>1, <1>6 DEF InColumn
<1> QED BY <1>7, ColumnLies DEF Under, Over, RightOf, LeftOf

IsRow(s, lens, gap, x, y, size) ==
    /\ lens \in Seq(Nat) /\ gap \in Nat /\ x \in Nat /\ y \in Nat /\ size \in Nat
    /\ s = [i \in 1..Len(lens) |-> Box(x + From(lens, gap, i), y, lens[i], size)]

\* The boxes of a row of equal height, each with its place.
LEMMA RowBoxes ==
    ASSUME NEW s, NEW lens, NEW gap, NEW x, NEW y, NEW size, IsRow(s, lens, gap, x, y, size)
    PROVE  /\ s \in [1..Len(lens) -> Boxes] /\ Len(lens) \in Nat
           /\ lens \in Seq(Nat) /\ gap \in Nat /\ x \in Nat /\ y \in Nat /\ size \in Nat
           /\ \A i \in 1..Len(lens) :
                /\ From(lens, gap, i) \in Nat /\ lens[i] \in Nat
                /\ s[i].x = x + From(lens, gap, i) /\ s[i].y = y /\ s[i].w = lens[i] /\ s[i].h = size
<1>1. lens \in Seq(Nat) /\ gap \in Nat /\ x \in Nat /\ y \in Nat /\ size \in Nat
  BY DEF IsRow
<1> DEFINE n == Len(lens)
<1>2. n \in Nat /\ \A i \in 1..n : i \in 1..n + 1 /\ lens[i] \in Nat
  BY <1>1, LenProperties
<1>3. s = [i \in 1..n |-> Box(x + From(lens, gap, i), y, lens[i], size)]
  BY DEF IsRow
<1>4. ASSUME NEW i \in 1..n PROVE From(lens, gap, i) \in Nat /\ lens[i] \in Nat
  BY <1>1, <1>2, FromIs
<1> HIDE DEF n
<1>5. ASSUME NEW i \in 1..n
      PROVE  /\ Box(x + From(lens, gap, i), y, lens[i], size) \in Boxes
             /\ s[i].x = x + From(lens, gap, i) /\ s[i].y = y /\ s[i].w = lens[i] /\ s[i].h = size
  <2>1. x + From(lens, gap, i) \in Int /\ y \in Int /\ size \in Int /\ lens[i] \in Int
    BY <1>1, <1>4
  <2>2. s[i] = Box(x + From(lens, gap, i), y, lens[i], size)
    BY <1>3
  <2> QED BY <2>1, <2>2 DEF Box, Boxes
<1>6. s \in [1..n -> Boxes]
  BY <1>3, <1>5
<1> QED BY <1>1, <1>2, <1>4, <1>5, <1>6 DEF n

\* A row of equal height lies apart, inside what it is given.
LEMMA RowIs ==
    ASSUME NEW s, NEW lens, NEW gap, NEW x, NEW y, NEW size, IsRow(s, lens, gap, x, y, size),
           NEW w \in Int, NEW h \in Int, h = Endless \/ y + size <= h, w = Endless \/ x + Extent(lens, gap) <= w
    PROVE  Clear(s, w, h) /\ DOMAIN s = 1..Len(lens) /\ Under(s, y) /\ RightOf(s, x)
           /\ LeftOf(s, x + Extent(lens, gap)) /\ Over(s, y + size)
<1> DEFINE n == Len(lens)
<1>1. lens \in Seq(Nat) /\ gap \in Nat /\ x \in Nat /\ y \in Nat /\ size \in Nat /\ s \in [1..n -> Boxes]
  BY RowBoxes
<1>4. \A i \in 1..n : /\ From(lens, gap, i) \in Nat /\ lens[i] \in Nat
                     /\ s[i].x = x + From(lens, gap, i) /\ s[i].y = y /\ s[i].w = lens[i] /\ s[i].h = size
  BY RowBoxes
<1>6. \A i \in 1..n : /\ x + From(lens, gap, i) <= s[i].x /\ s[i].x + s[i].w <= x + From(lens, gap, i) + lens[i]
                     /\ y <= s[i].y /\ s[i].y + s[i].h <= y + size
  <2> TAKE i \in 1..n
  <2>1. x + From(lens, gap, i) \in Int /\ x + From(lens, gap, i) + lens[i] \in Int /\ y + size \in Int
    BY <1>1, <1>4, SMTT(60)
  <2>2. x + From(lens, gap, i) <= x + From(lens, gap, i) /\ y <= y
        /\ x + From(lens, gap, i) + lens[i] <= x + From(lens, gap, i) + lens[i] /\ y + size <= y + size
    BY <1>1, <2>1
  <2> QED BY <1>4, <2>2
<1>7. InRowOf(lens, gap, s, x, y, y + size, w, h)
  BY <1>1, <1>6 DEF InRowOf
<1> QED BY <1>7, RowLies DEF Under, Over, RightOf, LeftOf

(* --------------------------------- a net ---------------------------------- *)

\* Cut short, a list of hosts names the rest.
LEMMA HostsShown ==
    ASSUME NEW hosts \in Nat, NEW most \in Nat
    PROVE  /\ Least(hosts, most) \in Nat /\ (IF hosts > most THEN 1 ELSE 0) \in Nat
           /\ hosts = Least(hosts, most) + (IF hosts > most THEN hosts - most ELSE 0)
           /\ ShownHosts(hosts, most) = Least(hosts, most) + (IF hosts > most THEN 1 ELSE 0)
BY DEF Least, ShownHosts

\* The size of a net is a size (drawio._measure_net).
LEMMA NetIs ==
    ASSUME NEW hosts \in Nat
    PROVE  NetH(hosts) \in Nat /\ NetH(hosts) >= 54 /\ NetSize(hosts) \in Sizes /\ NetSize(hosts).w = 240
           /\ NetSize(hosts).h = NetH(hosts)
<1>1. RowsMax \in Nat
  BY DrawingAssumption
<1> DEFINE rows == Least(hosts, RowsMax) + (IF hosts > RowsMax THEN 1 ELSE 0)
<1>2. rows \in Nat
  BY <1>1 DEF Least
<1> HIDE DEF rows
<1>3. NetH(hosts) = 48 + (IF rows = 0 THEN 6 ELSE rows * 34 + 8)
  BY DEF NetH, NetHead, rows
<1>4. NetH(hosts) \in Nat /\ NetH(hosts) >= 54
  BY <1>2, <1>3
<1> QED BY <1>4 DEF NetSize, NetW, Sizes

\* The hosts of a net lie below its head, one below the other.
LEMMA NetTidy ==
    ASSUME NEW hosts \in Nat
    PROVE  Tidy(NetFrame(hosts))
<1> DEFINE shown == Least(hosts, RowsMax)
           more  == IF hosts > RowsMax THEN 1 ELSE 0
           k == shown + more
           s == [i \in 1..k |-> Box(6, NetHead + 4 + (i - 1) * 34 + 1, NetW - 12, 28)]
           told == shown + (IF more = 1 THEN hosts - RowsMax ELSE 0)
<1>1. RowsMax \in Nat
  BY DrawingAssumption
<1>2. shown \in Nat /\ more \in Nat /\ k \in Nat /\ hosts = told
  BY <1>1 DEF Least
<1>3. NetFrame(hosts) = List(NetW, NetH(hosts), s, hosts, told)
  BY DEF NetFrame
<1>4. NetH(hosts) = 48 + (IF k = 0 THEN 6 ELSE k * 34 + 8)
  BY DEF NetH, NetHead
<1> HIDE DEF k, told
<1>5. \A i \in 1..k : s[i] = Box(6, 53 + (i - 1) * 34, 228, 28)
  BY DEF NetHead, NetW
<1>6. ASSUME NEW i \in 1..k PROVE s[i] \in Boxes /\ s[i].x = 6 /\ s[i].y = 53 + (i - 1) * 34 /\ s[i].w = 228 /\ s[i].h = 28
  <2>1. s[i] = Box(6, 53 + (i - 1) * 34, 228, 28) /\ 53 + (i - 1) * 34 \in Int
    BY <1>5
  <2> HIDE DEF s
  <2> QED BY <2>1 DEF Box, Boxes
<1>7. s \in [1..k -> Boxes]
  BY <1>6
<1> HIDE DEF s
<1>9. Clear(s, 240, NetH(hosts))
  <2>1. NetH(hosts) \in Int /\ 53 + Stride(k + 1, 34) <= NetH(hosts)
    BY <1>2, <1>4 DEF Stride
  <2>2. OnSteps(k, 34, s, 6, 53, 240, 240, NetH(hosts))
    BY <1>2, <1>6, <1>7, <2>1, SMTT(60) DEF OnSteps, Stride
  <2> QED BY <2>2, StepsDown
<1> QED BY <1>2, <1>3, <1>9, TidyFrame DEF NetW

(* ------------------------------ packed boxes ------------------------------ *)

\* Places for boxes of the sizes, within w and h, none over another.
Packed(sizes, p) ==
    /\ sizes \in Seq(Sizes) /\ p.w \in Nat /\ p.h \in Nat
    /\ \A i \in 1..Len(sizes) :
         /\ p.pos[i].x \in Nat /\ p.pos[i].y \in Nat
         /\ p.pos[i].x + sizes[i].w <= p.w /\ p.pos[i].y + sizes[i].h <= p.h
         /\ \A j \in 1..Len(sizes) : i < j =>
              \/ p.pos[i].x + sizes[i].w <= p.pos[j].x \/ p.pos[j].x + sizes[j].w <= p.pos[i].x
              \/ p.pos[i].y + sizes[i].h <= p.pos[j].y \/ p.pos[j].y + sizes[j].h <= p.pos[i].y

\* _pack: boxes of any sizes in rows of at most cols lie apart, inside its width and height.
LEMMA PackPlaces ==
    ASSUME NEW sizes \in Seq(Sizes), NEW cols \in Nat \ {0}, NEW gap \in Nat
    PROVE  Packed(sizes, Pack(sizes, cols, gap))
<1> DEFINE p == Pack(sizes, cols, gap)
<1>1. /\ p.w \in Nat /\ p.h \in Nat
      /\ \A i \in 1..Len(sizes) :
           /\ p.pos[i].x \in Nat /\ p.pos[i].y \in Nat
           /\ p.pos[i].x + sizes[i].w <= p.w /\ p.pos[i].y + sizes[i].h <= p.h
           /\ \A j \in 1..Len(sizes) : i < j =>
                p.pos[i].x + sizes[i].w <= p.pos[j].x \/ p.pos[i].y + sizes[i].h <= p.pos[j].y
  BY PackIs
<1> HIDE DEF p
<1> QED BY <1>1 DEF Packed, p

\* A place that is moved stays within the size that is moved.
LEMMA MovedFits ==
    ASSUME NEW x \in Nat, NEW w \in Nat, NEW most \in Nat, NEW d \in Nat, NEW all \in Int, x + w <= most,
           all = Endless \/ d + most <= all
    PROVE  d + x >= 0 /\ (d + x) + w <= d + most /\ (all = Endless \/ (d + x) + w <= all)
OBVIOUS

\* What lies apart still does when both are moved.
LEMMA MovedApart ==
    ASSUME NEW x \in Nat, NEW w \in Nat, NEW y \in Nat, NEW d \in Nat, x + w <= y
    PROVE  (d + x) + w <= d + y
OBVIOUS

\* The boxes themselves.
LEMMA AtIs ==
    ASSUME NEW sizes, NEW p, Packed(sizes, p), NEW dx \in Nat, NEW dy \in Nat, NEW w \in Int, NEW h \in Int,
           w = Endless \/ dx + p.w <= w, h = Endless \/ dy + p.h <= h
    PROVE  /\ Clear(At(sizes, p.pos, dx, dy), w, h)
           /\ DOMAIN At(sizes, p.pos, dx, dy) = 1..Len(sizes)
           /\ \A i \in 1..Len(sizes) : At(sizes, p.pos, dx, dy)[i] =
                Box(dx + p.pos[i].x, dy + p.pos[i].y, sizes[i].w, sizes[i].h)
           /\ LeftOf(At(sizes, p.pos, dx, dy), dx + p.w) /\ Over(At(sizes, p.pos, dx, dy), dy + p.h)
<1> DEFINE n == Len(sizes)
           s == At(sizes, p.pos, dx, dy)
           a == p.w
           b == p.h
<1>0. sizes \in Seq(Sizes) /\ a \in Nat /\ b \in Nat
  BY DEF Packed
<1>1. n \in Nat /\ DOMAIN sizes = 1..n /\ \A i \in 1..n : sizes[i] \in Sizes
  BY <1>0, LenProperties
<1>2. s = [i \in 1..n |-> Box(dx + p.pos[i].x, dy + p.pos[i].y, sizes[i].w, sizes[i].h)]
  BY <1>1 DEF At
<1> HIDE DEF s
<1>3. ASSUME NEW i \in 1..n
      PROVE  /\ sizes[i].w \in Nat /\ sizes[i].h \in Nat /\ p.pos[i].x \in Nat /\ p.pos[i].y \in Nat
             /\ p.pos[i].x + sizes[i].w <= a /\ p.pos[i].y + sizes[i].h <= b
  BY <1>1 DEF Packed, Sizes
<1>4. ASSUME NEW i \in 1..n
      PROVE  /\ s[i] \in Boxes /\ s[i].x = dx + p.pos[i].x /\ s[i].y = dy + p.pos[i].y
             /\ s[i].w = sizes[i].w /\ s[i].h = sizes[i].h
  <2>1. s[i] = Box(dx + p.pos[i].x, dy + p.pos[i].y, sizes[i].w, sizes[i].h)
    BY <1>2
  <2>2. dx + p.pos[i].x \in Int /\ dy + p.pos[i].y \in Int /\ sizes[i].w \in Int /\ sizes[i].h \in Int
    BY <1>3, SMTT(60)
  <2> QED BY <2>1, <2>2 DEF Box, Boxes
<1>5. s \in [1..n -> Boxes]
  BY <1>2, <1>4
<1>6. w = Endless \/ dx + a <= w
  OBVIOUS
<1>11. h = Endless \/ dy + b <= h
  OBVIOUS
<1> HIDE DEF a, b
<1>7. ASSUME NEW i \in 1..n PROVE Fit(s[i], w, h) /\ s[i].x + s[i].w <= dx + a /\ s[i].y + s[i].h <= dy + b
  <2>1. dx + p.pos[i].x >= 0 /\ (w = Endless \/ (dx + p.pos[i].x) + sizes[i].w <= w) /\ (dx + p.pos[i].x) + sizes[i].w <= dx + a
    <3>1. p.pos[i].x \in Nat /\ sizes[i].w \in Nat /\ p.pos[i].x + sizes[i].w <= a /\ a \in Nat
      BY <1>0, <1>3
    <3> QED BY <3>1, <1>6, MovedFits
  <2>2. dy + p.pos[i].y >= 0 /\ (h = Endless \/ (dy + p.pos[i].y) + sizes[i].h <= h) /\ (dy + p.pos[i].y) + sizes[i].h <= dy + b
    <3>1. p.pos[i].y \in Nat /\ sizes[i].h \in Nat /\ p.pos[i].y + sizes[i].h <= b /\ b \in Nat
      BY <1>0, <1>3
    <3> QED BY <3>1, <1>11, MovedFits
  <2> QED BY <1>4, <2>1, <2>2 DEF Fit
<1>8. ASSUME NEW i \in 1..n, NEW j \in 1..n, i < j PROVE Apart(s[i], s[j])
  <2>1. \/ p.pos[i].x + sizes[i].w <= p.pos[j].x \/ p.pos[j].x + sizes[j].w <= p.pos[i].x
        \/ p.pos[i].y + sizes[i].h <= p.pos[j].y \/ p.pos[j].y + sizes[j].h <= p.pos[i].y
    BY <1>8 DEF Packed
  <2>2. \/ (dx + p.pos[i].x) + sizes[i].w <= dx + p.pos[j].x \/ (dx + p.pos[j].x) + sizes[j].w <= dx + p.pos[i].x
        \/ (dy + p.pos[i].y) + sizes[i].h <= dy + p.pos[j].y \/ (dy + p.pos[j].y) + sizes[j].h <= dy + p.pos[i].y
    BY <1>3, <2>1, MovedApart
  <2> QED BY <1>4, <2>2 DEF Apart
<1>9. Clear(s, w, h) /\ DOMAIN s = 1..n
  BY <1>1, <1>5, <1>7, <1>8, ClearBy
<1>10. LeftOf(s, dx + a) /\ Over(s, dy + b)
  BY <1>7, <1>9 DEF LeftOf, Over
<1> QED BY <1>2, <1>9, <1>10 DEF s, a, b

(* ----------------------------- the structure plan ----------------------------- *)

Vdoms   == [ups : Nat, nets : Seq(Nat)]
Boxed   == [vdoms : Seq(Vdoms), switches : Nat]
Located == [named : BOOLEAN, devices : Seq(Boxed)]
\* What the structure plan is drawn of: numbers of hosts in sequences of nets, VDOMs, devices.
Structured(q) == q.sites \in Seq(Located) /\ q.collapse \in BOOLEAN

\* The nets of a VDOM: as many heights as nets, and where the first one begins.
LEMMA NetHsAre ==
    ASSUME NEW q, q.collapse \in BOOLEAN, NEW vd \in Vdoms
    PROVE  /\ NetHs(q, vd) \in Seq(Nat) /\ Len(NetHs(q, vd)) = Len(vd.nets) /\ DOMAIN vd.nets = 1..Len(vd.nets)
           /\ vd.nets \in Seq(Nat) /\ vd.ups \in Nat /\ UplinkH(vd.ups) \in Nat /\ VdomTop(vd) \in Nat
           /\ (vd.ups = 0 => VdomTop(vd) = 42)
           /\ (vd.ups # 0 => VdomTop(vd) = UplinkH(vd.ups) + 54 /\ UplinkH(vd.ups) >= 26)
<1>1. vd.nets \in Seq(Nat) /\ vd.ups \in Nat
  BY DEF Vdoms
<1>2. Len(vd.nets) \in Nat /\ DOMAIN vd.nets = 1..Len(vd.nets) /\ \A i \in DOMAIN vd.nets : vd.nets[i] \in Nat
  BY <1>1, LenProperties
<1>3. ASSUME NEW i \in 1..Len(vd.nets) PROVE (IF Shut(q, vd.nets[i]) THEN NetHead ELSE NetH(vd.nets[i])) \in Nat
  <2>1. vd.nets[i] \in Nat
    BY <1>2
  <2>2. NetH(vd.nets[i]) \in Nat
    BY <2>1, NetIs
  <2> QED BY <2>2 DEF NetHead
<1>4. NetHs(q, vd) = [i \in 1..Len(vd.nets) |-> IF Shut(q, vd.nets[i]) THEN NetHead ELSE NetH(vd.nets[i])]
  BY <1>2 DEF NetHs
<1>5. NetHs(q, vd) \in [1..Len(vd.nets) -> Nat]
  BY <1>3, <1>4
<1>6. NetHs(q, vd) \in Seq(Nat) /\ Len(NetHs(q, vd)) = Len(vd.nets)
  BY <1>2, <1>5, FunctionIsSeq
<1>7. UplinkH(vd.ups) \in Nat /\ (vd.ups # 0 => UplinkH(vd.ups) >= 26)
  BY <1>1, SMTT(60) DEF UplinkH, Least
<1>8. VdomTop(vd) \in Nat /\ (vd.ups = 0 => VdomTop(vd) = 42) /\ (vd.ups # 0 => VdomTop(vd) = UplinkH(vd.ups) + 54)
  BY <1>1, <1>7 DEF VdomTop
<1> QED BY <1>1, <1>2, <1>6, <1>7, <1>8

\* The size of a VDOM is a size (_measure_vdom).
LEMMA VdomIs ==
    ASSUME NEW q, q.collapse \in BOOLEAN, NEW vd \in Vdoms
    PROVE  VdomW(vd) \in Nat /\ VdomH(q, vd) \in Nat
<1>1. VdomW(vd) \in Nat
  BY DEF VdomW, NetW
<1>2. VdomH(q, vd) \in Nat
  <2>1. Extent(NetHs(q, vd), 12) \in Nat /\ VdomTop(vd) \in Nat
    BY NetHsAre, ExtentIs
  <2> QED BY <2>1 DEF VdomH
<1> QED BY <1>1, <1>2

\* The uplinks of a VDOM lie above its nets; both fit however high the row of VDOMs is.
LEMMA VdomTidy ==
    ASSUME NEW q, q.collapse \in BOOLEAN, NEW vd \in Vdoms, NEW h \in Nat, VdomH(q, vd) <= h
    PROVE  Tidy(VdomFrame(q, vd, h))
<1> DEFINE w == VdomW(vd)
           top == VdomTop(vd)
           hs == NetHs(q, vd)
           ups == IF vd.ups = 0 THEN <<>> ELSE <<Box(12, 42, NetW, UplinkH(vd.ups) - 8)>>
           nets == [i \in DOMAIN vd.nets |-> Box(12, VdomTop(vd) + From(NetHs(q, vd), 12, i), NetW, NetHs(q, vd)[i])]
           n == Len(vd.nets)
           all == Extent(hs, 12)
<1>1. /\ hs \in Seq(Nat) /\ Len(hs) = n /\ DOMAIN vd.nets = 1..n /\ n \in Nat
      /\ vd.ups \in Nat /\ UplinkH(vd.ups) \in Nat /\ top \in Nat /\ vd.nets \in Seq(Nat)
      /\ (vd.ups # 0 => top = UplinkH(vd.ups) + 54 /\ UplinkH(vd.ups) >= 26)
  BY NetHsAre, LenProperties
<1>2. all \in Nat
  BY <1>1, ExtentIs
<1>3. VdomFrame(q, vd, h) = Frame(w, h, ups \o nets)
  BY DEF VdomFrame
<1>4. /\ w \in Nat
      /\ vd.ups # 0 \/ n # 0 => w = 264
      /\ vd.ups # 0 => top <= h
      /\ n # 0 => top + all + 12 <= h
  <2>1. n # 0 <=> vd.nets # <<>>
    BY <1>1, EmptySeq
  <2>2. VdomH(q, vd) = IF vd.nets # <<>> THEN top + all + 12 ELSE IF vd.ups = 0 THEN 54 ELSE top
    BY DEF VdomH
  <2>3. w = IF vd.nets = <<>> /\ vd.ups = 0 THEN 200 ELSE 264
    BY DEF VdomW, NetW
  <2> HIDE DEF w, top, all, n
  <2> QED BY <1>1, <1>2, <2>1, <2>2, <2>3
<1>5. Clear(ups, w, h) /\ Over(ups, top)
  <2>1. CASE vd.ups = 0
    BY <2>1, ClearFew, OneIs
  <2>2. CASE vd.ups # 0
    <3> DEFINE b == Box(12, 42, NetW, UplinkH(vd.ups) - 8)
    <3>1. b \in Boxes /\ b.x = 12 /\ b.y = 42 /\ b.w = 240 /\ b.h = UplinkH(vd.ups) - 8
      BY <1>1 DEF Box, Boxes, NetW
    <3>2. ups = <<b>>
      BY <2>2
    <3> HIDE DEF b, w, top, all, n
    <3>3. Fit(b, w, h) /\ b.y + b.h <= top
      BY <1>1, <1>4, <2>2, <3>1 DEF Fit, Endless
    <3> HIDE DEF ups
    <3> QED BY <3>1, <3>2, <3>3, ClearFew, OneIs
  <2> QED BY <2>1, <2>2
<1>6. Clear(nets, w, h) /\ Under(nets, top)
  <2>1. CASE n = 0
    <3>1. nets = <<>>
      BY <1>1, <2>1
    <3> HIDE DEF nets
    <3> QED BY <3>1, ClearFew, OneIs
  <2>2. CASE n # 0
    <3>1. IsColumn(nets, hs, 12, 12, top, 240)
      BY <1>1 DEF IsColumn, NetW
    <3> HIDE DEF nets, top, hs, w, all, n
    <3>2. (w = Endless \/ 12 + 240 <= w) /\ (h = Endless \/ top + all <= h)
      BY <1>1, <1>2, <1>4, <2>2
    <3>3. w \in Int /\ h \in Int
      BY <1>4
    <3> QED BY <3>1, <3>2, <3>3, ColumnIs, ZenonT(60) DEF all
  <2> QED BY <2>1, <2>2
<1> HIDE DEF ups, nets
<1>7. Across(ups, nets)
  <2>1. ups \in Seq(Boxes) /\ nets \in Seq(Boxes) /\ top \in Int
    BY <1>1, <1>5, <1>6 DEF Clear
  <2>2. Parted(ups, nets, top)
    BY <1>5, <1>6, <2>1 DEF Parted
  <2> QED BY <2>2, Divided
<1> QED BY <1>3, <1>5, <1>6, <1>7, ClearJoin, TidyFrame

\* A device is as wide as its VDOMs in a row and as high as the highest of them.
LEMMA DeviceIs ==
    ASSUME NEW q, q.collapse \in BOOLEAN, NEW d \in Boxed
    PROVE  /\ d.vdoms \in Seq(Vdoms) /\ d.switches \in Nat /\ InnerH(q, d) \in Nat /\ DeviceH(q, d) \in Nat
           /\ \A i \in DOMAIN d.vdoms : d.vdoms[i] \in Vdoms /\ VdomH(q, d.vdoms[i]) <= InnerH(q, d)
           /\ VdomWs(d) \in Seq(Nat) /\ Len(VdomWs(d)) = Len(d.vdoms) /\ DOMAIN d.vdoms = 1..Len(d.vdoms)
           /\ DeviceW(d) \in Nat /\ DeviceW(d) >= 248 /\ 48 + Extent(VdomWs(d), 24) <= DeviceW(d)
           /\ DeviceH(q, d) = 82 + InnerH(q, d) /\ Extent(VdomWs(d), 24) \in Nat
           /\ Footprint(q, d) \in Sizes
<1> DEFINE hs == [i \in DOMAIN d.vdoms |-> VdomH(q, d.vdoms[i])]
           n == Len(d.vdoms)
<1>1. d.vdoms \in Seq(Vdoms) /\ d.switches \in Nat
  BY DEF Boxed
<1>2. n \in Nat /\ DOMAIN d.vdoms = 1..n /\ \A i \in 1..n : d.vdoms[i] \in Vdoms
  BY <1>1, LenProperties
<1>3. \A i \in 1..n : VdomW(d.vdoms[i]) \in Nat /\ VdomH(q, d.vdoms[i]) \in Nat
  BY <1>2, VdomIs
<1>4. hs \in Seq(Int) /\ DOMAIN hs = 1..n /\ \A i \in 1..n : hs[i] = VdomH(q, d.vdoms[i])
  <2>1. hs \in [1..n -> Int]
    BY <1>2, <1>3
  <2>2. \A i \in 1..n : hs[i] = VdomH(q, d.vdoms[i])
    BY <1>2
  <2> HIDE DEF hs
  <2> QED BY <1>2, <2>1, <2>2, FunctionIsSeq
<1> HIDE DEF hs, n
<1>5. InnerH(q, d) \in Nat /\ \A i \in 1..n : VdomH(q, d.vdoms[i]) <= InnerH(q, d)
  <2>1. InnerH(q, d) = Largest(hs, 54)
    BY DEF InnerH, hs
  <2>2. Largest(hs, 54) \in Int /\ 54 <= Largest(hs, 54) /\ \A i \in DOMAIN hs : hs[i] <= Largest(hs, 54)
    <3>1. hs \in Seq(Int) /\ 54 \in Int
      BY <1>4
    <3> QED BY <3>1, LargestIs
  <2> QED BY <1>4, <2>1, <2>2
<1>6. VdomWs(d) \in Seq(Nat) /\ Len(VdomWs(d)) = n
  <2>1. VdomWs(d) = [i \in 1..n |-> VdomW(d.vdoms[i])]
    BY <1>2 DEF VdomWs
  <2>2. VdomWs(d) \in [1..n -> Nat]
    BY <1>3, <2>1
  <2> QED BY <1>2, <2>2, FunctionIsSeq
<1>7. Extent(VdomWs(d), 24) \in Nat
  BY <1>6, ExtentIs
<1>8. DeviceW(d) \in Nat /\ DeviceW(d) >= 248 /\ 48 + Extent(VdomWs(d), 24) <= DeviceW(d)
  BY <1>7 DEF DeviceW, Greater
<1>9. DeviceH(q, d) = 82 + InnerH(q, d) /\ DeviceH(q, d) \in Nat
  BY <1>5 DEF DeviceH
<1>10. Footprint(q, d) \in Sizes
  BY <1>1, <1>8, <1>9 DEF Footprint, Sizes
<1> QED BY <1>1, <1>2, <1>5, <1>6, <1>7, <1>8, <1>9, <1>10 DEF n

\* The VDOMs of a device stand in one row, below its head.
LEMMA DeviceTidy ==
    ASSUME NEW q, q.collapse \in BOOLEAN, NEW d \in Boxed
    PROVE  Tidy(DeviceFrame(q, d))
<1> DEFINE s == [i \in DOMAIN d.vdoms |-> Box(24 + From(VdomWs(d), 24, i), 58, VdomWs(d)[i], InnerH(q, d))]
<1>1. IsRow(s, VdomWs(d), 24, 24, 58, InnerH(q, d))
  BY DeviceIs DEF IsRow
<1>2. DeviceFrame(q, d) = Frame(DeviceW(d), DeviceH(q, d), s)
  BY DEF DeviceFrame
<1> HIDE DEF s
<1>3. /\ DeviceW(d) \in Int /\ DeviceH(q, d) \in Int /\ 24 + Extent(VdomWs(d), 24) <= DeviceW(d)
      /\ 58 + InnerH(q, d) <= DeviceH(q, d)
  BY DeviceIs
<1>4. Clear(s, DeviceW(d), DeviceH(q, d))
  BY <1>1, <1>3, RowIs
<1> QED BY <1>2, <1>4, TidyFrame

\* The symbol of a device above its box, its switches in a column beside it.
LEMMA FootprintTidy ==
    ASSUME NEW q, q.collapse \in BOOLEAN, NEW d \in Boxed
    PROVE  Tidy(FootprintFrame(q, d))
<1> DEFINE w == Footprint(q, d).w
           dw == DeviceW(d)
           dh == DeviceH(q, d)
           k == d.switches
           a == <<Box(0, 0, 202, 28)>>
           b == <<Box(0, 34, dw, dh)>>
           ab == <<Box(0, 0, 202, 28), Box(0, 34, dw, dh)>>
           s == [i \in 1..k |-> Box(dw + 24, 34 + (i - 1) * 76, 72, 40)]
<1>1. dw \in Nat /\ dw >= 248 /\ dh \in Nat /\ k \in Nat
  BY DeviceIs
<1>2. w \in Nat /\ dw <= w /\ (k > 0 => dw + 96 <= w)
  BY <1>1 DEF Footprint
<1>3. FootprintFrame(q, d) = Frame(w, Endless, ab \o s)
  BY DEF FootprintFrame
<1>4. ab = a \o b
  OBVIOUS
<1>5. ASSUME NEW i \in 1..k
      PROVE s[i] \in Boxes /\ s[i].x = dw + 24 /\ s[i].y = 34 + (i - 1) * 76 /\ s[i].w = 72 /\ s[i].h = 40
  <2>1. s[i] = Box(dw + 24, 34 + (i - 1) * 76, 72, 40) /\ dw + 24 \in Int /\ 34 + (i - 1) * 76 \in Int
    BY <1>1
  <2> HIDE DEF s, dw
  <2> QED BY <2>1 DEF Box, Boxes
<1>6. s \in [1..k -> Boxes]
  BY <1>5
<1>7. IsOne(a, 0, 0, 202, 28) /\ IsOne(b, 0, 34, dw, dh)
  BY <1>1 DEF IsOne
<1> HIDE DEF s, w, dw, dh, k
<1>8. Clear(s, w, Endless) /\ RightOf(s, dw)
  <2>1. CASE k = 0
    <3>1. DOMAIN s = {} /\ s \in [{} -> Boxes]
      BY <1>6, <2>1
    <3>2. s = <<>>
      BY <3>1
    <3> QED BY <3>2, ClearFew, OneIs
  <2>2. CASE k > 0
    <3>1. OnSteps(k, 76, s, dw + 24, 34, dw + 96, w, Endless)
      BY <1>1, <1>2, <1>5, <1>6, <2>2 DEF OnSteps, Stride, Endless
    <3>2. Clear(s, w, Endless) /\ \A i \in DOMAIN s : dw + 24 <= s[i].x
      BY <3>1, StepsDown
    <3>3. DOMAIN s = 1..k
      BY <1>6
    <3>4. \A i \in DOMAIN s : dw <= s[i].x
      BY <1>1, <1>5, <3>3
    <3> QED BY <3>2, <3>4 DEF RightOf
  <2> QED BY <1>1, <2>1, <2>2
<1>9. Clear(a, w, Endless) /\ Over(a, 34) /\ LeftOf(a, dw)
  <2>1. 0 + 28 <= 34 /\ 0 + 202 <= dw /\ Room(0 + 202, w) /\ Room(0 + 28, Endless)
    BY <1>1, <1>2 DEF Room
  <2> HIDE DEF a
  <2> QED BY <1>7, <2>1, OneBox
<1>10. Clear(b, w, Endless) /\ Under(b, 34) /\ LeftOf(b, dw)
  <2>1. 34 <= 34 /\ 0 + dw <= dw /\ Room(0 + dw, w) /\ Room(34 + dh, Endless)
    BY <1>1, <1>2 DEF Room
  <2> HIDE DEF b
  <2> QED BY <1>7, <2>1, OneBox
<1> HIDE DEF a, b, ab
<1>11. Clear(ab, w, Endless)
  <2>1. Parted(a, b, 34)
    BY <1>9, <1>10 DEF Parted, Clear
  <2> QED BY <1>4, <1>9, <1>10, <2>1, Divided, ClearJoin
<1>12. Across(ab, s)
  <2>1. a \in Seq(Boxes) /\ b \in Seq(Boxes) /\ s \in Seq(Boxes) /\ dw \in Int
    BY <1>1, <1>8, <1>9, <1>10 DEF Clear
  <2>2. Parted(a, s, dw) /\ Parted(b, s, dw)
    BY <1>8, <1>9, <1>10, <2>1 DEF Parted
  <2>3. Across(a, s) /\ Across(b, s)
    BY <2>2, Divided
  <2> QED BY <1>4, <2>1, <2>3, AcrossJoin
<1> QED BY <1>3, <1>8, <1>11, <1>12, ClearJoin, TidyFrame

\* The devices of a site, packed.
LEMMA SitePacked ==
    ASSUME NEW q, q.collapse \in BOOLEAN, NEW g \in Located
    PROVE  Packed([i \in DOMAIN g.devices |-> Footprint(q, g.devices[i])], SitePack(q, g))
<1> DEFINE sizes == [i \in DOMAIN g.devices |-> Footprint(q, g.devices[i])]
           n == Len(g.devices)
<1>1. g.devices \in Seq(Boxed) /\ g.named \in BOOLEAN
  BY DEF Located
<1>2. n \in Nat /\ DOMAIN g.devices = 1..n /\ \A i \in 1..n : g.devices[i] \in Boxed
  BY <1>1, LenProperties
<1>3. \A i \in 1..n : Footprint(q, g.devices[i]) \in Sizes
  BY <1>2, DeviceIs
<1>4. sizes \in Seq(Sizes)
  <2>1. sizes \in [1..n -> Sizes]
    BY <1>2, <1>3
  <2> HIDE DEF sizes
  <2> QED BY <1>2, <2>1, FunctionIsSeq
<1>5. SitePack(q, g) = Pack(sizes, FwsPerRow, 24)
  BY DEF SitePack
<1> HIDE DEF sizes
<1>6. Packed(sizes, SitePack(q, g))
  <2>1. FwsPerRow \in Nat \ {0} /\ 24 \in Nat
    BY DrawingAssumption
  <2> QED BY <1>4, <1>5, <2>1, PackPlaces
<1> QED BY <1>6 DEF sizes

\* The size of a site: what its devices take, and the edge of a named one.
LEMMA SiteIs ==
    ASSUME NEW q, q.collapse \in BOOLEAN, NEW g \in Located
    PROVE  /\ g.devices \in Seq(Boxed) /\ g.named \in BOOLEAN
           /\ SitePack(q, g).w \in Nat /\ SitePack(q, g).h \in Nat /\ SiteSize(q, g) \in Sizes
           /\ SiteSize(q, g).w = SitePack(q, g).w + (IF g.named THEN 48 ELSE 0)
           /\ SiteSize(q, g).h = SitePack(q, g).h + (IF g.named THEN 84 ELSE 0)
<1>1. g.devices \in Seq(Boxed) /\ g.named \in BOOLEAN
  BY DEF Located
<1>6. Packed([i \in DOMAIN g.devices |-> Footprint(q, g.devices[i])], SitePack(q, g))
  BY SitePacked
<1>7. SitePack(q, g).w \in Nat /\ SitePack(q, g).h \in Nat
  BY <1>6 DEF Packed
<1>8. /\ SiteSize(q, g) \in Sizes
      /\ SiteSize(q, g).w = SitePack(q, g).w + (IF g.named THEN 48 ELSE 0)
      /\ SiteSize(q, g).h = SitePack(q, g).h + (IF g.named THEN 84 ELSE 0)
  BY <1>1, <1>7 DEF SiteSize, Sizes
<1> QED BY <1>1, <1>7, <1>8

\* The devices of a place stand in rows, below its name.
LEMMA SiteTidy ==
    ASSUME NEW q, q.collapse \in BOOLEAN, NEW g \in Located
    PROVE  Tidy(SiteFrame(q, g))
<1> DEFINE sizes == [i \in DOMAIN g.devices |-> Footprint(q, g.devices[i])]
           p == SitePack(q, g)
           w == SiteSize(q, g).w
           h == SiteSize(q, g).h
           dx == IF g.named THEN 24 ELSE 0
           dy == IF g.named THEN 60 ELSE 0
<1>1. SiteFrame(q, g) = Frame(w, h, At(sizes, p.pos, dx, dy))
  BY DEF SiteFrame
<1>2. /\ Packed(sizes, p) /\ p.w \in Nat /\ p.h \in Nat /\ g.named \in BOOLEAN
      /\ w = p.w + (IF g.named THEN 48 ELSE 0) /\ h = p.h + (IF g.named THEN 84 ELSE 0)
  BY SiteIs, SitePacked
<1>3. dx \in Nat /\ dy \in Nat
  OBVIOUS
<1>4. w \in Int /\ h \in Int /\ dx + p.w <= w /\ dy + p.h <= h
  <2> HIDE DEF p, w, h
  <2> QED BY <1>2
<1> HIDE DEF sizes, p, w, h, dx, dy
<1>5. Clear(At(sizes, p.pos, dx, dy), w, h)
  BY <1>2, <1>3, <1>4, AtIs
<1> QED BY <1>1, <1>5, TidyFrame

\* The places in rows, and the title block to the right of them.
LEMMA StructurePageTidy ==
    ASSUME NEW q, Structured(q)
    PROVE  Tidy(StructurePage(q))
<1> DEFINE sizes == [i \in DOMAIN q.sites |-> SiteSize(q, q.sites[i])]
           p == Pack(sizes, SitesPerRow, 24)
           a == At(sizes, p.pos, 40, 40)
           x == 40 + p.w + 48
           y == Greater(40, 40 + p.h - TitleH)
           b == <<Box(x, y, TitleW, TitleH)>>
           n == Len(q.sites)
<1>1. q.sites \in Seq(Located) /\ q.collapse \in BOOLEAN
  BY DEF Structured
<1>2. n \in Nat /\ DOMAIN q.sites = 1..n /\ \A i \in 1..n : q.sites[i] \in Located
  BY <1>1, LenProperties
<1>3. ASSUME NEW i \in 1..n PROVE SiteSize(q, q.sites[i]) \in Sizes
  <2>1. q.sites[i] \in Located
    BY <1>2
  <2> QED BY <1>1, <2>1, SiteIs
<1>4. sizes \in Seq(Sizes)
  <2>1. sizes \in [1..n -> Sizes]
    BY <1>2, <1>3
  <2> HIDE DEF sizes
  <2> QED BY <1>2, <2>1, FunctionIsSeq
<1>5. StructurePage(q) = Frame(Endless, Endless, a \o b)
  BY DEF StructurePage
<1> HIDE DEF sizes
<1>6. Packed(sizes, p)
  <2>1. SitesPerRow \in Nat \ {0} /\ 24 \in Nat
    BY DrawingAssumption
  <2> QED BY <1>4, <2>1, PackPlaces
<1> HIDE DEF p
<1>7. p.w \in Nat /\ p.h \in Nat
  BY <1>6 DEF Packed
<1>8. Clear(a, Endless, Endless) /\ LeftOf(a, 40 + p.w)
  BY <1>6, AtIs DEF Endless
<1>9. IsOne(b, x, y, 1000, 208)
  BY <1>7 DEF IsOne, Greater, TitleH, TitleW
<1>10. Clear(b, Endless, Endless) /\ RightOf(b, 40 + p.w)
  <2>1. 40 + p.w <= x /\ Room(x + 1000, Endless) /\ Room(y + 208, Endless)
    BY <1>7 DEF Room
  <2> HIDE DEF b, x, y
  <2> QED BY <1>9, <2>1, OneBox
<1> HIDE DEF a, b, x, y
<1>11. Parted(a, b, 40 + p.w)
  BY <1>7, <1>8, <1>10 DEF Parted, Clear
<1> QED BY <1>5, <1>8, <1>10, <1>11, Divided, ClearJoin, TidyFrame

\* Every frame of the structure plan.
LEMMA StructureTidy ==
    ASSUME NEW q, Structured(q), NEW f \in Structure(q)
    PROVE  Tidy(f)
<1> DEFINE devices == UNION {Elements(g.devices) : g \in Elements(q.sites)}
           nets    == UNION {UNION {Elements(v.nets) : v \in Elements(d.vdoms)} : d \in devices}
<1>1. q.sites \in Seq(Located) /\ q.collapse \in BOOLEAN
  BY DEF Structured
<1>2. \A g \in Elements(q.sites) : g \in Located
  BY <1>1, ElementsFinite
<1>3. ASSUME NEW d \in devices PROVE d \in Boxed
  <2>1. PICK g \in Elements(q.sites) : d \in Elements(g.devices)
    OBVIOUS
  <2>2. g.devices \in Seq(Boxed)
    BY <1>2 DEF Located
  <2> QED BY <2>1, <2>2, ElementsFinite
<1>4. ASSUME NEW d \in devices, NEW v \in Elements(d.vdoms) PROVE v \in Vdoms /\ VdomH(q, v) <= InnerH(q, d) /\ InnerH(q, d) \in Nat
  <2>1. PICK i \in DOMAIN d.vdoms : v = d.vdoms[i]
    BY DEF Elements
  <2> QED BY <1>1, <1>3, <2>1, DeviceIs
<1>5. ASSUME NEW n \in nets PROVE n \in Nat
  <2>1. PICK d \in devices : \E v \in Elements(d.vdoms) : n \in Elements(v.nets)
    OBVIOUS
  <2>2. PICK v \in Elements(d.vdoms) : n \in Elements(v.nets)
    BY <2>1
  <2>3. v.nets \in Seq(Nat)
    <3>1. v \in Vdoms
      BY <1>4
    <3> QED BY <3>1 DEF Vdoms
  <2> QED BY <2>2, <2>3, ElementsFinite
<1> HIDE DEF devices, nets
<1>6. CASE f = StructurePage(q)
  BY <1>6, StructurePageTidy
<1>7. CASE \E g \in Elements(q.sites) : f = SiteFrame(q, g)
  BY <1>1, <1>2, <1>7, SiteTidy
<1>8. CASE \E d \in devices : f = FootprintFrame(q, d)
  BY <1>1, <1>3, <1>8, FootprintTidy
<1>9. CASE \E d \in devices : f = DeviceFrame(q, d)
  BY <1>1, <1>3, <1>9, DeviceTidy
<1>10. CASE \E d \in devices : \E v \in Elements(d.vdoms) : f = VdomFrame(q, v, InnerH(q, d))
  BY <1>1, <1>4, <1>10, VdomTidy
<1>11. CASE \E n \in nets : f = NetFrame(n)
  BY <1>5, <1>11, NetTidy
<1>12. f \in {StructurePage(q)} \cup {SiteFrame(q, g) : g \in Elements(q.sites)}
             \cup {FootprintFrame(q, d) : d \in devices} \cup {DeviceFrame(q, d) : d \in devices}
             \cup (UNION {{VdomFrame(q, v, InnerH(q, d)) : v \in Elements(d.vdoms)} : d \in devices})
             \cup {NetFrame(n) : n \in {k \in nets : ~Shut(q, k)}}
  BY DEF Structure, devices, nets
<1> QED BY <1>6, <1>7, <1>8, <1>9, <1>10, <1>11, <1>12

(* --------------------------- the services of a family --------------------------- *)

NetOf     == [fw : Nat, hosts : Nat]
ServiceOf == [nets : Seq(NetOf), lines : Nat]
\* What the page of a family is drawn of: the firewalls with a column are those of its nets.
Familied(q) ==
    /\ q.fws \in Nat /\ q.services \in Seq(ServiceOf)
    /\ q.fws > 0 => /\ q.services # <<>>
                    /\ \A s \in Elements(q.services) : \A n \in Elements(s.nets) : n.fw \in 1..q.fws

\* A net in the column of its firewall: apart from the column of another, within its own.
LEMMA ColumnsApart ==
    ASSUME NEW a \in Nat, NEW b \in Nat, NEW most \in Nat, 1 <= a, a <= most, a < b
    PROVE  (a - 1) * 264 + 240 <= (b - 1) * 264
OBVIOUS

\* The column of a firewall ends within the columns of all.
LEMMA ColumnFits ==
    ASSUME NEW a \in Nat, NEW most \in Nat, 1 <= a, a <= most
    PROVE  (a - 1) * 264 \in Nat /\ (a - 1) * 264 + 240 <= most * 264 - 24
OBVIOUS

\* A net in its column ends a gap above where the column ends.
LEMMA Stands ==
    ASSUME NEW y \in Nat, NEW hh \in Nat, NEW total \in Int, NEW most \in Int, y + (hh + 24) + 0 <= total, total <= most
    PROVE  y + hh <= most - 24 /\ most - 24 >= 0
OBVIOUS

\* _column_pack: each net in the column of its firewall, apart from every other.
LEMMA ColumnPacked ==
    ASSUME NEW q, q.fws \in Nat, q.fws > 0, NEW nets \in Seq(NetOf), \A i \in DOMAIN nets : nets[i].fw \in 1..q.fws
    PROVE  Packed([i \in DOMAIN nets |-> NetSize(nets[i].hosts)], ColumnPack(q, nets))
           /\ ColumnPack(q, nets).w = q.fws * 264 - 24
<1> DEFINE n == Len(nets)
           sizes == [i \in DOMAIN nets |-> NetSize(nets[i].hosts)]
           under(c) == [i \in DOMAIN nets |-> IF nets[i].fw = c THEN NetH(nets[i].hosts) + 24 ELSE 0]
           p == ColumnPack(q, nets)
           totals == {Total(under(c)) : c \in 1..q.fws}
           fw(i) == nets[i].fw
           high(i) == NetH(nets[i].hosts)
<1>1. n \in Nat /\ DOMAIN nets = 1..n /\ \A i \in 1..n : nets[i] \in NetOf
  BY LenProperties
<1>2. \A i \in 1..n : fw(i) \in 1..q.fws /\ fw(i) \in Nat /\ nets[i].hosts \in Nat
  BY <1>1 DEF NetOf
<1>3. ASSUME NEW i \in 1..n
      PROVE  /\ high(i) \in Nat /\ high(i) >= 54 /\ NetSize(nets[i].hosts) \in Sizes
             /\ NetSize(nets[i].hosts).w = 240 /\ NetSize(nets[i].hosts).h = high(i)
  <2> DEFINE k == nets[i].hosts
  <2>1. k \in Nat
    BY <1>2
  <2> HIDE DEF k
  <2>2. NetH(k) \in Nat /\ NetH(k) >= 54 /\ NetSize(k) \in Sizes /\ NetSize(k).w = 240 /\ NetSize(k).h = NetH(k)
    BY <2>1, NetIs
  <2> QED BY <2>2 DEF k
<1>4. ASSUME NEW c
      PROVE  /\ under(c) \in Seq(Nat) /\ Len(under(c)) = n
             /\ \A i \in 1..n : fw(i) = c => under(c)[i] = high(i) + 24
  <2>1. \A i \in 1..n : (IF nets[i].fw = c THEN NetH(nets[i].hosts) + 24 ELSE 0) \in Nat
    BY <1>3
  <2>2. under(c) \in [1..n -> Nat]
    BY <1>1, <2>1
  <2>3. \A i \in 1..n : fw(i) = c => under(c)[i] = high(i) + 24
    BY <1>1
  <2> HIDE DEF under, n
  <2> QED BY <1>1, <2>2, <2>3, FunctionIsSeq
<1>5. sizes \in Seq(Sizes) /\ Len(sizes) = n /\ \A i \in 1..n : sizes[i].w = 240 /\ sizes[i].h = high(i)
  <2>1. sizes \in [1..n -> Sizes]
    BY <1>1, <1>3
  <2>2. \A i \in 1..n : sizes[i] = NetSize(nets[i].hosts)
    BY <1>1
  <2> HIDE DEF sizes, n, high
  <2>3. sizes \in Seq(Sizes) /\ Len(sizes) = n
    BY <1>1, <2>1, FunctionIsSeq
  <2> QED BY <1>3, <2>2, <2>3
<1>6. /\ p = [pos |-> [i \in DOMAIN nets |-> [x |-> (nets[i].fw - 1) * 264, y |-> From(under(nets[i].fw), 0, i)]],
              w |-> q.fws * 264 - 24,
              h |-> IF nets = <<>> THEN 0 ELSE Max({Total(under(c)) : c \in 1..q.fws}) - 24]
  BY DEF ColumnPack, NetW
<1>7. /\ \A i \in 1..n : p.pos[i].x = (fw(i) - 1) * 264 /\ p.pos[i].y = From(under(fw(i)), 0, i)
      /\ p.w = q.fws * 264 - 24 /\ p.h = IF nets = <<>> THEN 0 ELSE Max(totals) - 24
  <2> HIDE DEF under
  <2> QED BY <1>1, <1>6
<1>8. /\ totals \subseteq Int /\ (q.fws > 0 => totals # {}) /\ IsFiniteSet(totals)
      /\ \A c \in 1..q.fws : Total(under(c)) \in totals
  <2> DEFINE tot == [c \in 1..q.fws |-> Total(under(c))]
  <2>1. \A c : Total(under(c)) \in Nat
    <3> TAKE c
    <3>1. Len(under(c)) + 1 \in 1..Len(under(c)) + 1 /\ under(c) \in Seq(Nat) /\ 0 \in Nat
      BY <1>1, <1>4
    <3> HIDE DEF under
    <3> QED BY <3>1, FromIs DEF Total
  <2> HIDE DEF under
  <2>2. totals = {tot[c] : c \in 1..q.fws}
    OBVIOUS
  <2>3. IsFiniteSet(1..q.fws)
    BY FS_Interval
  <2>4. IsFiniteSet({tot[c] : c \in 1..q.fws})
    <3> HIDE DEF tot
    <3> QED BY <2>3, ImageFinite
  <2>5. totals \subseteq Int /\ \A c \in 1..q.fws : Total(under(c)) \in totals
    BY <2>1
  <2>6. 1 \in 1..q.fws
    OBVIOUS
  <2> HIDE DEF totals, tot
  <2> QED BY <2>2, <2>4, <2>5, <2>6
<1>9. Max(totals) \in Int /\ \A c \in 1..q.fws : Total(under(c)) <= Max(totals)
  <2> HIDE DEF totals
  <2>1. totals # {}
    BY <1>8
  <2>2. Max(totals) \in totals /\ \A x \in totals : x <= Max(totals)
    BY <1>8, <2>1, MaxIs
  <2> QED BY <1>8, <2>2
<1> HIDE DEF totals, p, sizes
<1>10. ASSUME NEW i \in 1..n
       PROVE  /\ From(under(fw(i)), 0, i) \in Nat
              /\ From(under(fw(i)), 0, i) + (high(i) + 24) + 0 <= Total(under(fw(i)))
  <2> DEFINE u == under(fw(i))
  <2>1. u \in Seq(Nat) /\ Len(u) = n /\ u[i] = high(i) + 24
    <3>1. u \in Seq(Nat) /\ Len(u) = n /\ \A k \in 1..n : fw(k) = fw(i) => u[k] = high(k) + 24
      BY <1>4
    <3> HIDE DEF u, fw, high, n
    <3> QED BY <3>1
  <2>2. i \in 1..n + 1 /\ n + 1 \in 1..n + 1 /\ i < n + 1 /\ 0 \in Nat
    BY <1>1
  <2> HIDE DEF u, high, n
  <2>3. From(u, 0, i) \in Nat
    BY <2>1, <2>2, FromIs
  <2>4. From(u, 0, i) + u[i] + 0 <= From(u, 0, n + 1)
    BY <2>1, <2>2, FromGrows
  <2>5. Total(u) = From(u, 0, n + 1)
    BY <2>1 DEF Total
  <2> QED BY <2>1, <2>3, <2>4, <2>5 DEF u
<1> HIDE DEF under, fw, high, n
<1>11. ASSUME NEW i \in 1..n
       PROVE  /\ p.pos[i].y \in Nat /\ p.pos[i].y + high(i) <= Max(totals) - 24 /\ Max(totals) - 24 >= 0
  <2>1. Total(under(fw(i))) \in Int /\ Total(under(fw(i))) <= Max(totals)
    <3>1. Total(under(fw(i))) \in totals /\ totals \subseteq Int
      BY <1>2, <1>8
    <3> QED BY <1>2, <1>9, <3>1
  <2> QED BY <1>3, <1>7, <1>9, <1>10, <2>1, Stands, SMTT(60)
<1>12. p.w \in Nat /\ p.h \in Nat /\ (n # 0 => p.h = Max(totals) - 24)
  <2>1. p.w \in Nat
    BY <1>7
  <2>2. CASE nets = <<>>
    <3>1. n = 0 /\ p.h = 0
      BY <1>7, <2>2 DEF n
    <3> QED BY <2>1, <3>1
  <2>3. CASE nets # <<>>
    <3>1. n # 0
      BY <2>3, EmptySeq DEF n
    <3>2. 1 \in 1..n
      BY <1>1, <3>1
    <3>3. Max(totals) - 24 >= 0
      BY <1>11, <3>2
    <3>4. p.h = Max(totals) - 24
      BY <1>7, <2>3
    <3> QED BY <1>9, <2>1, <3>3, <3>4
  <2> QED BY <2>2, <2>3
<1>13. ASSUME NEW i \in 1..n
       PROVE  /\ p.pos[i].x \in Nat /\ p.pos[i].y \in Nat
              /\ p.pos[i].x + sizes[i].w <= p.w /\ p.pos[i].y + sizes[i].h <= p.h
  <2>1. fw(i) \in Nat /\ 1 <= fw(i) /\ fw(i) <= q.fws
    BY <1>2
  <2>2. (fw(i) - 1) * 264 \in Nat /\ (fw(i) - 1) * 264 + 240 <= q.fws * 264 - 24
    BY <2>1, ColumnFits, SMTT(60)
  <2>3. n # 0
    BY <1>1
  <2>4. p.pos[i].y \in Nat /\ p.pos[i].y + high(i) <= p.h
    BY <1>11, <1>12, <2>3
  <2> QED BY <1>5, <1>7, <2>2, <2>4, SMTT(60)
<1>14. ASSUME NEW i \in 1..n, NEW j \in 1..n, i < j
       PROVE  \/ p.pos[i].x + sizes[i].w <= p.pos[j].x \/ p.pos[j].x + sizes[j].w <= p.pos[i].x
              \/ p.pos[i].y + sizes[i].h <= p.pos[j].y
  <2>1. /\ fw(i) \in Nat /\ 1 <= fw(i) /\ fw(i) <= q.fws
        /\ fw(j) \in Nat /\ 1 <= fw(j) /\ fw(j) <= q.fws
    BY <1>2
  <2>2. CASE fw(i) < fw(j)
    <3>1. (fw(i) - 1) * 264 + 240 <= (fw(j) - 1) * 264
      BY <2>1, <2>2
    <3> QED BY <1>5, <1>7, <3>1
  <2>3. CASE fw(j) < fw(i)
    <3>1. (fw(j) - 1) * 264 + 240 <= (fw(i) - 1) * 264
      BY <2>1, <2>3
    <3> QED BY <1>5, <1>7, <3>1
  <2>4. CASE fw(i) = fw(j)
    <3> DEFINE u == under(fw(i))
    <3>1. u \in Seq(Nat) /\ Len(u) = n /\ u[i] = high(i) + 24 /\ j \in 1..n + 1 /\ 0 \in Nat
      BY <1>1, <1>4
    <3> HIDE DEF u
    <3>2. From(u, 0, i) + u[i] + 0 <= From(u, 0, j)
      BY <1>14, <3>1, FromGrows
    <3>3. p.pos[i].y = From(u, 0, i) /\ p.pos[j].y = From(u, 0, j) /\ p.pos[i].y \in Nat /\ p.pos[j].y \in Nat
      BY <1>7, <1>11, <2>4 DEF u
    <3>4. high(i) \in Nat /\ sizes[i].h = high(i)
      BY <1>3, <1>5
    <3> QED BY <3>1, <3>2, <3>3, <3>4
  <2> QED BY <2>1, <2>2, <2>3, <2>4
<1>15. Packed(sizes, p)
  BY <1>5, <1>12, <1>13, <1>14 DEF Packed
<1> QED BY <1>7, <1>15 DEF p, sizes

\* The nets of a service, with columns and without.
LEMMA NetsPacked ==
    ASSUME NEW q, q.fws \in Nat, NEW nets \in Seq(NetOf), q.fws > 0 => \A i \in DOMAIN nets : nets[i].fw \in 1..q.fws
    PROVE  /\ Packed([i \in DOMAIN nets |-> NetSize(nets[i].hosts)], NetPack(q, nets))
           /\ q.fws > 0 => NetPack(q, nets).w = q.fws * 264 - 24
<1> DEFINE sizes == [i \in DOMAIN nets |-> NetSize(nets[i].hosts)]
           n == Len(nets)
<1>1. CASE q.fws > 0
  <2>1. NetPack(q, nets) = ColumnPack(q, nets)
    BY <1>1 DEF NetPack
  <2>2. Packed(sizes, ColumnPack(q, nets)) /\ ColumnPack(q, nets).w = q.fws * 264 - 24
    BY <1>1, ColumnPacked
  <2> QED BY <2>1, <2>2
<1>2. CASE ~(q.fws > 0)
  <2>1. NetPack(q, nets) = Pack(sizes, NetCols, 24)
    BY <1>2 DEF NetPack
  <2>2. n \in Nat /\ DOMAIN nets = 1..n /\ \A i \in 1..n : nets[i] \in NetOf
    BY LenProperties
  <2>3. ASSUME NEW i \in 1..n PROVE NetSize(nets[i].hosts) \in Sizes
    <3>1. nets[i].hosts \in Nat
      BY <2>2 DEF NetOf
    <3> DEFINE k == nets[i].hosts
    <3> HIDE DEF k
    <3>2. NetSize(k) \in Sizes
      BY <3>1, NetIs DEF k
    <3> QED BY <3>2 DEF k
  <2>4. sizes \in [1..n -> Sizes]
    BY <2>2, <2>3
  <2> HIDE DEF sizes, n
  <2>5. sizes \in Seq(Sizes)
    BY <2>2, <2>4, FunctionIsSeq
  <2>6. NetCols \in Nat \ {0} /\ 24 \in Nat
    BY DrawingAssumption
  <2>7. Packed(sizes, Pack(sizes, NetCols, 24))
    BY <2>5, <2>6, PackPlaces
  <2> QED BY <1>2, <2>1, <2>7 DEF sizes
<1> QED BY <1>1, <1>2

\* What a service takes, from its nets and the list of its other CIs.
ServiceGood(q, svc) == /\ q.fws \in Nat /\ svc \in ServiceOf
                       /\ q.fws > 0 => \A i \in DOMAIN svc.nets : svc.nets[i].fw \in 1..q.fws

\* The size of a service is a size, at least that of its nets (_measure_service).
LEMMA ServiceIs ==
    ASSUME NEW q, NEW svc, ServiceGood(q, svc)
    PROVE  /\ svc.nets \in Seq(NetOf) /\ svc.lines \in Nat /\ ListH(svc) \in Nat
           /\ NetPack(q, svc.nets).w \in Nat /\ NetPack(q, svc.nets).h \in Nat
           /\ ServiceH(q, svc) \in Nat /\ ServiceW(q, svc) \in Nat
           /\ NetPack(q, svc.nets).w + 48 <= ServiceW(q, svc)
           /\ q.fws > 0 => q.fws * 264 + 24 <= ServiceW(q, svc)
<1> DEFINE pw == NetPack(q, svc.nets).w
           ph == NetPack(q, svc.nets).h
<1>1. svc.nets \in Seq(NetOf) /\ svc.lines \in Nat /\ q.fws \in Nat
  BY DEF ServiceOf, ServiceGood
<1>2. ListH(svc) \in Nat
  BY <1>1 DEF ListH
<1>3. pw \in Nat /\ ph \in Nat /\ (q.fws > 0 => pw = q.fws * 264 - 24)
  <2>1. /\ Packed([i \in DOMAIN svc.nets |-> NetSize(svc.nets[i].hosts)], NetPack(q, svc.nets))
        /\ q.fws > 0 => NetPack(q, svc.nets).w = q.fws * 264 - 24
    BY <1>1, NetsPacked DEF ServiceGood
  <2> QED BY <2>1 DEF Packed
<1>4. ServiceW(q, svc) = 48 + (IF svc.nets = <<>> THEN Greater(pw, 480) ELSE pw)
  BY DEF ServiceW
<1>5. ServiceH(q, svc) = 80 + (IF svc.nets = <<>> THEN 44 + ListH(svc)
                               ELSE ph + (IF svc.lines = 0 THEN 0 ELSE ListH(svc) + 24))
  BY <1>2, <1>3 DEF ServiceH
<1> HIDE DEF pw, ph
<1>6. ServiceW(q, svc) \in Nat /\ pw + 48 <= ServiceW(q, svc)
  BY <1>3, <1>4 DEF Greater
<1>7. ServiceH(q, svc) \in Nat
  BY <1>1, <1>2, <1>3, <1>5
<1>8. q.fws > 0 => q.fws * 264 + 24 <= ServiceW(q, svc)
  BY <1>1, <1>3, <1>6
<1> QED BY <1>1, <1>2, <1>3, <1>6, <1>7, <1>8 DEF pw, ph

\* The list of the other CIs stands under the lowest net.
LEMMA BottomIs ==
    ASSUME NEW sizes, NEW p, Packed(sizes, p), NEW cells, cells = At(sizes, p.pos, 24, 56),
           NEW bottom, bottom = Largest([i \in DOMAIN cells |-> cells[i].y + cells[i].h], 56)
    PROVE  bottom \in Int /\ bottom >= 56 /\ Over(cells, bottom) /\ bottom <= 56 + p.h
<1> DEFINE n == Len(sizes)
           ends == [i \in DOMAIN cells |-> cells[i].y + cells[i].h]
<1>1. sizes \in Seq(Sizes) /\ p.h \in Nat
  BY DEF Packed
<1>2. n \in Nat
  BY <1>1, LenProperties
<1>3. /\ Clear(cells, Endless, Endless) /\ DOMAIN cells = 1..n /\ Over(cells, 56 + p.h)
  BY AtIs DEF Endless
<1>4. \A i \in 1..n : cells[i].y + cells[i].h \in Int /\ cells[i].y + cells[i].h <= 56 + p.h
  <2> TAKE i \in 1..n
  <2>1. cells[i] \in Boxes
    BY <1>3, LenProperties DEF Clear
  <2>2. cells[i].y \in Int /\ cells[i].h \in Int
    BY <2>1 DEF Boxes
  <2> QED BY <1>3, <2>2 DEF Over
<1>5. ends \in Seq(Int) /\ DOMAIN ends = 1..n /\ \A i \in 1..n : ends[i] = cells[i].y + cells[i].h
  <2>1. ends \in [1..n -> Int]
    BY <1>3, <1>4
  <2>2. \A i \in 1..n : ends[i] = cells[i].y + cells[i].h
    BY <1>3
  <2> HIDE DEF ends, n
  <2> QED BY <1>2, <2>1, <2>2, FunctionIsSeq
<1>6. bottom = Largest(ends, 56)
  OBVIOUS
<1> HIDE DEF ends, n
<1>7. /\ Largest(ends, 56) \in Int /\ 56 <= Largest(ends, 56)
      /\ \A i \in DOMAIN ends : ends[i] <= Largest(ends, 56)
      /\ Largest(ends, 56) = 56 \/ \E i \in DOMAIN ends : Largest(ends, 56) = ends[i]
  <2>1. ends \in Seq(Int) /\ 56 \in Int
    BY <1>5
  <2> QED BY <2>1, LargestIs
<1>8. bottom <= 56 + p.h
  <2>1. CASE Largest(ends, 56) = 56
    BY <1>1, <1>6, <2>1
  <2>2. CASE \E i \in DOMAIN ends : Largest(ends, 56) = ends[i]
    BY <1>4, <1>5, <1>6, <2>2
  <2> QED BY <1>7, <2>1, <2>2
<1>9. Over(cells, bottom)
  BY <1>3, <1>5, <1>6, <1>7, ZenonT(60) DEF Over
<1> QED BY <1>6, <1>7, <1>8, <1>9

\* A service: its nets, and the list of CIs under the lowest of them.
LEMMA ServiceTidy ==
    ASSUME NEW q, NEW svc, ServiceGood(q, svc), NEW w \in Nat, ServiceW(q, svc) <= w, 480 <= w
    PROVE  Tidy(ServiceFrame(q, svc, w))
<1> DEFINE p == NetPack(q, svc.nets)
           sizes == [i \in DOMAIN svc.nets |-> NetSize(svc.nets[i].hosts)]
           a == At(sizes, p.pos, 24, 56)
           bottom == Largest([i \in DOMAIN a |-> a[i].y + a[i].h], 56)
           h == ServiceH(q, svc)
           lh == ListH(svc)
           sw == ServiceW(q, svc)
           b == IF svc.lines = 0 THEN <<>> ELSE <<Box(24, bottom + 12, NetW, lh)>>
           c == <<Box(24, 40, sw - 48, h - 48)>>
<1>1. /\ svc.nets \in Seq(NetOf) /\ svc.lines \in Nat /\ lh \in Nat /\ p.w \in Nat /\ p.h \in Nat /\ h \in Nat
      /\ sw \in Nat /\ p.w + 48 <= sw
  BY ServiceIs
<1>2. Packed(sizes, p)
  BY <1>1, NetsPacked DEF ServiceGood
<1>3. ServiceFrame(q, svc, w) = Frame(w, h, IF svc.nets = <<>> THEN c ELSE a \o b)
  BY DEF ServiceFrame
<1>4. h = 80 + (IF svc.nets = <<>> THEN 44 + lh ELSE p.h + (IF svc.lines = 0 THEN 0 ELSE lh + 24))
  BY <1>1 DEF ServiceH
<1>5. bottom \in Int /\ bottom >= 56 /\ Over(a, bottom) /\ bottom <= 56 + p.h
  <2> HIDE DEF sizes, p, a
  <2> QED BY <1>2, BottomIs DEF a
<1>6. sw <= w
  OBVIOUS
<1> HIDE DEF sizes, p, bottom, h, lh, sw
<1>7. CASE svc.nets = <<>>
  <2>1. IsOne(c, 24, 40, sw - 48, h - 48)
    BY <1>1 DEF IsOne
  <2>2. Room(24 + (sw - 48), w) /\ Room(40 + (h - 48), h)
    BY <1>1, <1>6 DEF Room
  <2> HIDE DEF c
  <2>3. Clear(c, w, h)
    BY <2>1, <2>2, OneBox
  <2> QED BY <1>3, <1>7, <2>3, TidyFrame
<1>8. CASE svc.nets # <<>>
  <2>1. 24 + p.w <= w /\ 56 + p.h <= h /\ w \in Int /\ h \in Int /\ 24 \in Nat /\ 56 \in Nat
    BY <1>1, <1>4, <1>6, <1>8, SMTT(60)
  <2>2. Clear(a, w, h)
    BY <1>2, <2>1, AtIs
  <2>3. Clear(b, w, h) /\ Under(b, bottom)
    <3>1. CASE svc.lines = 0
      BY <3>1, ClearFew, OneIs
    <3>2. CASE svc.lines # 0
      <4>1. IsOne(b, 24, bottom + 12, 240, lh)
        BY <1>1, <1>5, <3>2 DEF IsOne, NetW
      <4>2. Room(24 + 240, w) /\ Room((bottom + 12) + lh, h) /\ bottom <= bottom + 12
        BY <1>1, <1>4, <1>5, <1>8, <3>2 DEF Room
      <4> HIDE DEF b
      <4> QED BY <4>1, <4>2, OneBox
    <3> QED BY <3>1, <3>2
  <2> HIDE DEF a, b
  <2>4. Parted(a, b, bottom)
    BY <1>5, <2>2, <2>3 DEF Parted, Clear
  <2> QED BY <1>3, <1>8, <2>2, <2>3, <2>4, Divided, ClearJoin, TidyFrame
<1> QED BY <1>7, <1>8

\* With gaps, each box begins as many gaps later as there are boxes before it.
LEMMA GapsAdd ==
    ASSUME NEW lens \in Seq(Nat)
    PROVE  Extent(lens, 24) \in Nat /\ Total(lens) \in Nat /\ Extent(lens, 24) <= Total(lens) + 24 * Len(lens)
<1> DEFINE n == Len(lens)
           T == {m \in 0..n : From(lens, 24, m + 1) = From(lens, 0, m + 1) + 24 * m}
<1>1. n \in Nat /\ \A k \in 1..n : lens[k] \in Nat
  BY LenProperties
<1>2. Extent(lens, 24) \in Nat
  BY ExtentIs
<1>3. ASSUME NEW g \in Nat
      PROVE  /\ From(lens, g, 1) = 0
             /\ \A k \in 1..n : From(lens, g, k + 1) = From(lens, g, k) + lens[k] + g
             /\ \A k \in 1..n + 1 : From(lens, g, k) \in Nat
  BY FromIs
<1> HIDE DEF n
<1>4. 0 \in T
  <2>1. From(lens, 24, 1) = 0 /\ From(lens, 0, 1) = 0
    BY <1>3
  <2> QED BY <1>1, <2>1
<1>5. ASSUME NEW m \in 0..n, m \in T, m < n PROVE m + 1 \in T
  <2>1. m + 1 \in 1..n /\ m + 1 \in 1..n + 1 /\ m + 1 \in 0..n
    BY <1>1, <1>5
  <2>2. /\ From(lens, 24, (m + 1) + 1) = From(lens, 24, m + 1) + lens[m + 1] + 24
        /\ From(lens, 0, (m + 1) + 1) = From(lens, 0, m + 1) + lens[m + 1] + 0
    BY <1>3, <2>1
  <2>3. From(lens, 24, m + 1) \in Nat /\ From(lens, 0, m + 1) \in Nat /\ lens[m + 1] \in Nat
    BY <1>1, <1>3, <2>1
  <2>4. From(lens, 24, m + 1) = From(lens, 0, m + 1) + 24 * m
    BY <1>5
  <2>5. From(lens, 24, (m + 1) + 1) = From(lens, 0, (m + 1) + 1) + 24 * (m + 1)
    BY <2>2, <2>3, <2>4, SMTT(60)
  <2> QED BY <2>1, <2>5
<1> HIDE DEF T
<1>6. n \in T
  BY <1>1, <1>4, <1>5, UpTo
<1>7. From(lens, 24, n + 1) = From(lens, 0, n + 1) + 24 * n
  BY <1>6 DEF T
<1>8. From(lens, 24, n + 1) \in Nat /\ From(lens, 0, n + 1) \in Nat
  <2>1. n + 1 \in 1..n + 1
    BY <1>1
  <2> QED BY <1>3, <2>1
<1>9. Total(lens) = From(lens, 0, n + 1)
  BY DEF Total, n
<1>10. Extent(lens, 24) = IF lens = <<>> THEN 0 ELSE From(lens, 24, n + 1) - 24
  BY DEF Extent, n
<1>11. Extent(lens, 24) <= Total(lens) + 24 * n
  BY <1>1, <1>7, <1>8, <1>9, <1>10
<1> QED BY <1>2, <1>8, <1>9, <1>11 DEF n

\* The frame of a family: the firewalls in a row, its services in a column below.
FamilyFrame(q, inner, band, hs) ==
    Frame(inner + 48, 40 + band + Total(hs) + 24 * Len(hs) + 24,
          [i \in 1..q.fws |-> Box(48 + (i - 1) * (NetW + 24), 52, NetW, 64)]
          \o [i \in DOMAIN hs |-> Box(24, 40 + band + From(hs, 24, i), inner, hs[i])])

\* The firewalls of a family beside each other.
LEMMA FirewallRow ==
    ASSUME NEW k \in Nat, NEW w \in Nat, NEW h \in Nat, 48 + k * 264 <= w, 116 <= h,
           NEW a, a = [i \in 1..k |-> Box(48 + (i - 1) * (NetW + 24), 52, NetW, 64)]
    PROVE  Clear(a, w, h) /\ Over(a, 116)
<1>1. ASSUME NEW i \in 1..k
      PROVE a[i] \in Boxes /\ a[i].x = 48 + (i - 1) * 264 /\ a[i].y = 52 /\ a[i].w = 240 /\ a[i].h = 64
  <2>1. a[i] = Box(48 + (i - 1) * 264, 52, 240, 64) /\ 48 + (i - 1) * 264 \in Int
    BY DEF NetW
  <2> QED BY <2>1 DEF Box, Boxes
<1>2. a \in [1..k -> Boxes]
  BY <1>1
<1>3. OnPaces(k, 264, a, 48, 52, 116, w, h)
  BY <1>1, <1>2 DEF OnPaces, Stride
<1>4. DOMAIN a = 1..k
  BY <1>2
<1>5. Over(a, 116)
  BY <1>1, <1>4 DEF Over
<1> QED BY <1>3, <1>5, StepsAlong

\* What lies over a line lies over one below it.
LEMMA OverMore ==
    ASSUME NEW a \in Seq(Boxes), NEW m \in Int, NEW n \in Int, m <= n
    PROVE  (Over(a, m) => Over(a, n)) /\ (LeftOf(a, m) => LeftOf(a, n))
<1>1. ASSUME NEW i \in DOMAIN a PROVE a[i].y + a[i].h \in Int /\ a[i].x + a[i].w \in Int
  <2>1. a[i] \in Boxes
    BY LenProperties
  <2> QED BY <2>1, SMTT(60) DEF Boxes
<1> QED BY <1>1 DEF Over, LeftOf

\* The frame of a family: the firewalls over the services.
LEMMA FamilyFrameTidy ==
    ASSUME NEW q, q.fws \in Nat, NEW inner \in Nat, NEW band \in Nat, NEW hs \in Seq(Nat),
           band = (IF q.fws = 0 THEN 0 ELSE 100), q.fws > 0 => q.fws * 264 <= inner
    PROVE  Tidy(FamilyFrame(q, inner, band, hs))
<1> DEFINE k == q.fws
           w == inner + 48
           h == 40 + band + Total(hs) + 24 * Len(hs) + 24
           a == [i \in 1..k |-> Box(48 + (i - 1) * (NetW + 24), 52, NetW, 64)]
           b == [i \in DOMAIN hs |-> Box(24, 40 + band + From(hs, 24, i), inner, hs[i])]
           n == Len(hs)
<1>1. n \in Nat /\ DOMAIN hs = 1..n /\ Extent(hs, 24) \in Nat /\ Total(hs) \in Nat /\ Extent(hs, 24) <= Total(hs) + 24 * n
  BY GapsAdd, LenProperties
<1>2. FamilyFrame(q, inner, band, hs) = Frame(w, h, a \o b)
  BY DEF FamilyFrame
<1>3. IsColumn(b, hs, 24, 24, 40 + band, inner)
  BY <1>1 DEF IsColumn
<1> HIDE DEF n
<1>4. w \in Nat /\ h \in Nat /\ 24 + inner <= w /\ (40 + band) + Extent(hs, 24) <= h
  BY <1>1, SMTT(60) DEF n
<1> HIDE DEF w, h, b
<1>5. Clear(b, w, h) /\ Under(b, 40 + band)
  BY <1>3, <1>4, ColumnIs
<1>6. Clear(a, w, h) /\ Over(a, 40 + band)
  <2>1. CASE k = 0
    <3>1. a = <<>>
      BY <2>1
    <3> HIDE DEF a
    <3> QED BY <3>1, ClearFew, OneIs
  <2>2. CASE k > 0
    <3>1. k \in Nat /\ band = 100 /\ 48 + k * 264 <= w
      BY <2>2 DEF w
    <3>2. 116 <= h
      BY <1>4, <1>1, <3>1
    <3>3. a = [i \in 1..k |-> Box(48 + (i - 1) * (NetW + 24), 52, NetW, 64)]
      OBVIOUS
    <3> HIDE DEF a, k
    <3>4. w \in Nat /\ h \in Nat
      BY <1>4
    <3>5. Clear(a, w, h) /\ Over(a, 116)
      BY ONLY <3>1, <3>2, <3>3, <3>4, FirewallRow
    <3>6. a \in Seq(Boxes) /\ 116 \in Int /\ 40 + band \in Int /\ 116 <= 40 + band
      BY <3>1, <3>5 DEF Clear
    <3> QED BY <3>5, <3>6, OverMore
  <2> QED BY <2>1, <2>2
<1> HIDE DEF a
<1>7. Parted(a, b, 40 + band)
  BY <1>5, <1>6 DEF Parted, Clear
<1> QED BY <1>2, <1>5, <1>6, <1>7, Divided, ClearJoin, TidyFrame

\* The page of a family: its frame, the legend and the title block beside it.
LEMMA FamilyPageTidy ==
    ASSUME NEW inner \in Nat, NEW h \in Nat, NEW lx, lx = 40 + inner + 48 + 48
    PROVE  Tidy(Frame(Endless, Endless,
             <<Box(40, 40, inner + 48, h), Box(lx, 40, 320, 110),
               Box(lx, Greater(40 + 110 + 24, 40 + h - TitleH), TitleW, TitleH)>>))
<1> DEFINE y == Greater(40 + 110 + 24, 40 + h - TitleH)
           b == Box(40, 40, inner + 48, h)
           c == Box(lx, 40, 320, 110)
           d == Box(lx, y, TitleW, TitleH)
           s == <<b, c, d>>
<1>1. y \in Int /\ y >= 174 /\ lx \in Nat
  BY DEF Greater, TitleH
<1>2. /\ b \in Boxes /\ b.x = 40 /\ b.y = 40 /\ b.w = inner + 48 /\ b.h = h
      /\ c \in Boxes /\ c.x = lx /\ c.y = 40 /\ c.w = 320 /\ c.h = 110
      /\ d \in Boxes /\ d.x = lx /\ d.y = y /\ d.w = 1000 /\ d.h = 208
  <2> HIDE DEF y
  <2> QED BY <1>1 DEF Box, Boxes, TitleW, TitleH
<1> HIDE DEF b, c, d, y
<1>3. s = [i \in 1..3 |-> s[i]] /\ s[1] = b /\ s[2] = c /\ s[3] = d
  OBVIOUS
<1>4. s \in [1..3 -> Boxes]
  <2>1. \A i \in 1..3 : i = 1 \/ i = 2 \/ i = 3
    OBVIOUS
  <2> HIDE DEF s
  <2> QED BY <1>2, <1>3, <2>1
<1>5. Fit(b, Endless, Endless) /\ Fit(c, Endless, Endless) /\ Fit(d, Endless, Endless)
  BY <1>1, <1>2 DEF Fit
<1>6. Apart(b, c) /\ Apart(b, d) /\ Apart(c, d)
  BY <1>1, <1>2 DEF Apart
<1> HIDE DEF s
<1>7. Clear(s, Endless, Endless)
  <2>1. \A i \in 1..3 : i = 1 \/ i = 2 \/ i = 3
    OBVIOUS
  <2>2. \A i \in 1..3 : Fit(s[i], Endless, Endless)
    BY <1>3, <1>5, <2>1
  <2>3. \A i \in 1..3 : \A j \in 1..3 : i < j => Apart(s[i], s[j])
    BY <1>3, <1>6, <2>1
  <2> QED BY <1>4, <2>2, <2>3, ClearBy
<1> QED BY <1>7, TidyFrame DEF s, b, c, d, y

\* Everything drawn of the services of a family.
LEMMA FamilyTidy ==
    ASSUME NEW q, Familied(q), NEW f \in Family(q)
    PROVE  Tidy(f)
<1> DEFINE n == Len(q.services)
           hs == [i \in DOMAIN q.services |-> ServiceH(q, q.services[i])]
           ws == [i \in DOMAIN q.services |-> ServiceW(q, q.services[i])]
           inner == Largest(ws, 480)
           band == IF q.fws = 0 THEN 0 ELSE 12 + 64 + 24
           h == 40 + band + Total(hs) + 24 * Len(hs) + 24
           lx == 40 + inner + 48 + 48
           nets == UNION {Elements(s.nets) : s \in Elements(q.services)}
<1>1. q.fws \in Nat /\ q.services \in Seq(ServiceOf)
  BY DEF Familied
<1>2. n \in Nat /\ DOMAIN q.services = 1..n
  BY <1>1, LenProperties
<1>3. ASSUME NEW i \in 1..n
      PROVE  /\ ServiceGood(q, q.services[i]) /\ ServiceH(q, q.services[i]) \in Nat /\ ServiceW(q, q.services[i]) \in Nat
             /\ q.fws > 0 => q.fws * 264 + 24 <= ServiceW(q, q.services[i])
  <2>1. q.services[i] \in ServiceOf /\ q.services[i] \in Elements(q.services)
    BY <1>1, <1>2, LenProperties DEF Elements
  <2> DEFINE s == q.services[i]
  <2>2. ASSUME q.fws > 0, NEW k \in DOMAIN s.nets PROVE s.nets[k].fw \in 1..q.fws
    <3>1. s.nets[k] \in Elements(s.nets)
      BY DEF Elements
    <3> HIDE DEF s
    <3> QED BY <2>1, <2>2, <3>1 DEF Familied, s
  <2>3. ServiceGood(q, s)
    BY <1>1, <2>1, <2>2 DEF ServiceGood
  <2> HIDE DEF s
  <2>4. ServiceH(q, s) \in Nat /\ ServiceW(q, s) \in Nat /\ (q.fws > 0 => q.fws * 264 + 24 <= ServiceW(q, s))
    BY <2>3, ServiceIs
  <2> QED BY <2>3, <2>4 DEF s
<1>4. hs \in Seq(Nat)
  <2>1. hs \in [1..n -> Nat]
    BY <1>2, <1>3
  <2> HIDE DEF hs, n
  <2> QED BY <1>2, <2>1, FunctionIsSeq
<1>5. ws \in Seq(Int) /\ DOMAIN ws = 1..n /\ \A i \in 1..n : ws[i] = ServiceW(q, q.services[i])
  <2>1. ws \in [1..n -> Int]
    BY <1>2, <1>3
  <2>2. \A i \in 1..n : ws[i] = ServiceW(q, q.services[i])
    BY <1>2
  <2> HIDE DEF ws, n
  <2> QED BY <1>2, <2>1, <2>2, FunctionIsSeq
<1> HIDE DEF hs, ws
<1>6. inner \in Nat /\ 480 <= inner /\ \A i \in 1..n : ServiceW(q, q.services[i]) <= inner
  <2>1. ws \in Seq(Int) /\ 480 \in Int
    BY <1>5
  <2>2. inner \in Int /\ 480 <= inner /\ \A i \in DOMAIN ws : ws[i] <= inner
    BY <2>1, LargestIs
  <2> HIDE DEF inner
  <2> QED BY <1>5, <2>2, SMTT(60)
<1> HIDE DEF inner
<1>7. q.fws > 0 => q.fws * 264 <= inner
  <2> SUFFICES ASSUME q.fws > 0 PROVE q.fws * 264 <= inner
    OBVIOUS
  <2>1. q.services # <<>>
    BY DEF Familied
  <2>2. 1 \in 1..n
    BY <1>1, <1>2, <2>1, EmptySeq
  <2>3. q.fws * 264 + 24 <= ServiceW(q, q.services[1]) /\ ServiceW(q, q.services[1]) <= inner /\ ServiceW(q, q.services[1]) \in Nat
    BY <1>3, <1>6, <2>2
  <2> QED BY <1>1, <1>6, <2>3
<1>8. band \in Nat /\ band = (IF q.fws = 0 THEN 0 ELSE 100)
  OBVIOUS
<1> HIDE DEF band
<1>9. h \in Nat
  <2>1. Total(hs) \in Nat /\ Len(hs) \in Nat
    BY <1>4, GapsAdd, LenProperties
  <2> QED BY <1>8, <2>1
<1>10. f \in {Frame(Endless, Endless, <<Box(40, 40, inner + 48, h), Box(lx, 40, 320, 110),
                             Box(lx, Greater(40 + 110 + 24, 40 + h - TitleH), TitleW, TitleH)>>),
              FamilyFrame(q, inner, band, hs)}
             \cup {ServiceFrame(q, s, inner) : s \in Elements(q.services)}
             \cup {NetFrame(m.hosts) : m \in nets}
  BY DEF Family, FamilyFrame, hs, ws, inner, band
<1> HIDE DEF h, lx, nets
<1>11. CASE f = Frame(Endless, Endless, <<Box(40, 40, inner + 48, h), Box(lx, 40, 320, 110),
                             Box(lx, Greater(40 + 110 + 24, 40 + h - TitleH), TitleW, TitleH)>>)
  <2>1. lx = 40 + inner + 48 + 48
    BY DEF lx
  <2> QED BY <1>6, <1>9, <1>11, <2>1, FamilyPageTidy
<1>12. CASE f = FamilyFrame(q, inner, band, hs)
  BY <1>1, <1>4, <1>6, <1>7, <1>8, <1>12, FamilyFrameTidy
<1>13. CASE \E s \in Elements(q.services) : f = ServiceFrame(q, s, inner)
  <2>1. PICK s \in Elements(q.services) : f = ServiceFrame(q, s, inner)
    BY <1>13
  <2>2. PICK i \in 1..n : s = q.services[i]
    BY <1>2 DEF Elements
  <2>3. ServiceGood(q, s) /\ ServiceW(q, s) <= inner
    BY <1>3, <1>6, <2>2
  <2> QED BY <1>6, <2>1, <2>3, ServiceTidy
<1>14. CASE \E m \in nets : f = NetFrame(m.hosts)
  <2>1. PICK m \in nets : f = NetFrame(m.hosts)
    BY <1>14
  <2>2. PICK s \in Elements(q.services) : m \in Elements(s.nets)
    BY DEF nets
  <2>3. s.nets \in Seq(NetOf)
    <3>1. s \in ServiceOf
      BY <1>1, ElementsFinite
    <3> QED BY <3>1 DEF ServiceOf
  <2>4. m \in NetOf
    BY <2>2, <2>3, ElementsFinite
  <2>5. m.hosts \in Nat
    BY <2>4 DEF NetOf
  <2> QED BY <2>1, <2>5, NetTidy
<1> QED BY <1>10, <1>11, <1>12, <1>13, <1>14

(* ------------------------------- the segments -------------------------------- *)

\* The numbers of a segment: rows of at least two hosts, whole rows where it is cut short.
LEMMA HostRows ==
    /\ HostsPerRow \in Nat \ {0} /\ HostsPerRow > 1 /\ HostMax \in Nat
    /\ HostMax = (HostMax \div HostsPerRow) * HostsPerRow
<1>1. HostsPerRow \in Nat \ {0} /\ HostMax \in Nat
  BY DrawingAssumption
<1>2. HostsPerRow > 1 /\ HostMax = (HostMax \div HostsPerRow) * HostsPerRow
  BY DrawingAssumption
<1> QED BY <1>1, <1>2

\* What _layout has put on the shelves: each group within what is taken of its shelf,
\* and no two groups of a shelf in the same place.
GroupOn == [shelf : Nat, col : Nat, n : Nat \ {0}]
Wide(g) == Least(g.n, HostsPerRow)
Taken(free, on) ==
    /\ free \in Seq(Nat) /\ on \in Seq(GroupOn)
    /\ \A s \in DOMAIN free : free[s] <= HostsPerRow
    /\ \A i \in DOMAIN on :
         /\ on[i].shelf \in DOMAIN free /\ on[i].col + Wide(on[i]) <= HostsPerRow - free[on[i].shelf]
         /\ \A j \in DOMAIN on : i < j /\ on[i].shelf = on[j].shelf => on[i].col + Wide(on[i]) <= on[j].col
Accs == {acc \in [free : Seq(Nat), on : Seq(GroupOn)] : Taken(acc.free, acc.on)}

\* What a shelf that is found or begun leaves the groups before.
LEMMA TakeMore ==
    ASSUME NEW free, NEW on, Taken(free, on), NEW s \in DOMAIN free, NEW n \in Nat \ {0},
           Least(n, HostsPerRow) <= free[s]
    PROVE  Taken([free EXCEPT ![s] = @ - Least(n, HostsPerRow)],
                 Append(on, [shelf |-> s, col |-> HostsPerRow - free[s], n |-> n]))
<1> DEFINE w == Least(n, HostsPerRow)
           H == HostsPerRow
           new == [free EXCEPT ![s] = @ - w]
           g == [shelf |-> s, col |-> H - free[s], n |-> n]
           all == Append(on, g)
           m == Len(free)
           k == Len(on)
<1>1. H \in Nat /\ H > 1
  BY HostRows
<1>2. w \in Nat /\ 1 <= w /\ w <= H
  BY <1>1 DEF Least
<1>3. m \in Nat /\ DOMAIN free = 1..m /\ \A i \in 1..m : free[i] \in Nat /\ free[i] <= H
  BY LenProperties DEF Taken
<1>4. k \in Nat /\ DOMAIN on = 1..k /\ \A i \in 1..k : on[i] \in GroupOn
  BY LenProperties DEF Taken
<1>5. free[s] \in Nat /\ free[s] <= H /\ w <= free[s]
  BY <1>3
<1>6. g \in GroupOn /\ g.shelf = s /\ g.col = H - free[s] /\ g.n = n /\ Wide(g) = w
  <2>1. s \in Nat /\ H - free[s] \in Nat
    BY <1>1, <1>3, <1>5
  <2> QED BY <2>1 DEF GroupOn, Wide
<1> HIDE DEF g
<1>7. /\ all \in Seq(GroupOn) /\ Len(all) = k + 1 /\ DOMAIN all = 1..k + 1
      /\ \A i \in 1..k : all[i] = on[i]
      /\ all[k + 1] = g
  <2>1. on \in Seq(GroupOn)
    BY DEF Taken
  <2>2. all \in Seq(GroupOn) /\ Len(all) = k + 1 /\ (\A i \in 1..k : all[i] = on[i]) /\ all[k + 1] = g
    BY <1>6, <2>1, AppendProperties
  <2> HIDE DEF all
  <2> QED BY <2>2, LenProperties
<1> HIDE DEF all, w, H
<1>8. DOMAIN new = 1..m /\ new[s] = free[s] - w /\ \A i \in 1..m : i # s => new[i] = free[i]
  BY <1>3
<1>9. new \in [1..m -> Nat] /\ \A i \in 1..m : new[i] <= free[i]
  <2>1. new = [i \in 1..m |-> new[i]]
    BY <1>3
  <2> HIDE DEF new
  <2>2. free[s] - w \in Nat /\ free[s] - w <= free[s]
    BY <1>2, <1>5
  <2>3. \A i \in 1..m : new[i] \in Nat /\ new[i] <= free[i]
    BY <1>3, <1>8, <2>2
  <2> QED BY <2>1, <2>3
<1> HIDE DEF new
<1>10. new \in Seq(Nat) /\ \A i \in DOMAIN new : new[i] <= H
  <2>1. new \in Seq(Nat)
    BY <1>3, <1>9, FunctionIsSeq
  <2> QED BY <1>1, <1>3, <1>8, <1>9, <2>1
<1>11. ASSUME NEW i \in 1..k
       PROVE  /\ on[i].shelf \in 1..m /\ on[i].col \in Nat /\ Wide(on[i]) \in Nat
              /\ on[i].col + Wide(on[i]) <= H - free[on[i].shelf]
  <2>1. on[i].shelf \in 1..m /\ on[i].col + Wide(on[i]) <= H - free[on[i].shelf]
    BY <1>3, <1>4 DEF Taken, H
  <2>2. on[i].col \in Nat /\ on[i].n \in Nat
    BY <1>4 DEF GroupOn
  <2>3. Wide(on[i]) \in Nat
    BY <2>2, HostRows DEF Wide, Least
  <2> QED BY <2>1, <2>2, <2>3
<1>12. ASSUME NEW i \in 1..k + 1 PROVE i \in 1..k \/ i = k + 1
  BY <1>4
<1>13. ASSUME NEW i \in 1..k + 1
       PROVE  all[i].shelf \in 1..m /\ all[i].col + Wide(all[i]) <= H - new[all[i].shelf]
  <2>1. CASE i \in 1..k
    <3>1. on[i].shelf \in 1..m /\ on[i].col + Wide(on[i]) <= H - free[on[i].shelf]
          /\ new[on[i].shelf] <= free[on[i].shelf] /\ on[i].col + Wide(on[i]) \in Int
          /\ new[on[i].shelf] \in Int /\ free[on[i].shelf] \in Int
      BY <1>3, <1>9, <1>11, <2>1, SMTT(60)
    <3>2. on[i].col + Wide(on[i]) <= H - new[on[i].shelf]
      BY <1>1, <3>1, SMTT(60)
    <3> QED BY <1>7, <2>1, <3>1, <3>2
  <2>2. CASE i = k + 1
    <3>1. s \in 1..m /\ (H - free[s]) + w <= H - (free[s] - w)
      BY <1>1, <1>2, <1>3, <1>5
    <3> QED BY <1>6, <1>7, <1>8, <2>2, <3>1
  <2> QED BY <1>12, <2>1, <2>2
<1>14. ASSUME NEW i \in 1..k + 1, NEW j \in 1..k + 1, i < j, all[i].shelf = all[j].shelf
       PROVE  all[i].col + Wide(all[i]) <= all[j].col
  <2>1. i \in 1..k
    BY <1>4, <1>12, <1>14
  <2>2. CASE j \in 1..k
    <3>1. all[i] = on[i] /\ all[j] = on[j]
      BY <1>7, <2>1, <2>2
    <3> QED BY <1>4, <1>14, <2>1, <2>2, <3>1 DEF Taken
  <2>3. CASE j = k + 1
    <3>1. all[i] = on[i] /\ all[j] = g
      BY <1>7, <2>1, <2>3
    <3> QED BY <1>6, <1>11, <1>14, <2>1, <3>1
  <2> QED BY <1>12, <2>2, <2>3
<1>15. Taken(new, all)
  BY <1>7, <1>8, <1>10, <1>13, <1>14 DEF Taken, H
<1> QED BY <1>15 DEF new, all, w, H, g

\* A shelf that is begun has nothing on it yet.
LEMMA BeginShelf ==
    ASSUME NEW free, NEW on, Taken(free, on)
    PROVE  /\ Taken(Append(free, HostsPerRow), on)
           /\ Len(free) + 1 \in DOMAIN Append(free, HostsPerRow)
           /\ Append(free, HostsPerRow)[Len(free) + 1] = HostsPerRow
<1> DEFINE m == Len(free)
           new == Append(free, HostsPerRow)
<1>1. HostsPerRow \in Nat
  BY HostRows
<1>2. free \in Seq(Nat) /\ on \in Seq(GroupOn)
  BY DEF Taken
<1>3. m \in Nat /\ DOMAIN free = 1..m
  BY <1>2, LenProperties
<1>4. new \in Seq(Nat) /\ Len(new) = m + 1 /\ (\A i \in 1..m : new[i] = free[i]) /\ new[m + 1] = HostsPerRow
  BY <1>1, <1>2, AppendProperties
<1> HIDE DEF new
<1>5. DOMAIN new = 1..m + 1
  BY <1>4, LenProperties
<1> HIDE DEF m
<1>6. m + 1 \in 1..m + 1 /\ \A i \in 1..m + 1 : i \in 1..m \/ i = m + 1
  BY <1>3
<1>7. \A i \in 1..m + 1 : new[i] <= HostsPerRow
  <2>1. \A i \in 1..m : free[i] <= HostsPerRow
    BY <1>3 DEF Taken
  <2>2. HostsPerRow <= HostsPerRow
    BY <1>1
  <2> QED BY <1>4, <1>6, <2>1, <2>2
<1>8. ASSUME NEW i \in DOMAIN on
      PROVE  /\ on[i].shelf \in 1..m + 1
             /\ on[i].col + Wide(on[i]) <= HostsPerRow - new[on[i].shelf]
  <2>1. on[i].shelf \in 1..m /\ on[i].col + Wide(on[i]) <= HostsPerRow - free[on[i].shelf]
    BY <1>3 DEF Taken
  <2>2. on[i].shelf \in 1..m + 1
    BY <1>3, <2>1
  <2> QED BY <1>4, <2>1, <2>2
<1>9. Taken(new, on)
  BY <1>2, <1>4, <1>5, <1>7, <1>8 DEF Taken
<1> QED BY <1>4, <1>5, <1>6, <1>9 DEF new, m

\* Putting a group on a shelf keeps the count of what is free on each shelf true.
LEMMA PutTakes ==
    ASSUME NEW acc \in Accs, NEW n \in Nat \ {0}
    PROVE  Put(acc, n) \in Accs
<1> DEFINE w == Least(n, HostsPerRow)
           room == {i \in DOMAIN acc.free : acc.free[i] >= w}
           s == IF room = {} THEN Len(acc.free) + 1 ELSE Min(room)
           free == IF room = {} THEN Append(acc.free, HostsPerRow) ELSE acc.free
           new == [free EXCEPT ![s] = @ - w]
           all == Append(acc.on, [shelf |-> s, col |-> HostsPerRow - free[s], n |-> n])
<1>1. Put(acc, n) = [free |-> new, on |-> all]
  BY DEF Put
<1>2. Taken(acc.free, acc.on)
  BY DEF Accs
<1>3. Taken(free, acc.on) /\ s \in DOMAIN free /\ w <= free[s]
  <2>1. CASE room = {}
    <3>1. w <= HostsPerRow
      BY HostRows DEF Least
    <3>2. s = Len(acc.free) + 1 /\ free = Append(acc.free, HostsPerRow)
      BY <2>1
    <3> HIDE DEF s, free, w, room
    <3> QED BY <1>2, <3>1, <3>2, BeginShelf
  <2>2. CASE room # {}
    <3>1. room \subseteq Nat
      <4>1. acc.free \in Seq(Nat)
        BY <1>2 DEF Taken
      <4> QED BY <4>1, LenProperties
    <3>2. s = Min(room) /\ free = acc.free
      BY <2>2
    <3> HIDE DEF s, free, room, w
    <3>3. s \in room
      <4>1. \E x \in room : \A y \in room : x <= y
        BY <2>2, <3>1, LeastOf
      <4> QED BY <3>2, <4>1 DEF Min
    <3>4. s \in DOMAIN acc.free /\ acc.free[s] >= w
      BY <3>3 DEF room
    <3>5. acc.free[s] \in Nat /\ w \in Nat
      <4>1. acc.free \in Seq(Nat)
        BY <1>2 DEF Taken
      <4>2. w \in Nat
        BY HostRows DEF w, Least
      <4> QED BY <3>4, <4>1, <4>2, LenProperties
    <3> QED BY <1>2, <3>2, <3>4, <3>5
  <2> QED BY <2>1, <2>2
<1> HIDE DEF free, s, room
<1>4. Taken(new, all)
  BY <1>3, TakeMore
<1> HIDE DEF new, all
<1>5. new \in Seq(Nat) /\ all \in Seq(GroupOn)
  BY <1>4 DEF Taken
<1> QED BY <1>1, <1>4, <1>5 DEF Accs

\* How many hosts are in a group is a number.
LEMMA GroupOfIs ==
    ASSUME NEW shown \in Seq(Nat), NEW tag
    PROVE  GroupOf(shown, tag) \in Nat
<1>1. Len(shown) \in Nat /\ DOMAIN shown = 1..Len(shown)
  BY LenProperties
<1>2. IsFiniteSet(1..Len(shown))
  BY <1>1, FS_Interval
<1>3. {k \in DOMAIN shown : shown[k] = tag} \subseteq 1..Len(shown)
  BY <1>1
<1>4. IsFiniteSet({k \in DOMAIN shown : shown[k] = tag})
  BY <1>2, <1>3, FS_Subset
<1> QED BY <1>4, FS_CardinalityType DEF GroupOf

\* All groups on their shelves.
LEMMA ShelvedTakes ==
    ASSUME NEW shown \in Seq(Nat)
    PROVE  Shelved(shown) \in Accs
<1> DEFINE last == Largest(shown, 0)
           zero == [free |-> <<>>, on |-> <<>>]
           next(acc, tag) == IF GroupOf(shown, tag) = 0 THEN acc ELSE Put(acc, GroupOf(shown, tag))
           Eq(u) == u = [tag \in 0..last |-> IF tag = 0 THEN zero
                                             ELSE IF GroupOf(shown, tag) = 0 THEN u[tag - 1]
                                             ELSE Put(u[tag - 1], GroupOf(shown, tag))]
           put == CHOOSE u : Eq(u)
           step == [u \in Accs \X (0..last) |-> next(u[1], u[2])]
<1>1. Shelved(shown) = put[last]
  BY DEF Shelved
<1>2. last \in Nat
  <2>1. shown \in Seq(Int) /\ 0 \in Int
    <3>1. Len(shown) \in Nat /\ shown \in [1..Len(shown) -> Int]
      BY LenProperties
    <3> QED BY <3>1, FunctionIsSeq
  <2>2. last \in Int /\ 0 <= last
    BY <2>1, LargestIs
  <2> HIDE DEF last
  <2> QED BY <2>2
<1> HIDE DEF last
<1>3. zero \in Accs
  <2>1. zero.free = <<>> /\ zero.on = <<>> /\ zero \in [free : Seq(Nat), on : Seq(GroupOn)]
    OBVIOUS
  <2>2. Taken(<<>>, <<>>)
    BY DEF Taken
  <2> QED BY <2>1, <2>2 DEF Accs
<1>4. \A acc \in Accs : \A tag : next(acc, tag) \in Accs
  <2> SUFFICES ASSUME NEW acc \in Accs, NEW tag PROVE next(acc, tag) \in Accs
    OBVIOUS
  <2>1. GroupOf(shown, tag) = 0 \/ GroupOf(shown, tag) \in Nat \ {0}
    BY GroupOfIs
  <2> QED BY <2>1, PutTakes
<1> HIDE DEF zero
<1>5. PICK f \in [0..last -> Accs] : IsLoop(f, 0, last, zero, step)
  <2> HIDE DEF next
  <2>1. step \in [Accs \X (0..last) -> Accs]
    BY <1>4
  <2>2. 0 \in Int /\ last \in Int /\ 0 <= last
    BY <1>2
  <2> HIDE DEF step
  <2> QED BY <1>3, <2>1, <2>2, Loop
<1>6. Eq(f)
  <2>1. f[0] = zero
    BY <1>5 DEF IsLoop
  <2>2. ASSUME NEW tag \in 0..last, tag # 0 PROVE f[tag] = next(f[tag - 1], tag)
    <3>1. tag \in 0 + 1..last /\ tag - 1 \in 0..last
      BY <1>2, <2>2
    <3>2. f[tag] = step[<<f[tag - 1], tag>>] /\ f[tag - 1] \in Accs
      BY <1>5, <3>1 DEF IsLoop
    <3> HIDE DEF next
    <3> QED BY <3>2
  <2> QED BY <1>5, <2>1, <2>2
<1> HIDE DEF Eq
<1>7. Eq(put)
  BY <1>6
<1> HIDE DEF put
<1>8. put[0] = zero /\ \A tag \in 0..last : tag # 0 => put[tag] = next(put[tag - 1], tag)
  <2>1. \A tag \in 0..last : put[tag] = IF tag = 0 THEN zero
                                        ELSE IF GroupOf(shown, tag) = 0 THEN put[tag - 1]
                                        ELSE Put(put[tag - 1], GroupOf(shown, tag))
    BY <1>7, Zenon DEF Eq
  <2>2. 0 \in 0..last
    BY <1>2
  <2> QED BY <2>1, <2>2
<1> DEFINE T == {m \in 0..last : put[m] \in Accs}
<1> HIDE DEF next
<1>9. 0 \in T /\ \A m \in 0..last : m \in T /\ m < last => m + 1 \in T
  <2>1. 0 \in T
    BY <1>2, <1>3, <1>8
  <2>2. ASSUME NEW m \in 0..last, m \in T, m < last PROVE m + 1 \in T
    <3>1. m + 1 \in 0..last /\ m + 1 # 0 /\ (m + 1) - 1 = m
      BY <1>2, <2>2
    <3>2. put[m + 1] = next(put[(m + 1) - 1], m + 1)
      BY <1>8, <3>1
    <3>3. put[m + 1] = next(put[m], m + 1)
      BY <3>1, <3>2
    <3>4. put[m + 1] \in Accs
      BY <1>4, <2>2, <3>3
    <3> QED BY <3>1, <3>4
  <2> QED BY <2>1, <2>2
<1> HIDE DEF T
<1>10. last \in T
  BY <1>2, <1>9, UpTo
<1> QED BY <1>1, <1>10 DEF T

\* The place of the k-th host: which row, and how many are before it there.
RowAt(k) == (k - 1) \div HostsPerRow
ColAt(k) == k - 1 - RowAt(k) * HostsPerRow
\* The place of the k-th host: its row and column.
LEMMA SlotIs ==
    ASSUME NEW k \in Nat \ {0}
    PROVE  /\ RowAt(k) \in Nat /\ ColAt(k) \in Nat /\ ColAt(k) < HostsPerRow /\ ColAt(k) < k
           /\ SlotAt(k).x = ColAt(k) * 120 /\ SlotAt(k).y = RowAt(k) * 84
<1> DEFINE H == HostsPerRow
<1>1. H \in Nat \ {0}
  BY HostRows
<1>2. k - 1 \in Nat
  OBVIOUS
<1>3. RowAt(k) \in Nat /\ RowAt(k) * H \in Nat /\ RowAt(k) * H <= k - 1 /\ k - 1 < RowAt(k) * H + H
  BY <1>1, <1>2, RowOf DEF RowAt
<1> HIDE DEF H
<1>4. ColAt(k) = k - 1 - RowAt(k) * H
  BY DEF ColAt, H
<1>5. ColAt(k) \in Nat /\ ColAt(k) < H /\ ColAt(k) < k
  BY <1>1, <1>3, <1>4
<1>6. SlotAt(k).x = ColAt(k) * 120 /\ SlotAt(k).y = RowAt(k) * 84
  BY DEF SlotAt, ColAt, RowAt, SlotW, RowH
<1> QED BY <1>3, <1>5, <1>6 DEF H

\* Every host of n stands within the rows and columns that n take.
LEMMA SlotsFit ==
    ASSUME NEW n \in Nat, NEW k \in 1..n
    PROVE  /\ CeilDiv(n, HostsPerRow) \in Nat /\ RowAt(k) < CeilDiv(n, HostsPerRow)
           /\ Least(n, HostsPerRow) \in Nat /\ ColAt(k) < Least(n, HostsPerRow)
<1>1. HostsPerRow \in Nat \ {0}
  BY HostRows
<1>2. k \in Nat \ {0} /\ k - 1 \in 0..n - 1
  OBVIOUS
<1>3. CeilDiv(n, HostsPerRow) \in Nat /\ RowAt(k) < CeilDiv(n, HostsPerRow)
  BY <1>1, <1>2, RowsOf DEF RowAt
<1>4. ColAt(k) \in Nat /\ ColAt(k) < HostsPerRow /\ ColAt(k) < k
  BY <1>2, SlotIs
<1>5. Least(n, HostsPerRow) \in Nat /\ ColAt(k) < Least(n, HostsPerRow)
  BY <1>1, <1>4 DEF Least
<1> QED BY <1>3, <1>5

\* A later host stands in a later row, or further right in the same.
LEMMA SlotsRise ==
    ASSUME NEW i \in Nat \ {0}, NEW j \in Nat \ {0}, i < j
    PROVE  RowAt(i) < RowAt(j) \/ (RowAt(i) = RowAt(j) /\ ColAt(i) < ColAt(j))
<1>1. HostsPerRow \in Nat \ {0} /\ i - 1 \in Nat /\ j - 1 \in Nat /\ i - 1 <= j - 1
  BY HostRows
<1>2. RowAt(i) <= RowAt(j)
  BY <1>1, RowsRise DEF RowAt
<1>3. RowAt(i) \in Nat /\ RowAt(j) \in Nat
  BY SlotIs
<1>4. CASE RowAt(i) = RowAt(j)
  <2>1. RowAt(j) * HostsPerRow \in Nat
    BY <1>1, <1>3
  <2>2. ColAt(i) < ColAt(j)
    BY <1>4, <2>1 DEF ColAt
  <2> QED BY <1>4, <2>2
<1> QED BY <1>2, <1>3, <1>4

\* Boxes in rows of equal places.
Gridded(n, s, dx, dy, wide, high, w, h) ==
    /\ n \in Nat /\ s \in [1..n -> Boxes] /\ dx \in Nat /\ dy \in Nat /\ {w, h} \subseteq Int
    /\ wide \in 0..120 /\ high \in 0..84
    /\ \A i \in 1..n : s[i].x = dx + ColAt(i) * 120 /\ s[i].y = dy + RowAt(i) * 84 /\ s[i].w = wide /\ s[i].h = high
    /\ dx + (Least(n, HostsPerRow) - 1) * 120 + wide <= w
    /\ dy + (CeilDiv(n, HostsPerRow) - 1) * 84 + high <= h

\* Columns of 120: a box of at most that width ends before the next column.
LEMMA AcrossBy ==
    ASSUME NEW a \in Nat, NEW b \in Nat, a < b, NEW d \in Nat, NEW wide \in 0..120, NEW w \in Int
    PROVE  /\ d + a * 120 + wide <= d + b * 120 /\ d + a * 120 + wide <= d + (b - 1) * 120 + wide
           /\ 0 <= d + a * 120
           /\ d + (b - 1) * 120 + wide <= w => d + a * 120 + wide <= w
<1>1. a * 120 + 120 <= b * 120 /\ a * 120 \in Nat /\ b * 120 \in Nat /\ (b - 1) * 120 = b * 120 - 120
  OBVIOUS
<1> QED BY <1>1

\* Rows of 84: a box of at most that height ends before the next row.
LEMMA DownBy ==
    ASSUME NEW a \in Nat, NEW b \in Nat, a < b, NEW d \in Nat, NEW high \in 0..84, NEW h \in Int
    PROVE  /\ d + a * 84 + high <= d + b * 84 /\ d + a * 84 + high <= d + (b - 1) * 84 + high
           /\ 0 <= d + a * 84 /\ d <= d + a * 84
           /\ d + (b - 1) * 84 + high <= h => d + a * 84 + high <= h
<1>1. a * 84 + 84 <= b * 84 /\ a * 84 \in Nat /\ b * 84 \in Nat /\ (b - 1) * 84 = b * 84 - 84
  OBVIOUS
<1> QED BY <1>1

\* Hosts in a grid lie apart.
LEMMA GridClear ==
    ASSUME NEW n, NEW s, NEW dx, NEW dy, NEW wide, NEW high, NEW w, NEW h,
           Gridded(n, s, dx, dy, wide, high, w, h)
    PROVE  Clear(s, w, h) /\ DOMAIN s = 1..n /\ Under(s, dy)
           /\ Over(s, dy + (CeilDiv(n, HostsPerRow) - 1) * 84 + high)
<1> DEFINE most == Least(n, HostsPerRow)
           rows == CeilDiv(n, HostsPerRow)
           low == dy + (rows - 1) * 84 + high
<1>1. /\ n \in Nat /\ s \in [1..n -> Boxes] /\ dx \in Nat /\ dy \in Nat /\ w \in Int /\ h \in Int
      /\ wide \in 0..120 /\ high \in 0..84
      /\ dx + (most - 1) * 120 + wide <= w /\ low <= h
  BY DEF Gridded
<1>2. ASSUME NEW i \in 1..n
      PROVE  /\ s[i].x = dx + ColAt(i) * 120 /\ s[i].y = dy + RowAt(i) * 84 /\ s[i].w = wide /\ s[i].h = high
             /\ ColAt(i) \in Nat /\ RowAt(i) \in Nat /\ most \in Nat /\ rows \in Nat
             /\ ColAt(i) < most /\ RowAt(i) < rows
  <2>1. i \in Nat \ {0}
    BY <1>1
  <2>2. ColAt(i) \in Nat /\ RowAt(i) \in Nat
    BY <2>1, SlotIs
  <2>3. most \in Nat /\ rows \in Nat /\ ColAt(i) < most /\ RowAt(i) < rows
    BY <1>1, SlotsFit
  <2> QED BY <2>2, <2>3 DEF Gridded
<1> HIDE DEF most, rows
<1>3. ASSUME NEW i \in 1..n
      PROVE  /\ 0 <= s[i].x /\ s[i].x + s[i].w <= w /\ dy <= s[i].y /\ 0 <= s[i].y /\ s[i].y + s[i].h <= low
             /\ s[i].y + s[i].h <= h
  <2>1. 0 <= dx + ColAt(i) * 120 /\ dx + ColAt(i) * 120 + wide <= w
    <3>1. /\ ColAt(i) \in Nat /\ most \in Nat /\ ColAt(i) < most /\ dx \in Nat /\ wide \in 0..120 /\ w \in Int
          /\ dx + (most - 1) * 120 + wide <= w
      BY <1>1, <1>2
    <3>2. 0 <= dx + ColAt(i) * 120
      BY ONLY <3>1, AcrossBy, Zenon
    <3>3. dx + ColAt(i) * 120 + wide <= w
      <4>1. dx + ColAt(i) * 120 + wide <= dx + (most - 1) * 120 + wide
        BY ONLY <3>1, AcrossBy, ZenonT(60)
      <4> QED BY ONLY <3>1, <4>1
    <3> QED BY <3>2, <3>3
  <2>2. /\ dy <= dy + RowAt(i) * 84 /\ 0 <= dy + RowAt(i) * 84
        /\ dy + RowAt(i) * 84 + high <= low /\ dy + RowAt(i) * 84 + high <= h
    <3>1. /\ RowAt(i) \in Nat /\ rows \in Nat /\ RowAt(i) < rows /\ dy \in Nat /\ high \in 0..84 /\ h \in Int
          /\ dy + (rows - 1) * 84 + high <= h
      BY <1>1, <1>2
    <3>2. 0 <= dy + RowAt(i) * 84
      BY ONLY <3>1, DownBy, Zenon
    <3>3. dy <= dy + RowAt(i) * 84
      BY ONLY <3>1, DownBy, Zenon
    <3>4. dy + RowAt(i) * 84 + high <= dy + (rows - 1) * 84 + high
      BY ONLY <3>1, DownBy, ZenonT(60)
    <3>5. dy + RowAt(i) * 84 + high <= h
      BY ONLY <3>1, DownBy, ZenonT(60)
    <3> QED BY <3>2, <3>3, <3>4, <3>5
  <2> QED BY <1>2, <2>1, <2>2
<1>4. ASSUME NEW i \in 1..n PROVE Fit(s[i], w, h)
  BY <1>3 DEF Fit
<1>5. ASSUME NEW i \in 1..n, NEW j \in 1..n, i < j PROVE Apart(s[i], s[j])
  <2>1. RowAt(i) < RowAt(j) \/ (RowAt(i) = RowAt(j) /\ ColAt(i) < ColAt(j))
    <3>1. i \in Nat \ {0} /\ j \in Nat \ {0}
      BY <1>1
    <3> QED BY <1>5, <3>1, SlotsRise
  <2>2. RowAt(i) < RowAt(j) => s[i].y + s[i].h <= s[j].y
    <3>1. RowAt(i) < RowAt(j) => dy + RowAt(i) * 84 + high <= dy + RowAt(j) * 84
      <4>1. RowAt(i) \in Nat /\ RowAt(j) \in Nat /\ dy \in Nat /\ high \in 0..84 /\ h \in Int
        BY <1>1, <1>2
      <4> QED BY ONLY <4>1, DownBy, ZenonT(60)
    <3> QED BY <1>2, <3>1
  <2>3. ColAt(i) < ColAt(j) => s[i].x + s[i].w <= s[j].x
    <3>1. ColAt(i) < ColAt(j) => dx + ColAt(i) * 120 + wide <= dx + ColAt(j) * 120
      <4>1. ColAt(i) \in Nat /\ ColAt(j) \in Nat /\ dx \in Nat /\ wide \in 0..120 /\ w \in Int
        BY <1>1, <1>2
      <4> QED BY ONLY <4>1, AcrossBy, ZenonT(60)
    <3> QED BY <1>2, <3>1
  <2> QED BY <2>1, <2>2, <2>3 DEF Apart
<1>6. Clear(s, w, h) /\ DOMAIN s = 1..n
  BY <1>1, <1>4, <1>5, ClearBy
<1>7. Under(s, dy) /\ Over(s, low)
  BY <1>3, <1>6 DEF Under, Over
<1> QED BY <1>6, <1>7 DEF most, rows

\* The hosts of a group lie in its box.
LEMMA GroupTidy ==
    ASSUME NEW n \in Nat
    PROVE  Tidy(Frame(Least(n, HostsPerRow) * 120 - 6, 18 + CeilDiv(n, HostsPerRow) * 84,
             [k \in 1..n |-> Box(SlotAt(k).x + 5, 18 + SlotAt(k).y + 2, SlotW - 16, RowH - 17)]))
<1> DEFINE s == [k \in 1..n |-> Box(SlotAt(k).x + 5, 18 + SlotAt(k).y + 2, SlotW - 16, RowH - 17)]
           w == Least(n, HostsPerRow) * 120 - 6
           h == 18 + CeilDiv(n, HostsPerRow) * 84
<1>1. ASSUME NEW i \in 1..n
      PROVE  s[i] \in Boxes /\ s[i].x = 5 + ColAt(i) * 120 /\ s[i].y = 20 + RowAt(i) * 84 /\ s[i].w = 104 /\ s[i].h = 67
  <2>1. i \in Nat \ {0}
    OBVIOUS
  <2>2. SlotAt(i).x = ColAt(i) * 120 /\ SlotAt(i).y = RowAt(i) * 84 /\ ColAt(i) \in Nat /\ RowAt(i) \in Nat
    BY <2>1, SlotIs
  <2>3. s[i] = Box(ColAt(i) * 120 + 5, 18 + RowAt(i) * 84 + 2, 104, 67)
    BY <2>2 DEF SlotW, RowH
  <2> DEFINE x == ColAt(i) * 120 + 5
             y == 18 + RowAt(i) * 84 + 2
  <2>4. x \in Int /\ y \in Int /\ x = 5 + ColAt(i) * 120 /\ y = 20 + RowAt(i) * 84
    BY <2>2
  <2> HIDE DEF s, x, y
  <2>5. s[i] = Box(x, y, 104, 67)
    BY <2>3 DEF x, y
  <2>6. s[i] \in Boxes /\ s[i].x = x /\ s[i].y = y /\ s[i].w = 104 /\ s[i].h = 67
    <3>1. 104 \in Int /\ 67 \in Int /\ x \in Int /\ y \in Int
      BY <2>4
    <3>2. /\ Box(x, y, 104, 67) \in Boxes /\ Box(x, y, 104, 67).x = x /\ Box(x, y, 104, 67).y = y
          /\ Box(x, y, 104, 67).w = 104 /\ Box(x, y, 104, 67).h = 67
      BY ONLY <3>1 DEF Box, Boxes
    <3> QED BY ONLY <2>5, <3>2
  <2> QED BY <2>4, <2>6
<1>2. s \in [1..n -> Boxes]
  BY <1>1
<1>3. HostsPerRow \in Nat \ {0}
  BY HostRows
<1>4. Least(n, HostsPerRow) \in Nat /\ CeilDiv(n, HostsPerRow) \in Nat
  BY <1>3, RowsOf DEF Least
<1> HIDE DEF s
<1>5. Gridded(n, s, 5, 20, 104, 67, w, h)
  <2>1. 5 + (Least(n, HostsPerRow) - 1) * 120 + 104 <= w /\ 20 + (CeilDiv(n, HostsPerRow) - 1) * 84 + 67 <= h
        /\ w \in Int /\ h \in Int
    BY <1>4
  <2> HIDE DEF w, h
  <2>2. 5 \in Nat /\ 20 \in Nat /\ 104 \in 0..120 /\ 67 \in 0..84 /\ {w, h} \subseteq Int
    BY <2>1
  <2> QED BY <1>1, <1>2, <2>1, <2>2 DEF Gridded
<1>6. Clear(s, w, h)
  BY <1>5, GridClear
<1> HIDE DEF w, h
<1>7. Tidy(Frame(w, h, s))
  BY <1>6, TidyFrame
<1> QED BY <1>7 DEF w, h, s

\* A shelf is as high as its highest group.
LEMMA ShelfHsAre ==
    ASSUME NEW acc \in Accs
    PROVE  /\ ShelfHs(acc) \in Seq(Nat) /\ Len(ShelfHs(acc)) = Len(acc.free)
           /\ \A i \in DOMAIN acc.on : TagH(acc.on[i]) <= ShelfHs(acc)[acc.on[i].shelf]
           /\ \A i \in DOMAIN acc.on : TagH(acc.on[i]) \in Nat
<1> DEFINE m == Len(acc.free)
           high(s) == Max({0} \cup {TagH(g) : g \in {k \in Elements(acc.on) : k.shelf = s}})
<1>1. Taken(acc.free, acc.on) /\ acc.free \in Seq(Nat) /\ acc.on \in Seq(GroupOn)
  BY DEF Accs, Taken
<1>2. m \in Nat /\ DOMAIN acc.free = 1..m
  BY <1>1, LenProperties
<1>3. IsFiniteSet(Elements(acc.on)) /\ Elements(acc.on) \subseteq GroupOn
  BY <1>1, ElementsFinite
<1>4. ASSUME NEW g \in GroupOn PROVE TagH(g) \in Nat
  <2>1. g.n \in Nat /\ HostsPerRow \in Nat \ {0}
    BY HostRows DEF GroupOn
  <2>2. CeilDiv(g.n, HostsPerRow) \in Nat
    BY <2>1, RowsOf
  <2> QED BY <2>2 DEF TagH, RowH
<1>5. ASSUME NEW s
      PROVE  /\ high(s) \in Nat
             /\ \A g \in Elements(acc.on) : g.shelf = s => TagH(g) <= high(s)
  <2> DEFINE G == {k \in Elements(acc.on) : k.shelf = s}
             f == [g \in GroupOn |-> TagH(g)]
             S == {0} \cup {f[g] : g \in G}
  <2>1. IsFiniteSet(G) /\ G \subseteq GroupOn
    BY <1>3, FS_Subset
  <2> HIDE DEF G
  <2>2. IsFiniteSet({f[g] : g \in G})
    <3> HIDE DEF f
    <3> QED BY <2>1, ImageFinite
  <2>3. \A g \in G : f[g] = TagH(g) /\ f[g] \in Nat
    BY <1>4, <2>1
  <2>4. S = {0} \cup {TagH(g) : g \in G}
    BY <2>3
  <2>5. IsFiniteSet(S) /\ S \subseteq Int /\ S # {} /\ S \subseteq Nat
    <3> DEFINE R == {f[g] : g \in G}
    <3>1. R \subseteq Nat
      BY <2>3
    <3> HIDE DEF f, R
    <3>2. IsFiniteSet(R) /\ S = {0} \cup R
      BY <2>2 DEF R
    <3>3. IsFiniteSet({0})
      BY FS_Singleton
    <3>4. IsFiniteSet(S)
      BY <3>2, <3>3, FS_Union
    <3> HIDE DEF S
    <3> QED BY <3>1, <3>2, <3>4
  <2>6. \A g \in G : TagH(g) \in S
    BY <2>4
  <2>7. high(s) = Max(S)
    BY <2>4 DEF G
  <2> HIDE DEF S, high
  <2>8. Max(S) \in S /\ \A x \in S : x <= Max(S)
    BY <2>5, MaxIs
  <2> QED BY <2>5, <2>6, <2>7, <2>8 DEF G
<1>6. ShelfHs(acc) = [s \in 1..m |-> high(s)]
  BY <1>2 DEF ShelfHs
<1> HIDE DEF high
<1>7. ShelfHs(acc) \in [1..m -> Nat]
  BY <1>5, <1>6
<1>8. ShelfHs(acc) \in Seq(Nat) /\ Len(ShelfHs(acc)) = m
  BY <1>2, <1>7, FunctionIsSeq
<1>9. ASSUME NEW i \in DOMAIN acc.on
      PROVE  TagH(acc.on[i]) <= ShelfHs(acc)[acc.on[i].shelf] /\ TagH(acc.on[i]) \in Nat
  <2>1. acc.on[i] \in Elements(acc.on) /\ acc.on[i] \in GroupOn
    BY <1>3 DEF Elements
  <2>2. acc.on[i].shelf \in 1..m
    BY <1>1, <1>2 DEF Taken
  <2>3. ShelfHs(acc)[acc.on[i].shelf] = high(acc.on[i].shelf)
    BY <1>6, <2>2
  <2>4. TagH(acc.on[i]) <= high(acc.on[i].shelf)
    BY <1>5, <2>1
  <2> QED BY <1>4, <2>1, <2>3, <2>4
<1> QED BY <1>8, <1>9

\* Groups on shelves, from 52 below the edge.
OnShelf(acc, high, s, w, h) ==
    /\ acc \in Accs /\ high \in Seq(Nat) /\ Len(high) = Len(acc.free)
    /\ \A i \in DOMAIN acc.on : TagH(acc.on[i]) \in Nat /\ TagH(acc.on[i]) <= high[acc.on[i].shelf]
    /\ s \in [1..Len(acc.on) -> Boxes]
    /\ \A i \in 1..Len(acc.on) :
         LET g == acc.on[i]
         IN  /\ s[i].x = g.col * 120 + 3 /\ s[i].y = 52 + From(high, 8, g.shelf)
             /\ s[i].w = Wide(g) * 120 - 6 /\ s[i].h = TagH(g)
    /\ w = HostsPerRow * 120 /\ h \in Int /\ 52 + Extent(high, 8) <= h

\* Two groups on one shelf: the frame of a group ends before the next begins.
LEMMA BesideEach ==
    ASSUME NEW c \in Nat, NEW n \in Nat, NEW d \in Nat, c + n <= d
    PROVE  /\ (c * 120 + 3) + (n * 120 - 6) <= d * 120 + 3 /\ (c * 120 + 3) + (n * 120 - 6) <= d * 120
           /\ c * 120 + 3 >= 0
<1>1. c * 120 \in Nat /\ n * 120 \in Nat /\ d * 120 \in Nat /\ c * 120 + n * 120 <= d * 120
  OBVIOUS
<1> QED BY <1>1

\* The groups on their shelves lie apart.
LEMMA ShelvesClear ==
    ASSUME NEW acc, NEW high, NEW s, NEW w, NEW h, OnShelf(acc, high, s, w, h)
    PROVE  Clear(s, w, h) /\ DOMAIN s = 1..Len(acc.on) /\ Under(s, 52) /\ Over(s, 52 + Extent(high, 8))
<1> DEFINE n == Len(acc.on)
           m == Len(high)
           H == HostsPerRow
           e == Extent(high, 8)
           on == acc.on
<1>1. Taken(acc.free, acc.on) /\ on \in Seq(GroupOn) /\ acc.free \in Seq(Nat)
  BY DEF OnShelf, Accs, Taken
<1>2. n \in Nat /\ DOMAIN on = 1..n /\ DOMAIN acc.free = 1..m /\ m \in Nat
  BY <1>1, LenProperties DEF OnShelf
<1>3. H \in Nat \ {0}
  BY HostRows
<1>4. /\ e \in Nat /\ \A k \in 1..m : From(high, 8, k) \in Nat /\ high[k] \in Nat /\ From(high, 8, k) + high[k] <= e
      /\ \A k, l \in 1..m : k < l => From(high, 8, k) + high[k] <= From(high, 8, l)
  <2>1. high \in Seq(Nat) /\ 8 \in Nat
    BY DEF OnShelf
  <2>2. e \in Nat /\ \A k \in 1..m : From(high, 8, k) + high[k] <= e
    BY <2>1, ExtentIs
  <2>3. \A k \in 1..m : k \in 1..m + 1
    BY <1>2
  <2>4. \A k \in 1..m : From(high, 8, k) \in Nat
    BY <2>1, <2>3, FromIs
  <2>5. \A k \in 1..m : high[k] \in Nat
    BY <2>1, LenProperties
  <2>6. \A k \in 1..m : \A l \in 1..m : k < l => From(high, 8, k) + high[k] <= From(high, 8, l)
    BY <2>1, Stretches
  <2> QED BY <2>2, <2>4, <2>5, <2>6
<1>5. ASSUME NEW i \in 1..n
      PROVE  /\ on[i].shelf \in 1..m /\ on[i].col \in Nat /\ Wide(on[i]) \in Nat /\ on[i].col + Wide(on[i]) <= H
             /\ TagH(on[i]) \in Nat /\ TagH(on[i]) <= high[on[i].shelf]
             /\ \A j \in 1..n : i < j /\ on[i].shelf = on[j].shelf => on[i].col + Wide(on[i]) <= on[j].col
  <2>1. /\ on[i].shelf \in 1..m /\ on[i].col + Wide(on[i]) <= H - acc.free[on[i].shelf]
        /\ \A j \in 1..n : i < j /\ on[i].shelf = on[j].shelf => on[i].col + Wide(on[i]) <= on[j].col
    BY <1>1, <1>2 DEF Taken
  <2>2. on[i] \in GroupOn
    BY <1>1, <1>2
  <2>3. on[i].col \in Nat /\ on[i].n \in Nat
    BY <2>2 DEF GroupOn
  <2>4. Wide(on[i]) \in Nat
    BY <1>3, <2>3 DEF Wide, Least
  <2>5. acc.free[on[i].shelf] \in Nat
    BY <1>1, <1>2, <2>1, LenProperties
  <2>6. TagH(on[i]) \in Nat /\ TagH(on[i]) <= high[on[i].shelf]
    BY <1>2 DEF OnShelf
  <2>7. on[i].col + Wide(on[i]) <= H
    <3> DEFINE a == on[i].col
               b == Wide(on[i])
               c == acc.free[on[i].shelf]
    <3>1. a \in Nat /\ b \in Nat /\ c \in Nat /\ H \in Nat
      BY <1>3, <2>3, <2>4, <2>5
    <3>2. a + b <= H - c
      BY <2>1
    <3> HIDE DEF a, b, c, H
    <3>3. a + b <= H
      BY ONLY <3>1, <3>2
    <3> QED BY <3>3 DEF a, b, H
  <2> QED BY <2>1, <2>3, <2>4, <2>6, <2>7
<1>6. /\ s \in [1..n -> Boxes] /\ w = H * 120 /\ h \in Int /\ 52 + e <= h
      /\ \A i \in 1..n : /\ s[i].x = on[i].col * 120 + 3 /\ s[i].y = 52 + From(high, 8, on[i].shelf)
                         /\ s[i].w = Wide(on[i]) * 120 - 6 /\ s[i].h = TagH(on[i])
  BY DEF OnShelf
<1> HIDE DEF n, m, H, e, on
<1>7. ASSUME NEW i \in 1..n
      PROVE  /\ s[i].x >= 0 /\ s[i].x + s[i].w <= w
             /\ 52 <= s[i].y /\ s[i].y + s[i].h <= 52 + e
  <2>1. (on[i].col * 120 + 3) + (Wide(on[i]) * 120 - 6) <= H * 120 /\ on[i].col * 120 + 3 >= 0
    <3>1. on[i].col \in Nat /\ Wide(on[i]) \in Nat /\ H \in Nat /\ on[i].col + Wide(on[i]) <= H
      BY <1>3, <1>5
    <3>2. (on[i].col * 120 + 3) + (Wide(on[i]) * 120 - 6) <= H * 120
      BY ONLY <3>1, BesideEach, ZenonT(60)
    <3> QED BY <3>1, <3>2
  <2>2. (52 + From(high, 8, on[i].shelf)) + TagH(on[i]) <= 52 + e /\ 52 <= 52 + From(high, 8, on[i].shelf)
    <3>1. /\ From(high, 8, on[i].shelf) \in Nat /\ TagH(on[i]) \in Nat /\ high[on[i].shelf] \in Nat /\ e \in Nat
          /\ TagH(on[i]) <= high[on[i].shelf] /\ From(high, 8, on[i].shelf) + high[on[i].shelf] <= e
      BY <1>4, <1>5
    <3> QED BY <3>1
  <2> QED BY <1>6, <2>1, <2>2
<1>8. ASSUME NEW i \in 1..n PROVE Fit(s[i], w, h)
  <2>1. /\ s[i].x \in Int /\ s[i].y \in Int /\ s[i].w \in Int /\ s[i].h \in Int
    <3>1. s[i] \in Boxes
      BY <1>6
    <3> QED BY <3>1 DEF Boxes
  <2>2. s[i].y + s[i].h <= h /\ s[i].y >= 0
    BY <1>4, <1>6, <1>7, <2>1, SMTT(60)
  <2> QED BY <1>7, <2>2 DEF Fit
<1>9. ASSUME NEW i \in 1..n, NEW j \in 1..n, i < j PROVE Apart(s[i], s[j])
  <2>1. CASE on[i].shelf = on[j].shelf
    <3>1. on[i].col \in Nat /\ Wide(on[i]) \in Nat /\ on[j].col \in Nat /\ on[i].col + Wide(on[i]) <= on[j].col
      BY <1>5, <1>9, <2>1
    <3>2. (on[i].col * 120 + 3) + (Wide(on[i]) * 120 - 6) <= on[j].col * 120 + 3
      BY ONLY <3>1, BesideEach, ZenonT(60)
    <3>3. s[i].x + s[i].w <= s[j].x
      BY <1>6, <3>2
    <3> QED BY <3>3 DEF Apart
  <2>2. ASSUME NEW k \in 1..n, NEW l \in 1..n, on[k].shelf < on[l].shelf PROVE s[k].y + s[k].h <= s[l].y
    <3>1. /\ From(high, 8, on[k].shelf) \in Nat /\ TagH(on[k]) \in Nat /\ high[on[k].shelf] \in Nat
          /\ From(high, 8, on[l].shelf) \in Nat
          /\ TagH(on[k]) <= high[on[k].shelf] /\ From(high, 8, on[k].shelf) + high[on[k].shelf] <= From(high, 8, on[l].shelf)
      BY <1>4, <1>5, <2>2
    <3>2. (52 + From(high, 8, on[k].shelf)) + TagH(on[k]) <= 52 + From(high, 8, on[l].shelf)
      BY <3>1
    <3> QED BY <1>6, <3>2
  <2>3. on[i].shelf \in Int /\ on[j].shelf \in Int
    <3>1. on[i].shelf \in 1..m /\ on[j].shelf \in 1..m
      BY <1>5
    <3> QED BY <1>2, <3>1
  <2>4. CASE on[i].shelf < on[j].shelf
    <3>1. s[i].y + s[i].h <= s[j].y
      BY <2>2, <2>4
    <3> QED BY <3>1 DEF Apart
  <2>5. CASE on[j].shelf < on[i].shelf
    <3>1. s[j].y + s[j].h <= s[i].y
      BY <2>2, <2>5
    <3> QED BY <3>1 DEF Apart
  <2> QED BY <2>1, <2>3, <2>4, <2>5
<1>10. Clear(s, w, h) /\ DOMAIN s = 1..n
  BY <1>2, <1>6, <1>8, <1>9, ClearBy
<1>11. Under(s, 52) /\ Over(s, 52 + e)
  BY <1>7, <1>10 DEF Under, Over
<1> QED BY <1>10, <1>11 DEF n, e

\* A box that is moved down.
LEMMA MovedDown ==
    ASSUME NEW b \in Boxes, NEW d \in Int
    PROVE  /\ Moved(b, 0, d) \in Boxes /\ Moved(b, 0, d).x = b.x /\ Moved(b, 0, d).y = b.y + d
           /\ Moved(b, 0, d).w = b.w /\ Moved(b, 0, d).h = b.h
<1>1. b.x \in Int /\ b.y \in Int /\ b.w \in Int /\ b.h \in Int
  BY DEF Boxes
<1> DEFINE y == b.y + d
           m == [b EXCEPT !.y = y]
<1>2. y \in Int /\ b.x + 0 = b.x
  BY <1>1
<1>3. Moved(b, 0, d) = [b EXCEPT !.x = b.x + 0, !.y = y]
  BY DEF Moved
<1> HIDE DEF y
<1>4. m \in Boxes /\ m.x = b.x /\ m.y = y /\ m.w = b.w /\ m.h = b.h
  BY <1>2 DEF Boxes
<1>5. [b EXCEPT !.x = b.x] = b
  BY DEF Boxes
<1>6. Moved(b, 0, d) = m
  BY <1>2, <1>3, <1>5
<1> HIDE DEF m
<1> QED BY <1>4, <1>6 DEF y

\* What begins below a line begins below every higher one.
LEMMA UnderLess ==
    ASSUME NEW a \in Seq(Boxes), NEW m \in Int, NEW n \in Int, n <= m, Under(a, m)
    PROVE  Under(a, n)
<1>1. ASSUME NEW i \in DOMAIN a PROVE a[i].y \in Int
  <2>1. a[i] \in Boxes
    BY LenProperties
  <2> QED BY <2>1 DEF Boxes
<1> QED BY <1>1 DEF Under

\* What _layout gives: the cells of a segment where they are drawn, its groups, and where
\* "+N weitere" stands.
Shift(lay) == [i \in DOMAIN lay.cells |-> Moved(lay.cells[i], 0, 52)]
Laid(lay, more) ==
    /\ lay.h \in Nat
    /\ \A h \in Int : 52 + lay.h <= h => Clear(Shift(lay), HostsPerRow * 120, h)
    /\ Under(Shift(lay), 48) /\ Over(Shift(lay), 52 + lay.h)
    /\ \A f \in lay.groups : Tidy(f)
    /\ more => lay.moreAt.x = 0 /\ lay.moreAt.y \in lay.h..lay.h + 4

\* Hosts by service: laid out as high as the shelves say (_layout).
LEMMA ShelvesLaid ==
    ASSUME NEW plan \in Accs, NEW more
    PROVE  Laid(OnShelves(plan.on, ShelfHs(plan)), more)
<1> DEFINE high == ShelfHs(plan)
           on == plan.on
           lay == OnShelves(on, high)
           box(g) == Box(g.col * SlotW + 3, From(high, 8, g.shelf), Least(g.n, HostsPerRow) * SlotW - 6, TagH(g))
           slots(g) == [k \in 1..g.n |-> Box(SlotAt(k).x + 5, 18 + SlotAt(k).y + 2, SlotW - 16, RowH - 17)]
           s == Shift(lay)
           e == Extent(high, 8)
           n == Len(on)
<1>1. Taken(plan.free, on) /\ on \in Seq(GroupOn) /\ plan.free \in Seq(Nat)
  BY DEF Accs, Taken
<1>2. n \in Nat /\ DOMAIN on = 1..n
  BY <1>1, LenProperties
<1>3. /\ high \in Seq(Nat) /\ Len(high) = Len(plan.free)
      /\ \A i \in DOMAIN on : TagH(on[i]) \in Nat /\ TagH(on[i]) <= high[on[i].shelf]
  BY ShelfHsAre
<1>4. /\ lay.h = e /\ lay.cells = [i \in DOMAIN on |-> box(on[i])]
      /\ lay.groups = {Frame(box(on[i]).w, box(on[i]).h, slots(on[i])) : i \in DOMAIN on}
      /\ lay.moreAt.x = 0 /\ lay.moreAt.y = e + 4
  BY DEF OnShelves
<1> HIDE DEF high
<1>5. e \in Nat
  <2>1. 8 \in Nat
    OBVIOUS
  <2> QED BY <1>3, <2>1, ExtentIs
<1> HIDE DEF e, lay
<1>6. ASSUME NEW i \in 1..n
      PROVE  /\ on[i].col \in Nat /\ on[i].n \in Nat /\ Wide(on[i]) \in Nat /\ TagH(on[i]) \in Nat
             /\ From(high, 8, on[i].shelf) \in Nat
  <2>1. on[i] \in GroupOn
    BY <1>1, <1>2
  <2>2. on[i].col \in Nat /\ on[i].n \in Nat
    BY <2>1 DEF GroupOn
  <2>3. Wide(on[i]) \in Nat
    BY <2>2, HostRows DEF Wide, Least
  <2>4. on[i].shelf \in DOMAIN plan.free
    BY <1>1, <1>2 DEF Taken
  <2>5. DOMAIN plan.free = 1..Len(high) /\ Len(high) \in Nat
    BY <1>1, <1>3, LenProperties
  <2>6. on[i].shelf \in 1..Len(high) + 1
    BY <2>4, <2>5
  <2>7. From(high, 8, on[i].shelf) \in Nat
    <3>1. 8 \in Nat
      OBVIOUS
    <3> QED BY <1>3, <2>6, <3>1, FromIs
  <2> QED BY <1>2, <1>3, <2>2, <2>3, <2>7
<1>7. ASSUME NEW i \in 1..n
      PROVE  /\ s[i] \in Boxes
             /\ s[i].x = on[i].col * 120 + 3 /\ s[i].y = 52 + From(high, 8, on[i].shelf)
             /\ s[i].w = Wide(on[i]) * 120 - 6 /\ s[i].h = TagH(on[i])
             /\ box(on[i]).w = Wide(on[i]) * 120 - 6 /\ box(on[i]).h = TagH(on[i])
  <2>1. s[i] = Moved(lay.cells[i], 0, 52) /\ lay.cells[i] = box(on[i])
    BY <1>2, <1>4 DEF Shift
  <2> DEFINE x == on[i].col * 120 + 3
             y == From(high, 8, on[i].shelf)
             w == Wide(on[i]) * 120 - 6
             h == TagH(on[i])
  <2>2. box(on[i]) = Box(x, y, w, h)
    BY DEF SlotW, Wide
  <2>3. x \in Int /\ y \in Int /\ w \in Int /\ h \in Int
    <3>1. on[i].col \in Nat /\ Wide(on[i]) \in Nat /\ TagH(on[i]) \in Nat /\ From(high, 8, on[i].shelf) \in Nat
      BY <1>6
    <3>2. \A c, d \in Nat : c * 120 + 3 \in Int /\ d * 120 - 6 \in Int
      OBVIOUS
    <3>3. x \in Int /\ w \in Int
      BY <3>1, <3>2
    <3>4. y \in Int /\ h \in Int
      BY <3>1
    <3> QED BY <3>3, <3>4
  <2> HIDE DEF x, y, w, h, box
  <2>4. /\ box(on[i]) \in Boxes /\ box(on[i]).x = x /\ box(on[i]).y = y /\ box(on[i]).w = w /\ box(on[i]).h = h
    BY <2>2, <2>3, BoxIs
  <2>5. 52 \in Int
    OBVIOUS
  <2>6. /\ s[i] \in Boxes /\ s[i].x = x /\ s[i].y = y + 52 /\ s[i].w = w /\ s[i].h = h
    <3>1. s[i] = Moved(box(on[i]), 0, 52)
      BY <2>1
    <3> DEFINE b == box(on[i])
    <3>2. b \in Boxes /\ b.x = x /\ b.y = y /\ b.w = w /\ b.h = h
      BY <2>4
    <3>3. s[i] = Moved(b, 0, 52)
      BY <3>1
    <3> HIDE DEF s, b
    <3>4. /\ Moved(b, 0, 52) \in Boxes /\ Moved(b, 0, 52).x = b.x /\ Moved(b, 0, 52).y = b.y + 52
          /\ Moved(b, 0, 52).w = b.w /\ Moved(b, 0, 52).h = b.h
      BY <2>5, <3>2, MovedDown
    <3> QED BY <3>2, <3>3, <3>4
  <2>7. y + 52 = 52 + y
    BY <2>3
  <2> QED BY <2>4, <2>6, <2>7 DEF x, y, w, h
<1>8. DOMAIN s = 1..n
  BY <1>2, <1>4 DEF Shift
<1>9. s \in [1..n -> Boxes]
  <2>1. s = [i \in 1..n |-> s[i]]
    BY <1>8 DEF Shift
  <2> HIDE DEF s
  <2> QED BY <1>7, <2>1
<1>10. \A f \in lay.groups : Tidy(f)
  <2> SUFFICES ASSUME NEW i \in 1..n PROVE Tidy(Frame(box(on[i]).w, box(on[i]).h, slots(on[i])))
    BY <1>2, <1>4
  <2>1. box(on[i]).w = Least(on[i].n, HostsPerRow) * 120 - 6
        /\ box(on[i]).h = 18 + CeilDiv(on[i].n, HostsPerRow) * 84
    BY <1>7 DEF Wide, TagH, RowH
  <2> HIDE DEF box
  <2>2. on[i].n \in Nat
    BY <1>6
  <2> QED BY <2>1, <2>2, GroupTidy
<1> HIDE DEF s, box, slots
<1>11. ASSUME NEW h \in Int, 52 + e <= h
       PROVE Clear(s, HostsPerRow * 120, h) /\ Under(s, 52) /\ Over(s, 52 + e)
  <2>1. OnShelf(plan, high, s, HostsPerRow * 120, h)
    BY <1>2, <1>3, <1>7, <1>9, <1>11 DEF OnShelf, e
  <2> QED BY <2>1, ShelvesClear DEF e
<1>12. Clear(s, HostsPerRow * 120, 52 + e) /\ Under(s, 52) /\ Over(s, 52 + e)
  <2>1. 52 + e \in Int /\ 52 + e <= 52 + e
    BY <1>5
  <2> QED BY <1>11, <2>1
<1>13. Under(s, 48)
  <2>1. s \in Seq(Boxes) /\ 52 \in Int /\ 48 \in Int /\ 48 <= 52
    BY <1>12 DEF Clear
  <2> QED BY <1>12, <2>1, UnderLess
<1>14. lay.moreAt.y \in lay.h..lay.h + 4
  BY <1>4, <1>5
<1>15. Laid(lay, more)
  BY <1>4, <1>5, <1>10, <1>11, <1>12, <1>13, <1>14 DEF Laid, s
<1> QED BY <1>15 DEF lay, high

\* Whole rows: the place after the last begins a row of its own.
LEMMA RowBegins ==
    /\ CeilDiv(HostMax, HostsPerRow) \in Nat
    /\ SlotAt(HostMax + 1).x = 0 /\ SlotAt(HostMax + 1).y = CeilDiv(HostMax, HostsPerRow) * 84
<1> DEFINE r == HostMax \div HostsPerRow
           c == CeilDiv(HostMax, HostsPerRow)
<1>1. HostsPerRow \in Nat \ {0} /\ HostMax \in Nat /\ HostMax = r * HostsPerRow
  BY HostRows
<1>2. r \in Nat
  BY <1>1, RowOf
<1>3. c \in Nat /\ r <= c /\ (r < c => r * HostsPerRow + 1 <= HostMax)
  BY <1>1, <1>2, RowsOf
<1> HIDE DEF r, c
<1>4. r = c
  <2>1. r * HostsPerRow \in Nat
    BY <1>1, <1>2
  <2> QED BY <1>1, <1>2, <1>3, <2>1
<1>5. (HostMax + 1) - 1 = HostMax /\ HostMax + 1 \in Nat \ {0}
  BY <1>1
<1>6. RowAt(HostMax + 1) = r
  BY <1>5 DEF RowAt, r
<1>7. ColAt(HostMax + 1) = 0
  BY <1>1, <1>5, <1>6 DEF ColAt
<1>8. SlotAt(HostMax + 1).x = 0 * 120 /\ SlotAt(HostMax + 1).y = r * 84
  BY <1>5, <1>6, <1>7, SlotIs
<1> QED BY <1>3, <1>4, <1>8 DEF c

\* The outline of a host in such a place.
LEMMA CellIs ==
    ASSUME NEW i \in Nat \ {0}, NEW o, o = Moved(Box(SlotAt(i).x + 8, SlotAt(i).y - 4, 104, 76), 0, 52)
    PROVE  o \in Boxes /\ o.x = 8 + ColAt(i) * 120 /\ o.y = 48 + RowAt(i) * 84 /\ o.w = 104 /\ o.h = 76
<1>1. SlotAt(i).x = ColAt(i) * 120 /\ SlotAt(i).y = RowAt(i) * 84 /\ ColAt(i) \in Nat /\ RowAt(i) \in Nat
  BY SlotIs
<1> DEFINE x == SlotAt(i).x + 8
           y == SlotAt(i).y - 4
           w == 104
           h == 76
           d == 52
           b == Box(x, y, w, h)
<1>2. x \in Int /\ y \in Int /\ x = 8 + ColAt(i) * 120 /\ y + 52 = 48 + RowAt(i) * 84
  <2>1. \A c, r \in Nat : /\ c * 120 + 8 \in Int /\ c * 120 + 8 = 8 + c * 120
                          /\ r * 84 - 4 \in Int /\ (r * 84 - 4) + 52 = 48 + r * 84
    OBVIOUS
  <2> QED BY <1>1, <2>1
<1>3. w \in Int /\ h \in Int /\ d \in Int
  OBVIOUS
<1>4. o = Moved(b, 0, d) /\ b = Box(x, y, w, h)
  OBVIOUS
<1> HIDE DEF x, y, w, h, d, b
<1>5. b \in Boxes /\ b.x = x /\ b.y = y /\ b.w = w /\ b.h = h
  <2>1. x \in Int /\ y \in Int
    BY <1>2
  <2>2. b = Box(x, y, w, h)
    BY <1>4
  <2> QED BY ONLY <2>1, <1>3, <2>2 DEF Box, Boxes
<1>6. /\ Moved(b, 0, d) \in Boxes /\ Moved(b, 0, d).x = b.x /\ Moved(b, 0, d).y = b.y + d
      /\ Moved(b, 0, d).w = b.w /\ Moved(b, 0, d).h = b.h
  BY ONLY <1>3, <1>5, MovedDown
<1>7. o \in Boxes /\ o.x = x /\ o.y = y + d /\ o.w = w /\ o.h = h
  BY ONLY <1>4, <1>5, <1>6
<1> QED BY <1>2, <1>7 DEF w, h, d

\* Hosts in rows.
LEMMA RowsLaid ==
    ASSUME NEW shown \in Seq(Nat), NEW more, more => Len(shown) = HostMax,
           NEW lay, lay = [h |-> CeilDiv(Len(shown), HostsPerRow) * RowH,
              cells |-> [k \in DOMAIN shown |-> Box(SlotAt(k).x + 8, SlotAt(k).y - 4, SlotW - 16, RowH - 8)],
              groups |-> {}, moreAt |-> SlotAt(Len(shown) + 1)]
    PROVE  Laid(lay, more) /\ (shown = <<>> => lay.h = 0)
<1> DEFINE n == Len(shown)
           c == CeilDiv(n, HostsPerRow)
           s == Shift(lay)
<1>1. n \in Nat /\ DOMAIN shown = 1..n
  BY LenProperties
<1>2. HostsPerRow \in Nat \ {0}
  BY HostRows
<1>3. c \in Nat /\ (0 < c => 0 * HostsPerRow + 1 <= n)
  <2>1. 0 \in Nat
    OBVIOUS
  <2> QED BY <1>1, <1>2, <2>1, RowsOf
<1>4. lay.h = c * 84 /\ lay.groups = {} /\ lay.moreAt = SlotAt(n + 1)
      /\ lay.cells = [k \in 1..n |-> Box(SlotAt(k).x + 8, SlotAt(k).y - 4, 104, 76)]
  BY <1>1 DEF RowH, SlotW
<1>5. DOMAIN s = 1..n /\ \A i \in 1..n : s[i] = Moved(Box(SlotAt(i).x + 8, SlotAt(i).y - 4, 104, 76), 0, 52)
  BY <1>4, ZenonT(60) DEF Shift
<1>6. ASSUME NEW i \in 1..n
      PROVE  s[i] \in Boxes /\ s[i].x = 8 + ColAt(i) * 120 /\ s[i].y = 48 + RowAt(i) * 84 /\ s[i].w = 104 /\ s[i].h = 76
  <2>1. i \in Nat \ {0}
    BY <1>1
  <2>2. s[i] = Moved(Box(SlotAt(i).x + 8, SlotAt(i).y - 4, 104, 76), 0, 52)
    BY <1>5
  <2> HIDE DEF s
  <2> QED BY ONLY <2>1, <2>2, CellIs
<1>7. s \in [1..n -> Boxes]
  <2>1. s = [i \in 1..n |-> s[i]]
    BY <1>5 DEF Shift
  <2> HIDE DEF s
  <2> QED BY <1>6, <2>1
<1> HIDE DEF s, c
<1>8. ASSUME NEW h \in Int, 52 + c * 84 <= h
      PROVE  Clear(s, HostsPerRow * 120, h) /\ Under(s, 48) /\ Over(s, 48 + (c - 1) * 84 + 76)
  <2> DEFINE w == HostsPerRow * 120
             least == Least(n, HostsPerRow)
  <2>1. least \in Nat /\ least <= HostsPerRow
    BY <1>1, <1>2 DEF Least
  <2> HIDE DEF least
  <2>2. 8 + (least - 1) * 120 + 104 <= w /\ w \in Int
    BY <1>2, <2>1
  <2>3. 48 + (c - 1) * 84 + 76 <= h
    BY <1>3, <1>8
  <2> HIDE DEF w
  <2>4. 8 \in Nat /\ 48 \in Nat /\ 104 \in 0..120 /\ 76 \in 0..84 /\ {w, h} \subseteq Int
    BY <2>2
  <2>5. Gridded(n, s, 8, 48, 104, 76, w, h)
    BY <1>1, <1>6, <1>7, <2>2, <2>3, <2>4 DEF Gridded, least, c
  <2> QED BY <2>5, GridClear DEF c, w
<1>9. 52 + c * 84 \in Int /\ c * 84 \in Nat
  BY <1>3
<1>10. Clear(s, HostsPerRow * 120, 52 + c * 84) /\ Under(s, 48) /\ Over(s, 48 + (c - 1) * 84 + 76)
  <2>1. 52 + c * 84 <= 52 + c * 84
    BY <1>9
  <2> QED BY <1>8, <1>9, <2>1
<1>11. Over(s, 52 + c * 84)
  <2>1. s \in Seq(Boxes)
    BY <1>10 DEF Clear
  <2>2. 48 + (c - 1) * 84 + 76 \in Int /\ 48 + (c - 1) * 84 + 76 <= 52 + c * 84
    BY <1>3
  <2> QED BY <1>9, <1>10, <2>1, <2>2, OverMore
<1>12. more => lay.moreAt.x = 0 /\ lay.moreAt.y \in lay.h..lay.h + 4
  <2> SUFFICES ASSUME more PROVE lay.moreAt.x = 0 /\ lay.moreAt.y \in lay.h..lay.h + 4
    OBVIOUS
  <2>1. n = HostMax
    OBVIOUS
  <2>2. SlotAt(n + 1).x = 0 /\ SlotAt(n + 1).y = c * 84
    BY <2>1, RowBegins DEF c
  <2> QED BY <1>4, <1>9, <2>2
<1>13. \A f \in lay.groups : Tidy(f)
  BY <1>4
<1>14. shown = <<>> => lay.h = 0
  <2> SUFFICES ASSUME shown = <<>> PROVE lay.h = 0
    OBVIOUS
  <2>1. n = 0
    OBVIOUS
  <2> QED BY <1>2, <1>3, <1>4, <2>1
<1>15. lay.h = c * 84
  BY <1>4
<1> HIDE DEF n
<1>16. \A h \in Int : 52 + lay.h <= h => Clear(s, HostsPerRow * 120, h)
  BY <1>8, <1>15
<1> QED BY <1>9, <1>10, <1>11, <1>12, <1>13, <1>14, <1>15, <1>16 DEF Laid, s

\* What a segment shows of its hosts.
LEMMA ShownIs ==
    ASSUME NEW hosts \in Seq(Nat), NEW shown, shown = SubSeq(hosts, 1, Least(Len(hosts), HostMax))
    PROVE  /\ shown \in Seq(Nat) /\ Len(shown) = Least(Len(hosts), HostMax)
           /\ (Len(hosts) > HostMax => Len(shown) = HostMax) /\ (hosts = <<>> => shown = <<>>)
<1> DEFINE k == Least(Len(hosts), HostMax)
<1>1. Len(hosts) \in Nat /\ HostMax \in Nat /\ \A i \in 1..Len(hosts) : hosts[i] \in Nat
  BY HostRows, LenProperties
<1>2. k \in Nat /\ k <= Len(hosts) /\ (Len(hosts) > HostMax => k = HostMax)
  BY <1>1 DEF Least
<1> HIDE DEF k
<1>3. shown = SubSeq(hosts, 1, k)
  BY DEF k
<1>4. 1 \in Int /\ k \in Int /\ \A i \in 1..k : hosts[i] \in Nat
  BY <1>1, <1>2
<1>5. shown \in Seq(Nat) /\ Len(shown) = k
  <2> DEFINE t == SubSeq(hosts, 1, k)
  <2>1. t \in Seq(Nat)
    BY ONLY <1>4, SubSeqProperties, Zenon
  <2>2. Len(t) = IF 1 <= k THEN k - 1 + 1 ELSE 0
    <3>1. SubSeq(hosts, 1, k) \in Seq(Nat) /\ Len(SubSeq(hosts, 1, k)) = IF 1 <= k THEN k - 1 + 1 ELSE 0
      BY ONLY <1>4, SubSeqProperties, SMTT(30)
    <3> QED BY ONLY <3>1
  <2> HIDE DEF t
  <2>3. Len(t) = k
    BY ONLY <1>2, <2>2
  <2> QED BY ONLY <1>3, <2>1, <2>3 DEF t
<1>6. Len(shown) = k
  BY <1>5
<1>7. hosts = <<>> => shown = <<>>
  <2> SUFFICES ASSUME hosts = <<>> PROVE shown = <<>>
    OBVIOUS
  <2>1. Len(hosts) = 0
    OBVIOUS
  <2>2. k = 0
    BY ONLY <1>2, <2>1
  <2>3. Len(shown) = 0
    BY ONLY <1>6, <2>2
  <2> QED BY <1>5, <2>3, EmptySeq
<1> QED BY <1>2, <1>5, <1>6, <1>7 DEF k

\* Hosts with tags or without: laid out as high as the layout says.
LEMMA LayoutLaid ==
    ASSUME NEW hosts \in Seq(Nat), NEW tagged \in BOOLEAN
    PROVE  /\ Laid(Layout(hosts, tagged), Len(hosts) > HostMax)
           /\ hosts = <<>> => Layout(hosts, tagged).h = 0
<1> DEFINE shown == SubSeq(hosts, 1, Least(Len(hosts), HostMax))
           plan == Shelved(shown)
           lay == [h |-> CeilDiv(Len(shown), HostsPerRow) * RowH,
              cells |-> [k \in DOMAIN shown |-> Box(SlotAt(k).x + 8, SlotAt(k).y - 4, SlotW - 16, RowH - 8)],
              groups |-> {}, moreAt |-> SlotAt(Len(shown) + 1)]
           more == Len(hosts) > HostMax
<1>1. /\ shown \in Seq(Nat) /\ (more => Len(shown) = HostMax) /\ (hosts = <<>> => shown = <<>>)
  <2>1. shown = SubSeq(hosts, 1, Least(Len(hosts), HostMax))
    OBVIOUS
  <2> HIDE DEF shown
  <2> QED BY <2>1, ShownIs
<1>2. Layout(hosts, tagged) = IF tagged /\ hosts # <<>> THEN OnShelves(plan.on, ShelfHs(plan)) ELSE lay
  BY DEF Layout
<1> HIDE DEF shown
<1>3. CASE tagged /\ hosts # <<>>
  <2>1. plan \in Accs
    BY <1>1, ShelvedTakes
  <2>2. Layout(hosts, tagged) = OnShelves(plan.on, ShelfHs(plan))
    BY <1>2, <1>3
  <2> HIDE DEF plan
  <2>3. Laid(OnShelves(plan.on, ShelfHs(plan)), more)
    BY <2>1, ShelvesLaid
  <2> QED BY <1>3, <2>2, <2>3
<1>4. CASE ~(tagged /\ hosts # <<>>)
  <2>1. Layout(hosts, tagged) = lay
    BY <1>2, <1>4
  <2>2. Laid(lay, more) /\ (shown = <<>> => lay.h = 0)
    <3> HIDE DEF more
    <3> QED BY <1>1, RowsLaid
  <2> HIDE DEF lay
  <2> QED BY <1>1, <2>1, <2>2
<1> QED BY <1>3, <1>4

\* The height of a segment has room for its hosts and for "+N weitere".
LEMMA SegmentIs ==
    ASSUME NEW hosts \in Seq(Nat), NEW tagged \in BOOLEAN
    PROVE  /\ SegmentH(hosts, tagged) \in Nat
           /\ 52 + Layout(hosts, tagged).h <= SegmentH(hosts, tagged) + 22
           /\ Len(hosts) > HostMax => 82 + Layout(hosts, tagged).h <= SegmentH(hosts, tagged)
<1> DEFINE lay == Layout(hosts, tagged)
<1>1. lay.h \in Nat /\ (hosts = <<>> => lay.h = 0)
  BY LayoutLaid DEF Laid
<1>2. HostMax \in Nat /\ Len(hosts) \in Nat /\ (hosts = <<>> => Len(hosts) = 0)
  BY HostRows, LenProperties
<1> HIDE DEF lay
<1>3. SegmentH(hosts, tagged) = IF hosts = <<>> THEN 48 ELSE 52 + lay.h + (IF Len(hosts) > HostMax THEN 30 ELSE 0)
  BY DEF SegmentH, lay
<1> DEFINE sh == SegmentH(hosts, tagged)
           k == Len(hosts)
           l == lay.h
<1>4. sh = IF hosts = <<>> THEN 48 ELSE 52 + l + (IF k > HostMax THEN 30 ELSE 0)
  BY <1>3
<1>5. l \in Nat /\ (hosts = <<>> => l = 0) /\ HostMax \in Nat /\ k \in Nat /\ (hosts = <<>> => k = 0)
  BY <1>1, <1>2
<1> HIDE DEF sh, k, l
<1>6. sh \in Nat /\ 52 + l <= sh + 22 /\ (k > HostMax => 82 + l <= sh)
  BY ONLY <1>4, <1>5
<1> QED BY <1>6 DEF sh, k, l, lay

\* A segment: its bar, its hosts, the box for those that are left out.
LEMMA SegmentTidy ==
    ASSUME NEW hosts \in Seq(Nat), NEW tagged \in BOOLEAN, NEW f \in SegmentFrames(hosts, tagged)
    PROVE  Tidy(f)
<1> DEFINE lay == Layout(hosts, tagged)
           more == Len(hosts) > HostMax
           w == HostsPerRow * SlotW
           h == SegmentH(hosts, tagged) + 22
           a == <<Box(0, 10, w, 26)>>
           b == [i \in DOMAIN lay.cells |-> Moved(lay.cells[i], 0, 52)]
           c == IF more THEN <<Box(lay.moreAt.x + 8, 52 + lay.moreAt.y, 2 * SlotW - 8, 30)>> ELSE <<>>
           told == Least(Len(hosts), HostMax) + (IF more THEN Len(hosts) - HostMax ELSE 0)
<1>1. Laid(lay, more)
  BY LayoutLaid
<1>2. f = List(w, h, a \o b \o c, Len(hosts), told) \/ f \in lay.groups
  BY DEF SegmentFrames
<1>3. f \in lay.groups => Tidy(f)
  BY <1>1 DEF Laid
<1>4. /\ h \in Nat /\ 52 + lay.h <= h /\ (more => 104 + lay.h <= h) /\ lay.h \in Nat /\ 48 <= h
      /\ w = HostsPerRow * 120 /\ w \in Nat /\ 240 <= w
  <2>1. SegmentH(hosts, tagged) \in Nat /\ 52 + lay.h <= h /\ (more => 82 + lay.h <= SegmentH(hosts, tagged)) /\ lay.h \in Nat
    BY <1>1, SegmentIs DEF Laid
  <2>2. HostsPerRow \in Nat /\ HostsPerRow > 1
    BY HostRows
  <2>3. w = HostsPerRow * 120 /\ w \in Nat /\ 240 <= w
    BY <2>2 DEF SlotW
  <2> DEFINE l == lay.h
             sh == SegmentH(hosts, tagged)
  <2>4. sh \in Nat /\ 52 + l <= sh + 22 /\ (more => 82 + l <= sh) /\ l \in Nat /\ h = sh + 22
    BY <2>1
  <2> HIDE DEF w, lay, more, l, sh, h
  <2>5. h \in Nat /\ 52 + l <= h /\ (more => 104 + l <= h) /\ l \in Nat /\ 48 <= h
    BY ONLY <2>4
  <2> QED BY <2>3, <2>5 DEF l
<1>5. Len(hosts) = told
  <2>1. Len(hosts) \in Nat /\ HostMax \in Nat
    BY HostRows, LenProperties
  <2> QED BY <2>1, HostsShown
<1>6. b = Shift(lay)
  BY DEF Shift
<1>7. more => lay.moreAt.x = 0 /\ lay.moreAt.y \in lay.h..lay.h + 4
  BY <1>1 DEF Laid
<1> HIDE DEF b, lay, w, h, told, more
<1>8. Clear(b, w, h) /\ Under(b, 48) /\ Over(b, 52 + lay.h)
  BY <1>1, <1>4, <1>6 DEF Laid
<1>9. Clear(a, w, h) /\ Over(a, 48)
  <2>1. IsOne(a, 0, 10, w, 26) /\ Room(0 + w, w) /\ Room(10 + 26, h)
    BY <1>4 DEF IsOne, Room
  <2> HIDE DEF a
  <2>2. Clear(a, w, h) /\ (Over(a, 48) <=> 10 + 26 <= 48)
    BY <2>1, OneBox
  <2> QED BY <2>2
<1>10. Clear(c, w, h) /\ Under(c, 52 + lay.h) /\ Under(c, 48)
  <2>1. CASE ~more
    <3>1. c = <<>>
      BY <2>1
    <3> HIDE DEF c
    <3> QED BY <3>1, ClearFew, OneIs
  <2>2. CASE more
    <3> DEFINE y == 52 + lay.moreAt.y
    <3>1. y \in Nat /\ 52 + lay.h <= y /\ y + 30 <= h /\ 48 <= y
      <4> DEFINE l == lay.h
                 at == lay.moreAt.y
      <4>1. l \in Nat /\ at \in l..l + 4 /\ 104 + l <= h /\ h \in Nat
        BY <1>4, <1>7, <2>2
      <4> HIDE DEF l, at
      <4>2. 52 + at \in Nat /\ 52 + l <= 52 + at /\ (52 + at) + 30 <= h /\ 48 <= 52 + at
        BY ONLY <4>1
      <4> QED BY <4>2 DEF l, at
    <3>2. c = <<Box(8, y, 232, 30)>>
      BY <1>7, <2>2 DEF SlotW
    <3> HIDE DEF c, y
    <3>3. IsOne(c, 8, y, 232, 30)
      BY <3>1, <3>2 DEF IsOne
    <3>4. Room(8 + 232, w) /\ Room(y + 30, h)
      BY <1>4, <3>1 DEF Room
    <3>5. Clear(c, w, h) /\ (\A m : Under(c, m) <=> m <= y)
      BY <3>3, <3>4, OneBox
    <3> QED BY <3>1, <3>5
  <2> QED BY <2>1, <2>2
<1> HIDE DEF a, c
<1>11. Across(a, b)
  <2>1. Parted(a, b, 48)
    BY <1>8, <1>9 DEF Parted, Clear
  <2> QED BY <2>1, Divided
<1>12. Across(a, c) /\ Across(b, c)
  <2>1. 52 + lay.h \in Int
    BY <1>4
  <2>2. Parted(a, c, 48) /\ Parted(b, c, 52 + lay.h)
    BY <1>8, <1>9, <1>10, <2>1 DEF Parted, Clear
  <2> QED BY <2>2, Divided
<1>13. Clear(a \o b, w, h)
  BY <1>8, <1>9, <1>11, ClearJoin
<1>14. Across(a \o b, c)
  <2>1. a \in Seq(Boxes) /\ b \in Seq(Boxes)
    BY <1>8, <1>9 DEF Clear
  <2> QED BY <1>12, <2>1, AcrossJoin
<1>15. Clear(a \o b \o c, w, h)
  BY <1>10, <1>13, <1>14, ClearJoin
<1>16. Tidy(List(w, h, a \o b \o c, Len(hosts), told))
  BY <1>5, <1>15, TidyFrame
<1> QED BY <1>2, <1>3, <1>16

SegFwOf == [vdoms : Nat, router : BOOLEAN]

\* The size of a firewall has room for its VDOMs.
LEMMA FwIs ==
    ASSUME NEW fw \in SegFwOf
    PROVE  /\ FwSize(fw).w \in Nat /\ FwSize(fw).h \in Nat /\ 248 <= FwSize(fw).w /\ 102 <= FwSize(fw).h
           /\ 104 + fw.vdoms * 144 <= FwSize(fw).w
           /\ (fw.vdoms > 0 /\ fw.router) => 122 <= FwSize(fw).h
<1> DEFINE v == fw.vdoms
           r == FwRows(fw)
<1>1. v \in Nat /\ fw.router \in BOOLEAN
  BY DEF SegFwOf
<1>2. r = (IF v > 0 THEN 1 ELSE 0) + (IF fw.router THEN 1 ELSE 0)
  BY DEF FwRows
<1>3. FwSize(fw).w = 104 + Greater(1, v) * 144 /\ FwSize(fw).h = Greater(14 + r * 30 + (r - 1) * 34 + 14, 102)
  BY DEF FwSize
<1>4. r \in {0, 1, 2} /\ (v > 0 /\ fw.router => r = 2)
  BY <1>1, <1>2
<1> HIDE DEF v, r
<1>5. Greater(1, v) \in Nat /\ 1 <= Greater(1, v) /\ v <= Greater(1, v)
  BY <1>1 DEF Greater
<1>6. /\ 104 + Greater(1, v) * 144 \in Nat /\ 248 <= 104 + Greater(1, v) * 144
      /\ 104 + v * 144 <= 104 + Greater(1, v) * 144
  BY <1>1, <1>5
<1>7. LET h == Greater(14 + r * 30 + (r - 1) * 34 + 14, 102) IN h \in Nat /\ 102 <= h /\ (r = 2 => 122 <= h)
  BY <1>4 DEF Greater
<1> QED BY <1>3, <1>4, <1>6, <1>7 DEF v

\* Two sequences of one, joined.
LEMMA Paired == ASSUME NEW p, NEW q PROVE <<p>> \o <<q>> = <<p, q>>
<1> DEFINE s == <<p>>
           t == <<q>>
           c == s \o t
           d == <<p, q>>
<1>1. s \in Seq({p, q}) /\ t \in Seq({p, q}) /\ d \in Seq({p, q}) /\ Len(s) = 1 /\ Len(t) = 1 /\ Len(d) = 2
      /\ s[1] = p /\ t[1] = q /\ d[1] = p /\ d[2] = q
  OBVIOUS
<1> HIDE DEF s, t, d
<1>2. c \in Seq({p, q}) /\ Len(c) = Len(s) + Len(t)
      /\ \A i \in 1..Len(s) + Len(t) : c[i] = IF i <= Len(s) THEN s[i] ELSE t[i - Len(s)]
  BY <1>1, ConcatProperties
<1> HIDE DEF c
<1>3. Len(c) = 2 /\ c[1] = p /\ c[2] = q
  BY <1>1, <1>2
<1>4. \A i \in 1..Len(c) : c[i] = d[i]
  <2>1. \A i \in 1..2 : i = 1 \/ i = 2
    OBVIOUS
  <2> QED BY <1>1, <1>3, <2>1
<1>5. c = d
  BY <1>1, <1>2, <1>3, <1>4, SeqEqual
<1> QED BY <1>5 DEF c, d, s, t

\* A row of VDOMs.
ArePills(s, v, y) == s = [i \in 1..v |-> Box(104 + (i - 1) * 144, y, 130, 30)]
\* The VDOMs of a firewall in a row lie apart.
LEMMA PillsClear ==
    ASSUME NEW v \in Nat, NEW y \in Nat, NEW w \in Nat, NEW h \in Nat, 104 + v * 144 <= w, y + 30 <= h,
           NEW s, ArePills(s, v, y)
    PROVE  Clear(s, w, h) /\ RightOf(s, 104) /\ Under(s, y) /\ Over(s, y + 30) /\ DOMAIN s = 1..v
<1>1. ASSUME NEW i \in 1..v
      PROVE s[i] \in Boxes /\ s[i].x = 104 + (i - 1) * 144 /\ s[i].y = y /\ s[i].w = 130 /\ s[i].h = 30
  <2>1. s[i] = Box(104 + (i - 1) * 144, y, 130, 30) /\ 104 + (i - 1) * 144 \in Int
    BY DEF ArePills
  <2> QED BY <2>1 DEF Box, Boxes
<1>2. s \in [1..v -> Boxes]
  BY <1>1 DEF ArePills
<1>3. OnPaces(v, 144, s, 104, y, y + 30, w, h)
  BY <1>1, <1>2 DEF OnPaces, Stride
<1>4. /\ Clear(s, w, h) /\ DOMAIN s = 1..v
      /\ \A i \in DOMAIN s : 104 <= s[i].x /\ y <= s[i].y /\ s[i].y + s[i].h <= y + 30
  BY <1>3, StepsAlong
<1> QED BY <1>4 DEF RightOf, Under, Over

\* A firewall with its VDOMs and its router, above the segments or below them.
LEMMA FwTidy ==
    ASSUME NEW fw \in SegFwOf, NEW down \in BOOLEAN
    PROVE  Tidy(FwFrame(fw, down))
<1> DEFINE v == fw.vdoms
           w == FwSize(fw).w
           h == FwSize(fw).h
           y == IF down \/ ~fw.router THEN 14 ELSE 78
           ry == IF down /\ fw.vdoms > 0 THEN 78 ELSE 14
           a == <<Box(25, 8, 46, 46)>>
           b == <<Box(4, 56, 96, h - 60)>>
           s == [i \in 1..v |-> Box(104 + (i - 1) * 144, y, 130, 30)]
           c == IF fw.router THEN <<Box(104, ry, 130, 30)>> ELSE <<>>
<1>1. v \in Nat /\ fw.router \in BOOLEAN /\ w \in Nat /\ h \in Nat /\ 248 <= w /\ 102 <= h /\ 104 + v * 144 <= w
      /\ (v > 0 /\ fw.router => 122 <= h)
  BY FwIs DEF SegFwOf
<1>2. y \in Nat /\ ry \in Nat /\ (v > 0 => y + 30 <= h) /\ (fw.router => ry + 30 <= h)
      /\ (v > 0 /\ fw.router => (y + 30 <= 60 /\ 60 <= ry) \/ (ry + 30 <= 60 /\ 60 <= y))
  <2> HIDE DEF w, h
  <2> QED BY <1>1
<1>3. FwFrame(fw, down) = Frame(w, h, (<<Box(25, 8, 46, 46), Box(4, 56, 96, h - 60)>> \o s) \o c)
  BY DEF FwFrame
<1> HIDE DEF v, w, h, y, ry
<1>4. a \o b = <<Box(25, 8, 46, 46), Box(4, 56, 96, h - 60)>>
  BY Paired
<1>5. Clear(a, w, h) /\ Over(a, 56) /\ LeftOf(a, 104)
  <2>1. IsOne(a, 25, 8, 46, 46) /\ Room(25 + 46, w) /\ Room(8 + 46, h)
    BY <1>1 DEF IsOne, Room
  <2> HIDE DEF a
  <2>2. Clear(a, w, h) /\ (Over(a, 56) <=> 8 + 46 <= 56) /\ (LeftOf(a, 104) <=> 25 + 46 <= 104)
    BY <2>1, OneBox
  <2> QED BY <2>2
<1>6. Clear(b, w, h) /\ Under(b, 56) /\ LeftOf(b, 104)
  <2>1. IsOne(b, 4, 56, 96, h - 60) /\ Room(4 + 96, w) /\ Room(56 + (h - 60), h)
    BY <1>1 DEF IsOne, Room
  <2> HIDE DEF b
  <2>2. Clear(b, w, h) /\ (Under(b, 56) <=> 56 <= 56) /\ (LeftOf(b, 104) <=> 4 + 96 <= 104)
    BY <2>1, OneBox
  <2> QED BY <2>2
<1>7. Clear(s, w, h) /\ RightOf(s, 104) /\ (v > 0 => Under(s, y) /\ Over(s, y + 30)) /\ DOMAIN s = 1..v
  <2>1. ArePills(s, v, y)
    BY DEF ArePills
  <2>2. CASE v = 0
    <3>1. s = <<>>
      BY <2>2
    <3>2. DOMAIN s = 1..v
      OBVIOUS
    <3> HIDE DEF s
    <3> QED BY <2>2, <3>1, <3>2, ClearFew, OneIs
  <2>3. CASE v > 0
    <3>1. y + 30 <= h
      BY <1>2, <2>3
    <3> HIDE DEF s
    <3> QED BY <1>1, <1>2, <2>1, <3>1, PillsClear
  <2> QED BY <1>1, <2>2, <2>3
<1>8. Clear(c, w, h) /\ RightOf(c, 104) /\ (fw.router => (Under(c, 60) <=> 60 <= ry) /\ (Over(c, 60) <=> ry + 30 <= 60))
      /\ (~fw.router => c = <<>>)
  <2>1. CASE ~fw.router
    <3>1. c = <<>>
      BY <2>1
    <3> HIDE DEF c
    <3> QED BY <2>1, <3>1, ClearFew, OneIs
  <2>2. CASE fw.router
    <3>1. c = <<Box(104, ry, 130, 30)>>
      BY <2>2
    <3> HIDE DEF c
    <3>2. IsOne(c, 104, ry, 130, 30) /\ Room(104 + 130, w) /\ Room(ry + 30, h)
      BY <1>1, <1>2, <2>2, <3>1 DEF IsOne, Room
    <3>3. Clear(c, w, h) /\ (RightOf(c, 104) <=> 104 <= 104) /\ (Under(c, 60) <=> 60 <= ry) /\ (Over(c, 60) <=> ry + 30 <= 60)
      BY <3>2, OneBox
    <3> QED BY <2>2, <3>3
  <2> QED BY <2>1, <2>2
<1> HIDE DEF a, b, s, c
<1>9. /\ a \in Seq(Boxes) /\ b \in Seq(Boxes) /\ s \in Seq(Boxes) /\ c \in Seq(Boxes)
  BY <1>5, <1>6, <1>7, <1>8 DEF Clear
<1>10. Across(a, b) /\ Across(a, s) /\ Across(b, s) /\ Across(a, c) /\ Across(b, c)
  <2>1. Parted(a, b, 56)
    BY <1>5, <1>6, <1>9 DEF Parted
  <2>2. Parted(a, s, 104) /\ Parted(b, s, 104)
    BY <1>5, <1>6, <1>7, <1>9 DEF Parted
  <2>3. Parted(a, c, 104) /\ Parted(b, c, 104)
    BY <1>5, <1>6, <1>8, <1>9 DEF Parted
  <2> QED BY <2>1, <2>2, <2>3, Divided
<1>11. Across(s, c)
  <2>1. CASE v > 0 /\ fw.router
    <3>1. Under(s, y) /\ Over(s, y + 30)
      BY <1>7, <2>1
    <3>2. CASE y + 30 <= 60 /\ 60 <= ry
      <4>1. Over(s, 60)
        BY <1>2, <1>9, <3>1, <3>2, OverMore
      <4>2. Parted(s, c, 60)
        BY <1>8, <1>9, <2>1, <3>2, <4>1 DEF Parted
      <4> QED BY <4>2, Divided
    <3>3. CASE ry + 30 <= 60 /\ 60 <= y
      <4>1. Under(s, 60)
        BY <1>2, <1>9, <3>1, <3>3, UnderLess
      <4>2. Parted(s, c, 60)
        BY <1>8, <1>9, <2>1, <3>3, <4>1 DEF Parted
      <4> QED BY <4>2, Divided
    <3> QED BY <1>2, <2>1, <3>2, <3>3
  <2>2. CASE ~fw.router
    <3>1. DOMAIN c = {}
      BY <1>8, <2>2
    <3> QED BY <3>1 DEF Across
  <2>3. CASE ~(v > 0)
    <3>1. DOMAIN s = {}
      BY <1>1, <1>7, <2>3
    <3> QED BY <3>1 DEF Across
  <2> QED BY <2>1, <2>2, <2>3
<1>12. Clear(a \o b, w, h)
  BY <1>5, <1>6, <1>10, ClearJoin
<1>13. Clear((a \o b) \o s, w, h)
  <2>1. Across(a \o b, s)
    BY <1>9, <1>10, AcrossJoin
  <2> QED BY <1>7, <1>12, <2>1, ClearJoin
<1>14. Across((a \o b) \o s, c)
  <2>1. Across(a \o b, c) /\ a \o b \in Seq(Boxes)
    BY <1>9, <1>10, <1>12, AcrossJoin DEF Clear
  <2> QED BY <1>9, <1>11, <2>1, AcrossJoin
<1>15. Clear(((a \o b) \o s) \o c, w, h)
  BY <1>8, <1>13, <1>14, ClearJoin
<1> QED BY <1>3, <1>4, <1>15, TidyFrame

SegSiteOf == [segments : Seq(Seq(Nat)), firewalls : Seq(SegFwOf)]

\* The parts of a site of the segment page are numbers, each firewall at most as high as the row.
LEMMA SegSiteIs ==
    ASSUME NEW s \in SegSiteOf, NEW tagged \in BOOLEAN
    PROVE  /\ SegHs(s, tagged) \in Seq(Nat) /\ FwWs(s) \in Seq(Nat)
           /\ Len(SegHs(s, tagged)) = Len(s.segments) /\ Len(FwWs(s)) = Len(s.firewalls)
           /\ Len(s.segments) \in Nat /\ Len(s.firewalls) \in Nat
           /\ DOMAIN s.segments = 1..Len(s.segments) /\ DOMAIN s.firewalls = 1..Len(s.firewalls)
           /\ FwsH(s) \in Nat
           /\ \A i \in 1..Len(s.firewalls) :
                /\ s.firewalls[i] \in SegFwOf /\ FwWs(s)[i] = FwSize(s.firewalls[i]).w
                /\ FwSize(s.firewalls[i]).h \in Nat /\ FwSize(s.firewalls[i]).h <= FwsH(s)
           /\ Extent(SegHs(s, tagged), 22) \in Nat /\ Extent(FwWs(s), 14) \in Nat
           /\ Lane(s) \in Nat /\ Turn(s) \in Nat
<1> DEFINE m == Len(s.segments)
           n == Len(s.firewalls)
           hs == SegHs(s, tagged)
           ws == FwWs(s)
           fhs == [i \in DOMAIN s.firewalls |-> FwSize(s.firewalls[i]).h]
<1>1. s.segments \in Seq(Seq(Nat)) /\ s.firewalls \in Seq(SegFwOf)
  BY DEF SegSiteOf
<1>2. /\ m \in Nat /\ n \in Nat /\ DOMAIN s.segments = 1..m /\ DOMAIN s.firewalls = 1..n
      /\ (\A i \in 1..m : s.segments[i] \in Seq(Nat)) /\ \A i \in 1..n : s.firewalls[i] \in SegFwOf
  BY <1>1, LenProperties
<1>3. hs = [i \in 1..m |-> SegmentH(s.segments[i], tagged)] /\ ws = [i \in 1..n |-> FwSize(s.firewalls[i]).w]
      /\ fhs = [i \in 1..n |-> FwSize(s.firewalls[i]).h]
  BY <1>2 DEF SegHs, FwWs
<1>4. FwsH(s) = Largest(fhs, 0)
  BY DEF FwsH
<1>5. Lane(s) \in Nat /\ Turn(s) \in Nat
  BY <1>2 DEF Lane, Turn
<1> HIDE DEF m, n, hs, ws, fhs
<1>6. hs \in [1..m -> Nat]
  <2>1. \A i \in 1..m : SegmentH(s.segments[i], tagged) \in Nat
    BY <1>2, SegmentIs
  <2> QED BY <1>3, <2>1
<1>7. \A i \in 1..n : FwSize(s.firewalls[i]).w \in Nat /\ FwSize(s.firewalls[i]).h \in Nat
  BY <1>2, FwIs
<1>8. ws \in [1..n -> Nat] /\ fhs \in [1..n -> Int]
  BY <1>3, <1>7
<1>9. hs \in Seq(Nat) /\ Len(hs) = m /\ ws \in Seq(Nat) /\ Len(ws) = n /\ fhs \in Seq(Int)
  BY <1>2, <1>6, <1>8, FunctionIsSeq
<1>10. FwsH(s) \in Int /\ 0 <= FwsH(s) /\ \A i \in 1..n : fhs[i] <= FwsH(s)
  <2>1. DOMAIN fhs = 1..n /\ 0 \in Int
    BY <1>8
  <2> QED BY <1>4, <1>9, <2>1, LargestIs
<1>11. Extent(hs, 22) \in Nat /\ Extent(ws, 14) \in Nat
  <2>1. 22 \in Nat /\ 14 \in Nat
    OBVIOUS
  <2> QED BY <1>9, <2>1, ExtentIs
<1>12. \A i \in 1..n : ws[i] = FwSize(s.firewalls[i]).w /\ FwSize(s.firewalls[i]).h <= FwsH(s)
  BY <1>3, <1>10
<1> QED BY <1>2, <1>5, <1>7, <1>9, <1>10, <1>11, <1>12 DEF m, n, hs, ws

\* The size of a site has room for its segments, the lane beside them and its firewalls.
LEMMA SegSiteSized ==
    ASSUME NEW s \in SegSiteOf, NEW tagged \in BOOLEAN
    PROVE  LET size == SegSiteSize(s, tagged)
           IN  /\ size \in Sizes
               /\ Lane(s) + HostsPerRow * 120 <= size.w /\ Lane(s) + Extent(FwWs(s), 14) <= size.w
               /\ 52 + Extent(SegHs(s, tagged), 22) + Turn(s) + FwsH(s) <= size.h
<1> DEFINE l == Lane(s)
           e == Extent(FwWs(s), 14)
           f == Extent(SegHs(s, tagged), 22)
           t == Turn(s)
           g == FwsH(s)
           o == HostsPerRow * 120
<1>1. l \in Nat /\ e \in Nat /\ f \in Nat /\ t \in Nat /\ g \in Nat
  BY SegSiteIs
<1>2. o \in Nat
  BY HostRows
<1>3. SegSiteSize(s, tagged) = [w |-> l + Greater(o, e) + 20, h |-> 52 + f + t + g + 20]
  BY DEF SegSiteSize, SlotW
<1> HIDE DEF l, e, f, t, g, o
<1>4. Greater(o, e) \in Nat /\ o <= Greater(o, e) /\ e <= Greater(o, e)
  BY <1>1, <1>2 DEF Greater
<1> DEFINE w == l + Greater(o, e) + 20
           h == 52 + f + t + g + 20
<1>5. w \in Nat /\ h \in Nat /\ l + o <= w /\ l + e <= w /\ 52 + f + t + g <= h
  BY <1>1, <1>2, <1>4
<1>6. SegSiteSize(s, tagged) = [w |-> w, h |-> h]
  BY <1>3
<1> HIDE DEF w, h
<1> QED BY <1>5, <1>6 DEF Sizes, l, e, f, t, g, o

\* A site of the segment page (_Site, _draw_site).
LEMMA SegSiteTidy ==
    ASSUME NEW s \in SegSiteOf, NEW tagged \in BOOLEAN, NEW down \in BOOLEAN
    PROVE  Tidy(SegSiteFrame(s, SegSiteSize(s, tagged), SegHs(s, tagged), down))
<1> DEFINE hs == SegHs(s, tagged)
           ws == FwWs(s)
           m == Len(s.segments)
           n == Len(s.firewalls)
           w == SegSiteSize(s, tagged).w
           h == SegSiteSize(s, tagged).h
           l == Lane(s)
           t == Turn(s)
           g == FwsH(s)
           f == Extent(hs, 22)
           o == HostsPerRow * 120
           fwY  == IF down THEN 52 + f + t ELSE 52
           segY == IF down THEN 52 ELSE 52 + g + t
           high(i) == FwSize(s.firewalls[i]).h
           off(i) == IF down THEN 0 ELSE g - high(i)
           a == [i \in 1..n |-> Box(l + From(ws, 14, i), fwY + off(i), ws[i], high(i))]
           b == [i \in 1..m |-> Box(l, segY + From(hs, 22, i), o, hs[i])]
           line == IF down THEN 52 + f ELSE 52 + g
<1>1. /\ hs \in Seq(Nat) /\ ws \in Seq(Nat) /\ Len(hs) = m /\ Len(ws) = n /\ m \in Nat /\ n \in Nat
      /\ DOMAIN s.segments = 1..m /\ DOMAIN s.firewalls = 1..n
      /\ \A i \in 1..n : high(i) \in Nat /\ high(i) <= g
      /\ g \in Nat /\ l \in Nat /\ t \in Nat /\ f \in Nat /\ Extent(ws, 14) \in Nat
  BY SegSiteIs
<1>2. w \in Nat /\ h \in Nat /\ l + o <= w /\ l + Extent(ws, 14) <= w /\ 52 + f + t + g <= h
  BY SegSiteSized DEF Sizes
<1>3. SegSiteFrame(s, SegSiteSize(s, tagged), SegHs(s, tagged), down) = Frame(w, h, a \o b)
  <2>1. DOMAIN s.segments = 1..m /\ DOMAIN s.firewalls = 1..n
    BY <1>1
  <2> QED BY <2>1 DEF SegSiteFrame, SlotW
<1>4. o \in Nat
  BY HostRows
<1> HIDE DEF hs, ws, m, n, w, h, l, t, g, f, o, high
<1>5. fwY \in Nat /\ segY \in Nat /\ line \in Nat /\ fwY + g <= h /\ segY + f <= h
      /\ IF down THEN line <= fwY /\ segY + f = line ELSE fwY + g = line /\ line <= segY
  BY <1>1, <1>2
<1>6. ASSUME NEW i \in 1..n PROVE off(i) \in Nat /\ off(i) + high(i) <= g
  <2>1. high(i) \in Nat /\ high(i) <= g /\ g \in Nat
    BY <1>1
  <2> QED BY <2>1
<1> HIDE DEF fwY, segY, line, off
<1>7. ASSUME NEW i \in 1..n
      PROVE  /\ a[i] \in Boxes /\ a[i].x = l + From(ws, 14, i) /\ a[i].y = fwY + off(i) /\ a[i].w = ws[i] /\ a[i].h = high(i)
             /\ From(ws, 14, i) \in Nat /\ ws[i] \in Nat
  <2>1. i \in 1..n + 1 /\ 14 \in Nat
    BY <1>1
  <2>2. From(ws, 14, i) \in Nat /\ ws[i] \in Nat
    <3>1. ws \in Seq(Nat) /\ Len(ws) = n
      BY <1>1
    <3>2. i \in 1..Len(ws) + 1 /\ i \in 1..Len(ws)
      BY <2>1, <3>1
    <3>3. From(ws, 14, i) \in Nat
      BY <2>1, <3>1, <3>2, FromIs
    <3> QED BY <3>1, <3>2, <3>3, LenProperties
  <2>3. l + From(ws, 14, i) \in Int /\ fwY + off(i) \in Int /\ ws[i] \in Int /\ high(i) \in Int
    <3>1. high(i) \in Nat
      BY <1>1
    <3>2. l \in Nat /\ fwY \in Nat /\ off(i) \in Nat
      BY <1>1, <1>5, <1>6
    <3> QED BY <2>2, <3>1, <3>2
  <2>4. a[i] = Box(l + From(ws, 14, i), fwY + off(i), ws[i], high(i))
    OBVIOUS
  <2> HIDE DEF a
  <2> QED BY <2>2, <2>3, <2>4 DEF Box, Boxes
<1>8. a \in [1..n -> Boxes]
  BY <1>7
<1> HIDE DEF a
<1>9. ASSUME NEW i \in 1..n
      PROVE  /\ l + From(ws, 14, i) <= a[i].x /\ a[i].x + a[i].w <= l + From(ws, 14, i) + ws[i]
             /\ fwY <= a[i].y /\ a[i].y + a[i].h <= fwY + g
  <2> DEFINE at == From(ws, 14, i)
             hh == high(i)
             up == off(i)
  <2>1. /\ at \in Nat /\ ws[i] \in Nat /\ hh \in Nat /\ up \in Nat /\ up + hh <= g
        /\ l \in Nat /\ fwY \in Nat /\ g \in Nat
        /\ a[i].x = l + at /\ a[i].y = fwY + up /\ a[i].w = ws[i] /\ a[i].h = hh
    BY <1>1, <1>5, <1>6, <1>7
  <2> HIDE DEF at, hh, up
  <2>2. /\ l + at <= l + at /\ l + at + ws[i] <= l + at + ws[i] /\ fwY <= fwY + up /\ (fwY + up) + hh <= fwY + g
    BY ONLY <2>1
  <2>3. /\ l + at <= a[i].x /\ a[i].x + a[i].w <= l + at + ws[i] /\ fwY <= a[i].y /\ a[i].y + a[i].h <= fwY + g
    BY ONLY <2>1, <2>2
  <2> QED BY <2>3 DEF at
<1>10. InRowOf(ws, 14, a, l, fwY, fwY + g, w, h)
  <2>1. fwY + g \in Int /\ 14 \in Nat /\ w \in Int /\ h \in Int /\ fwY + g <= h
    BY <1>1, <1>2, <1>5
  <2> QED BY <1>1, <1>2, <1>5, <1>8, <1>9, <2>1 DEF InRowOf
<1>11. /\ Clear(a, w, h) /\ DOMAIN a = 1..n
       /\ \A i \in DOMAIN a : fwY <= a[i].y /\ a[i].y + a[i].h <= fwY + g
  BY <1>1, <1>10, RowLies
<1>12. Under(a, fwY) /\ Over(a, fwY + g)
  BY <1>11 DEF Under, Over
<1>13. IsColumn(b, hs, 22, l, segY, o)
  BY <1>1, <1>4, <1>5 DEF IsColumn
<1> HIDE DEF b
<1>14. Clear(b, w, h) /\ Under(b, segY) /\ Over(b, segY + f)
  <2>1. w \in Int /\ h \in Int /\ l + o <= w /\ segY + Extent(hs, 22) <= h
    BY <1>2, <1>5 DEF f
  <2> QED BY <1>13, <2>1, ColumnIs DEF f
<1>15. a \in Seq(Boxes) /\ b \in Seq(Boxes)
  BY <1>11, <1>14 DEF Clear
<1>16. Across(a, b)
  <2>1. CASE down
    <3>1. Under(a, line)
      BY <1>5, <1>12, <1>15, <2>1, UnderLess
    <3>2. Over(b, line)
      BY <1>5, <1>14, <2>1
    <3>3. Parted(a, b, line)
      BY <1>5, <1>15, <3>1, <3>2 DEF Parted
    <3> QED BY <3>3, Divided
  <2>2. CASE ~down
    <3>1. Over(a, line)
      BY <1>5, <1>12, <2>2
    <3>2. Under(b, line)
      BY <1>5, <1>14, <1>15, <2>2, UnderLess
    <3>3. Parted(a, b, line)
      BY <1>5, <1>15, <3>1, <3>2 DEF Parted
    <3> QED BY <3>3, Divided
  <2> QED BY <2>1, <2>2
<1>17. Tidy(Frame(w, h, a \o b))
  BY <1>11, <1>14, <1>16, ClearJoin, TidyFrame
<1> QED BY <1>3, <1>17

\* A row of sites in the middle of a width.
HalfOf(d) == d \div 2
\* Half of a number is a number, and not more.
LEMMA HalfIs ==
    ASSUME NEW d \in Nat
    PROVE  HalfOf(d) \in Nat /\ HalfOf(d) <= d
<1>1. 2 \in Nat \ {0}
  OBVIOUS
<1>2. d \div 2 \in Nat /\ (d \div 2) * 2 <= d
  BY <1>1, RowOf
<1> QED BY <1>2 DEF HalfOf

WidthsOf(r) == [i \in DOMAIN r |-> r[i].w]
SitesIn(s, r, width, ys, from, to) ==
    /\ r \in Seq(Sizes) /\ width \in Nat /\ RowW(r) <= width /\ from \in Nat /\ to \in Nat
    /\ \A i \in 1..Len(r) : ys[i] \in Nat /\ from <= ys[i] /\ ys[i] + r[i].h <= to
    /\ s = [i \in 1..Len(r) |-> Box(40 + HalfOf(width - RowW(r)) + From(WidthsOf(r), 70, i), ys[i], r[i].w, r[i].h)]

\* The widths of the sites of a row, and the width of the row.
LEMMA WidthsAre ==
    ASSUME NEW r \in Seq(Sizes)
    PROVE  /\ WidthsOf(r) \in Seq(Nat) /\ Len(WidthsOf(r)) = Len(r) /\ Len(r) \in Nat /\ DOMAIN r = 1..Len(r)
           /\ RowW(r) = Extent(WidthsOf(r), 70) /\ RowW(r) \in Nat
           /\ \A i \in 1..Len(r) : /\ r[i].w \in Nat /\ r[i].h \in Nat /\ WidthsOf(r)[i] = r[i].w
                                   /\ From(WidthsOf(r), 70, i) \in Nat
<1> DEFINE n == Len(r)
           ws == WidthsOf(r)
<1>1. n \in Nat /\ DOMAIN r = 1..n /\ \A i \in 1..n : r[i] \in Sizes
  BY LenProperties
<1>2. ws = [i \in 1..n |-> r[i].w]
  BY <1>1 DEF WidthsOf
<1> HIDE DEF n, ws
<1>3. \A i \in 1..n : r[i].w \in Nat /\ r[i].h \in Nat
  BY <1>1 DEF Sizes
<1>4. ws \in [1..n -> Nat]
  BY <1>2, <1>3
<1>5. ws \in Seq(Nat) /\ Len(ws) = n
  BY <1>1, <1>4, FunctionIsSeq
<1>6. RowW(r) = Extent(ws, 70)
  BY DEF RowW, ws, WidthsOf
<1>7. 70 \in Nat
  OBVIOUS
<1>8. Extent(ws, 70) \in Nat
  BY <1>5, <1>7, ExtentIs
<1>9. \A i \in 1..n : From(ws, 70, i) \in Nat
  <2>1. \A i \in 1..n : i \in 1..n + 1
    BY <1>1
  <2> QED BY <1>5, <1>7, <2>1, FromIs
<1>10. \A i \in 1..n : ws[i] = r[i].w
  BY <1>2
<1> QED BY <1>1, <1>3, <1>5, <1>6, <1>8, <1>9, <1>10 DEF n, ws

\* Sites in a row lie apart, within the width of the page.
LEMMA SitesClear ==
    ASSUME NEW s, NEW r, NEW width, NEW ys, NEW from, NEW to, SitesIn(s, r, width, ys, from, to)
    PROVE  Clear(s, Endless, Endless) /\ Under(s, from) /\ Over(s, to) /\ LeftOf(s, 40 + width)
<1> DEFINE n == Len(r)
           ws == WidthsOf(r)
           x == 40 + HalfOf(width - RowW(r))
           at(i) == From(ws, 70, i)
<1>0. r \in Seq(Sizes) /\ width \in Nat /\ RowW(r) <= width /\ from \in Nat /\ to \in Nat
  BY DEF SitesIn
<1>1. /\ ws \in Seq(Nat) /\ Len(ws) = n /\ n \in Nat /\ RowW(r) = Extent(ws, 70) /\ RowW(r) \in Nat
      /\ \A i \in 1..n : r[i].w \in Nat /\ r[i].h \in Nat /\ ws[i] = r[i].w /\ at(i) \in Nat
  BY <1>0, WidthsAre
<1>2. x \in Nat /\ x + RowW(r) <= 40 + width
  <2>1. width - RowW(r) \in Nat
    BY <1>0, <1>1
  <2>2. HalfOf(width - RowW(r)) \in Nat /\ HalfOf(width - RowW(r)) <= width - RowW(r)
    BY <2>1, HalfIs
  <2> DEFINE d == HalfOf(width - RowW(r))
             v == RowW(r)
  <2>3. x = 40 + d
    OBVIOUS
  <2>4. d \in Nat /\ d <= width - v /\ v \in Nat /\ width \in Nat
    BY <1>0, <1>1, <2>2
  <2> HIDE DEF d, v, x
  <2>5. x \in Nat /\ x + v <= 40 + width
    BY ONLY <2>3, <2>4
  <2> QED BY <2>5 DEF v
<1>3. /\ s = [i \in 1..n |-> Box(x + at(i), ys[i], r[i].w, r[i].h)]
      /\ \A i \in 1..n : ys[i] \in Nat /\ from <= ys[i] /\ ys[i] + r[i].h <= to
  BY DEF SitesIn
<1> HIDE DEF n, ws, x, at
<1>4. ASSUME NEW i \in 1..n
      PROVE  s[i] \in Boxes /\ s[i].x = x + at(i) /\ s[i].y = ys[i] /\ s[i].w = r[i].w /\ s[i].h = r[i].h
  <2>1. s[i] = Box(x + at(i), ys[i], r[i].w, r[i].h)
    BY <1>3
  <2>2. x + at(i) \in Int /\ ys[i] \in Int /\ r[i].w \in Int /\ r[i].h \in Int
    <3>1. x \in Nat /\ at(i) \in Nat /\ ys[i] \in Nat /\ r[i].w \in Nat /\ r[i].h \in Nat
      BY <1>1, <1>2, <1>3
    <3> QED BY ONLY <3>1
  <2> QED BY <2>1, <2>2 DEF Box, Boxes
<1>5. s \in [1..n -> Boxes]
  BY <1>3, <1>4
<1>6. ASSUME NEW i \in 1..n
      PROVE  /\ x + at(i) <= s[i].x /\ s[i].x + s[i].w <= x + at(i) + ws[i]
             /\ from <= s[i].y /\ s[i].y + s[i].h <= to
  <2> DEFINE o == x + at(i)
             v == r[i].w
  <2>1. s[i].x = o /\ s[i].w = v /\ ws[i] = v /\ x + at(i) = o
    BY <1>1, <1>4
  <2>2. o \in Nat /\ v \in Nat
    <3>1. x \in Nat /\ at(i) \in Nat /\ r[i].w \in Nat
      BY <1>1, <1>2
    <3> QED BY ONLY <3>1
  <2> HIDE DEF o, v
  <2>3. o <= s[i].x /\ s[i].x + s[i].w <= o + ws[i]
    BY ONLY <2>1, <2>2
  <2>4. from <= s[i].y /\ s[i].y + s[i].h <= to
    BY <1>3, <1>4
  <2> QED BY <2>1, <2>3, <2>4
<1>7. InRowOf(ws, 70, s, x, from, to, Endless, Endless)
  <2>1. 70 \in Nat /\ {to, Endless, Endless} \subseteq Int
    BY <1>0 DEF Endless
  <2> QED BY <1>0, <1>1, <1>2, <1>5, <1>6, <2>1 DEF InRowOf, at
<1>8. /\ Clear(s, Endless, Endless) /\ DOMAIN s = 1..n
      /\ \A i \in DOMAIN s : /\ s[i].x + s[i].w <= x + Extent(ws, 70)
                             /\ from <= s[i].y /\ s[i].y + s[i].h <= to
  BY <1>1, <1>7, RowLies
<1>9. LeftOf(s, x + RowW(r)) /\ Under(s, from) /\ Over(s, to)
  BY <1>1, <1>8 DEF LeftOf, Under, Over
<1>10. LeftOf(s, 40 + width)
  <2>1. s \in Seq(Boxes) /\ x + RowW(r) \in Int /\ 40 + width \in Int
    BY <1>0, <1>1, <1>2, <1>8 DEF Clear
  <2> QED BY <1>2, <1>9, <2>1, OverMore
<1> QED BY <1>8, <1>9, <1>10

\* The page: sites above and below the cloud, legend and title block beside them.
LEMMA SitesTidy ==
    ASSUME NEW top \in Seq(Sizes), NEW bottom \in Seq(Sizes), NEW width \in Nat,
           RowW(top) <= width, RowW(bottom) <= width, 280 <= width
    PROVE  Tidy(SitesPage(top, bottom, width))
<1> DEFINE hs(r) == [i \in DOMAIN r |-> r[i].h]
           topH == Largest(hs(top), 0)
           botH == Largest(hs(bottom), 0)
           cloudY == 40 + topH + 90
           lx == 40 + width + 140
           x(r, i) == 40 + (width - RowW(r)) \div 2 + From([k \in DOMAIN r |-> r[k].w], 70, i)
           ty == [i \in 1..Len(top) |-> 40 + topH - top[i].h]
           by == [i \in 1..Len(bottom) |-> cloudY + 210]
           a == [i \in DOMAIN top |-> Box(x(top, i), 40 + topH - top[i].h, top[i].w, top[i].h)]
           c == <<Box(40 + (width - 280) \div 2, cloudY, 280, 120)>>
           b == [i \in DOMAIN bottom |-> Box(x(bottom, i), cloudY + 210, bottom[i].w, bottom[i].h)]
           d == <<Box(lx, 40, 340, 112)>>
           e == <<Box(lx, 187, TitleW, TitleH)>>
<1>1. ASSUME NEW r \in Seq(Sizes)
      PROVE  Largest(hs(r), 0) \in Nat /\ \A i \in 1..Len(r) : r[i].h \in Nat /\ r[i].h <= Largest(hs(r), 0)
  <2> DEFINE h == hs(r)
             n == Len(r)
  <2>1. n \in Nat /\ DOMAIN r = 1..n /\ \A i \in 1..n : r[i].h \in Nat
    BY WidthsAre
  <2>2. h = [i \in 1..n |-> r[i].h]
    BY <2>1
  <2>3. h \in [1..n -> Int]
    BY <2>1, <2>2
  <2> HIDE DEF h, n
  <2>4. h \in Seq(Int) /\ DOMAIN h = 1..n
    BY <2>1, <2>3, FunctionIsSeq
  <2>5. Largest(h, 0) \in Int /\ 0 <= Largest(h, 0) /\ \A i \in 1..n : h[i] <= Largest(h, 0)
    <3>1. 0 \in Int
      OBVIOUS
    <3> QED BY <2>4, <3>1, LargestIs
  <2>6. Largest(h, 0) \in Nat /\ \A i \in 1..n : r[i].h \in Nat /\ r[i].h <= Largest(h, 0)
    BY <2>1, <2>2, <2>5
  <2> QED BY <2>6 DEF h, n
<1>2. topH \in Nat /\ botH \in Nat
  BY <1>1
<1>3. /\ \A i \in 1..Len(top) : top[i].h \in Nat /\ top[i].h <= topH
      /\ \A i \in 1..Len(bottom) : bottom[i].h \in Nat /\ bottom[i].h <= botH
  BY <1>1
<1>4. SitesPage(top, bottom, width) = Frame(Endless, Endless, ((a \o c) \o b) \o <<Box(lx, 40, 340, 112), Box(lx, 187, TitleW, TitleH)>>)
  BY DEF SitesPage
<1>5. d \o e = <<Box(lx, 40, 340, 112), Box(lx, 187, TitleW, TitleH)>>
  <2> DEFINE p == Box(lx, 40, 340, 112)
             q == Box(lx, 187, TitleW, TitleH)
  <2> HIDE DEF p, q
  <2>1. <<p>> \o <<q>> = <<p, q>>
    BY Paired
  <2> QED BY <2>1 DEF p, q
<1>6. /\ a = [i \in 1..Len(top) |-> Box(40 + HalfOf(width - RowW(top)) + From(WidthsOf(top), 70, i), ty[i], top[i].w, top[i].h)]
      /\ b = [i \in 1..Len(bottom) |-> Box(40 + HalfOf(width - RowW(bottom)) + From(WidthsOf(bottom), 70, i), by[i], bottom[i].w, bottom[i].h)]
  <2>1. DOMAIN top = 1..Len(top) /\ DOMAIN bottom = 1..Len(bottom)
    BY WidthsAre
  <2> QED BY <2>1 DEF HalfOf, WidthsOf
<1> HIDE DEF topH, botH
<1>7. \A i \in 1..Len(top) : ty[i] \in Nat /\ 0 <= ty[i] /\ ty[i] + top[i].h <= 40 + topH
  <2> SUFFICES ASSUME NEW i \in 1..Len(top)
               PROVE  ty[i] \in Nat /\ 0 <= ty[i] /\ ty[i] + top[i].h <= 40 + topH
    OBVIOUS
  <2> DEFINE t == ty[i]
             h == top[i].h
  <2>1. t = 40 + topH - h
    OBVIOUS
  <2>2. h \in Nat /\ h <= topH /\ topH \in Nat
    BY <1>2, <1>3
  <2> HIDE DEF t, h
  <2>3. t \in Nat /\ 0 <= t /\ t + h <= 40 + topH
    BY ONLY <2>1, <2>2
  <2> QED BY <2>3 DEF t, h
<1>8. \A i \in 1..Len(bottom) : by[i] \in Nat /\ cloudY + 210 <= by[i] /\ by[i] + bottom[i].h <= cloudY + 210 + botH
  <2>1. cloudY + 210 \in Nat
    BY <1>2
  <2> HIDE DEF cloudY
  <2> QED BY <1>2, <1>3, <2>1
<1>9. cloudY \in Nat /\ 40 + topH \in Nat /\ cloudY = 40 + topH + 90 /\ lx \in Nat /\ lx = 40 + width + 140
  BY <1>2
<1> HIDE DEF a, b, ty, by, cloudY, lx, x
<1>10. SitesIn(a, top, width, ty, 0, 40 + topH)
  BY <1>6, <1>7, <1>9 DEF SitesIn
<1>11. SitesIn(b, bottom, width, by, cloudY + 210, cloudY + 210 + botH)
  <2>1. cloudY + 210 \in Nat /\ cloudY + 210 + botH \in Nat
    BY <1>2, <1>9
  <2> QED BY <1>6, <1>8, <2>1 DEF SitesIn
<1>12. Clear(a, Endless, Endless) /\ Over(a, 40 + topH) /\ LeftOf(a, 40 + width)
  BY <1>10, SitesClear
<1>13. Clear(b, Endless, Endless) /\ Under(b, cloudY + 210) /\ LeftOf(b, 40 + width)
  BY <1>11, SitesClear
<1>14. Clear(c, Endless, Endless) /\ Under(c, cloudY) /\ Over(c, cloudY + 120) /\ LeftOf(c, 40 + width)
  <2> DEFINE o == 40 + HalfOf(width - 280)
  <2>1. width - 280 \in Nat
    OBVIOUS
  <2>2. o \in Nat /\ o + 280 <= 40 + width
    <3>1. HalfOf(width - 280) \in Nat /\ HalfOf(width - 280) <= width - 280
      BY <2>1, HalfIs
    <3> QED BY <3>1
  <2>3. c = <<Box(o, cloudY, 280, 120)>>
    BY DEF HalfOf
  <2> HIDE DEF c, o
  <2>4. IsOne(c, o, cloudY, 280, 120) /\ Room(o + 280, Endless) /\ Room(cloudY + 120, Endless)
    BY <1>9, <2>2, <2>3 DEF IsOne, Room
  <2>5. Clear(c, Endless, Endless) /\ (\A m : Under(c, m) <=> m <= cloudY) /\ (\A m : Over(c, m) <=> cloudY + 120 <= m)
        /\ (\A m : LeftOf(c, m) <=> o + 280 <= m)
    BY <2>4, OneBox
  <2>6. cloudY <= cloudY /\ cloudY + 120 <= cloudY + 120
    BY <1>9
  <2> QED BY <2>2, <2>5, <2>6
<1>15. Clear(d, Endless, Endless) /\ Over(d, 160) /\ RightOf(d, lx)
  <2>1. IsOne(d, lx, 40, 340, 112) /\ Room(lx + 340, Endless) /\ Room(40 + 112, Endless)
    BY <1>9 DEF IsOne, Room
  <2> HIDE DEF d
  <2>2. Clear(d, Endless, Endless) /\ (Over(d, 160) <=> 40 + 112 <= 160) /\ (RightOf(d, lx) <=> lx <= lx)
    BY <2>1, OneBox
  <2> QED BY <1>9, <2>2
<1>16. Clear(e, Endless, Endless) /\ Under(e, 160) /\ RightOf(e, lx)
  <2>1. IsOne(e, lx, 187, 1000, 208) /\ Room(lx + 1000, Endless) /\ Room(187 + 208, Endless)
    BY <1>9 DEF IsOne, Room, TitleW, TitleH
  <2> HIDE DEF e
  <2>2. Clear(e, Endless, Endless) /\ (Under(e, 160) <=> 160 <= 187) /\ (RightOf(e, lx) <=> lx <= lx)
    BY <2>1, OneBox
  <2> QED BY <1>9, <2>2
<1> HIDE DEF c, d, e
<1>17. a \in Seq(Boxes) /\ b \in Seq(Boxes) /\ c \in Seq(Boxes) /\ d \in Seq(Boxes) /\ e \in Seq(Boxes)
  BY <1>12, <1>13, <1>14, <1>15, <1>16 DEF Clear
<1>18. /\ 40 + width \in Int /\ lx \in Int /\ 40 + width <= lx /\ cloudY \in Int /\ cloudY + 120 \in Int
       /\ 40 + topH \in Int /\ 40 + topH <= cloudY /\ cloudY + 210 \in Int /\ cloudY + 120 <= cloudY + 210
       /\ cloudY <= cloudY + 210
  BY <1>2, <1>9
<1>19. LeftOf(a, lx) /\ LeftOf(b, lx) /\ LeftOf(c, lx)
  BY <1>12, <1>13, <1>14, <1>17, <1>18, OverMore, SMTT(60)
<1>20. Over(a, cloudY) /\ Under(b, cloudY) /\ Under(b, cloudY + 120)
  BY <1>12, <1>13, <1>17, <1>18, OverMore, UnderLess
<1>21. Across(a, c) /\ Across(a, b) /\ Across(c, b) /\ Across(d, e)
  <2>1. Parted(a, c, cloudY) /\ Parted(a, b, cloudY) /\ Parted(c, b, cloudY + 120) /\ Parted(d, e, 160)
    BY <1>14, <1>15, <1>16, <1>17, <1>18, <1>20 DEF Parted
  <2> QED BY <2>1, Divided
<1>22. Across(a, d) /\ Across(a, e) /\ Across(b, d) /\ Across(b, e) /\ Across(c, d) /\ Across(c, e)
  <2>1. Parted(a, d, lx) /\ Parted(a, e, lx)
    BY <1>15, <1>16, <1>17, <1>18, <1>19 DEF Parted
  <2>2. Parted(b, d, lx) /\ Parted(b, e, lx)
    BY <1>15, <1>16, <1>17, <1>18, <1>19 DEF Parted
  <2>3. Parted(c, d, lx) /\ Parted(c, e, lx)
    BY <1>15, <1>16, <1>17, <1>18, <1>19 DEF Parted
  <2> QED BY <2>1, <2>2, <2>3, Divided
<1>23. Clear(a \o c, Endless, Endless) /\ a \o c \in Seq(Boxes)
  BY <1>12, <1>14, <1>21, ClearJoin DEF Clear
<1>24. Clear((a \o c) \o b, Endless, Endless) /\ (a \o c) \o b \in Seq(Boxes)
  <2>1. Across(a \o c, b)
    BY <1>17, <1>21, AcrossJoin
  <2> QED BY <1>13, <1>23, <2>1, ClearJoin DEF Clear
<1>25. Across((a \o c) \o b, d) /\ Across((a \o c) \o b, e)
  <2>1. Across(a \o c, d) /\ Across(a \o c, e)
    BY <1>17, <1>22, AcrossJoin
  <2> QED BY <1>17, <1>22, <1>23, <2>1, AcrossJoin
<1>26. Clear(((a \o c) \o b) \o d, Endless, Endless) /\ ((a \o c) \o b) \o d \in Seq(Boxes)
  BY <1>15, <1>24, <1>25, ClearJoin DEF Clear
<1>27. Clear((((a \o c) \o b) \o d) \o e, Endless, Endless)
  <2>1. Across(((a \o c) \o b) \o d, e)
    BY <1>17, <1>21, <1>24, <1>25, AcrossJoin
  <2> QED BY <1>16, <1>26, <2>1, ClearJoin
<1>28. (((a \o c) \o b) \o d) \o e = ((a \o c) \o b) \o (d \o e)
  <2> DEFINE t == (a \o c) \o b
  <2>1. t \in Seq(Boxes) /\ d \in Seq(Boxes) /\ e \in Seq(Boxes)
    BY <1>17, <1>24
  <2> HIDE DEF t
  <2>2. (t \o d) \o e = t \o (d \o e)
    BY ONLY <2>1, ConcatAssociative, SMTT(30)
  <2> QED BY <2>2 DEF t
<1> QED BY <1>4, <1>5, <1>27, <1>28, TidyFrame

\* A question about the segments of a service.
Segmented(q) == q.sites \in Seq(SegSiteOf) /\ q.tagged \in BOOLEAN

\* The sites above and below the cloud are some of the sites.
LEMMA SomeOf ==
    ASSUME NEW sizes \in Seq(Sizes), NEW m \in Nat, NEW n \in Nat, 1 <= m, n <= Len(sizes)
    PROVE  SubSeq(sizes, m, n) \in Seq(Sizes)
<1>1. \A i \in m..n : i \in 1..Len(sizes)
  <2>1. Len(sizes) \in Nat
    BY LenProperties
  <2> QED BY <2>1
<1>2. \A i \in m..n : sizes[i] \in Sizes
  BY <1>1, LenProperties
<1>3. m \in Int /\ n \in Int
  OBVIOUS
<1>4. SubSeq(sizes, m, n) \in Seq(Sizes)
      /\ Len(SubSeq(sizes, m, n)) = IF m <= n THEN n - m + 1 ELSE 0
  BY ONLY <1>2, <1>3, SubSeqProperties, SMTT(30)
<1> QED BY <1>4

\* The page, as wide as the wider row and the cloud.
LEMMA SegmentsPageTidy ==
    ASSUME NEW sizes \in Seq(Sizes), NEW half \in Nat, half <= Len(sizes)
    PROVE  LET top == SubSeq(sizes, 1, half)
               bottom == SubSeq(sizes, half + 1, Len(sizes))
           IN  Tidy(SitesPage(top, bottom, Greater(Greater(RowW(top), RowW(bottom)), 280)))
<1> DEFINE top == SubSeq(sizes, 1, half)
           bottom == SubSeq(sizes, half + 1, Len(sizes))
           width == Greater(Greater(RowW(top), RowW(bottom)), 280)
<1>1. Len(sizes) \in Nat /\ 1 \in Nat /\ half + 1 \in Nat /\ 1 <= 1 /\ 1 <= half + 1 /\ Len(sizes) <= Len(sizes)
  BY LenProperties
<1>2. top \in Seq(Sizes)
  BY <1>1, SomeOf
<1>3. bottom \in Seq(Sizes)
  BY <1>1, SomeOf
<1>4. RowW(top) \in Nat /\ RowW(bottom) \in Nat
  BY <1>2, <1>3, WidthsAre
<1> HIDE DEF top, bottom
<1>5. width \in Nat /\ RowW(top) <= width /\ RowW(bottom) <= width /\ 280 <= width
  BY <1>4 DEF Greater
<1> HIDE DEF width
<1>6. Tidy(SitesPage(top, bottom, width))
  BY <1>2, <1>3, <1>5, SitesTidy
<1> QED BY <1>6 DEF top, bottom, width

\* Everything drawn of the segments of a service.
LEMMA SegmentsTidy ==
    ASSUME NEW q, Segmented(q), NEW f \in SegmentPages(q)
    PROVE  Tidy(f)
<1> DEFINE n == Len(q.sites)
           half == Half(q)
           sizes == [i \in DOMAIN q.sites |-> SegSiteSize(q.sites[i], q.tagged)]
           top == SubSeq(sizes, 1, half)
           bottom == SubSeq(sizes, half + 1, Len(sizes))
           page == SitesPage(top, bottom, Greater(Greater(RowW(top), RowW(bottom)), 280))
           segs == UNION {Elements(s.segments) : s \in Elements(q.sites)}
<1>1. q.sites \in Seq(SegSiteOf) /\ q.tagged \in BOOLEAN
  BY DEF Segmented
<1>2. n \in Nat /\ DOMAIN q.sites = 1..n /\ \A i \in 1..n : q.sites[i] \in SegSiteOf
  BY <1>1, LenProperties
<1>3. half \in Nat /\ half <= n
  <2>1. CASE n > 1
    <3> DEFINE d == (n + 2 - 1) \div 2
    <3>1. n + 1 \in Nat /\ 2 \in Nat \ {0}
      BY <1>2
    <3>2. d \in Nat /\ d * 2 <= n + 1
      <4> DEFINE k == n + 1
      <4>0. n + 2 - 1 = k
        BY <1>2
      <4> HIDE DEF k
      <4>1. k \in Nat
        BY <3>1 DEF k
      <4>2. k \div 2 \in Nat /\ (k \div 2) * 2 <= k
        BY <3>1, <4>1, RowOf
      <4> QED BY <4>0, <4>2 DEF k
    <3>3. half = d
      BY <2>1 DEF CeilDiv, Half
    <3> HIDE DEF d, half
    <3> QED BY <1>2, <2>1, <3>2, <3>3
  <2>2. CASE ~(n > 1)
    BY <1>2, <2>2 DEF Half
  <2> QED BY <2>1, <2>2
<1>4. \A i \in 1..n : SegSiteSize(q.sites[i], q.tagged) \in Sizes
  BY <1>1, <1>2, SegSiteSized
<1>5. sizes \in Seq(Sizes) /\ Len(sizes) = n
  <2>1. sizes \in [1..n -> Sizes]
    BY <1>2, <1>4
  <2> HIDE DEF sizes
  <2> QED BY <1>2, <2>1, FunctionIsSeq
<1>6. \A s \in Elements(q.sites) : s \in SegSiteOf
  BY <1>1, ElementsFinite
<1>7. ASSUME NEW hosts \in segs PROVE hosts \in Seq(Nat)
  <2>1. PICK s \in Elements(q.sites) : hosts \in Elements(s.segments)
    OBVIOUS
  <2>2. s.segments \in Seq(Seq(Nat))
    BY <1>6 DEF SegSiteOf
  <2> QED BY <2>1, <2>2, ElementsFinite
<1>8. \/ f = SegmentsPage(q)
      \/ \E i \in 1..n : f = SegSiteFrame(q.sites[i], SegSiteSize(q.sites[i], q.tagged), SegHs(q.sites[i], q.tagged), i <= half)
      \/ \E i \in 1..n : \E fw \in Elements(q.sites[i].firewalls) : f = FwFrame(fw, i <= half)
      \/ \E hosts \in segs : f \in SegmentFrames(hosts, q.tagged)
  BY <1>2 DEF SegmentPages
<1> HIDE DEF half, segs
<1>9. CASE f = SegmentsPage(q)
  <2> HIDE DEF sizes
  <2>1. Tidy(page)
    BY <1>3, <1>5, SegmentsPageTidy
  <2> QED BY <1>9, <2>1 DEF SegmentsPage, sizes, half
<1>10. CASE \E i \in 1..n : f = SegSiteFrame(q.sites[i], SegSiteSize(q.sites[i], q.tagged), SegHs(q.sites[i], q.tagged), i <= half)
  <2>1. \A i \in 1..n : (i <= half) \in BOOLEAN
    OBVIOUS
  <2> QED BY <1>1, <1>2, <1>10, <2>1, SegSiteTidy
<1>11. CASE \E i \in 1..n : \E fw \in Elements(q.sites[i].firewalls) : f = FwFrame(fw, i <= half)
  <2>1. PICK i \in 1..n : \E fw \in Elements(q.sites[i].firewalls) : f = FwFrame(fw, i <= half)
    BY <1>11
  <2>2. PICK fw \in Elements(q.sites[i].firewalls) : f = FwFrame(fw, i <= half)
    BY <2>1
  <2>3. q.sites[i].firewalls \in Seq(SegFwOf)
    BY <1>2 DEF SegSiteOf
  <2>4. fw \in SegFwOf
    BY <2>3, ElementsFinite
  <2>5. (i <= half) \in BOOLEAN
    OBVIOUS
  <2> QED BY <2>2, <2>4, <2>5, FwTidy
<1>12. CASE \E hosts \in segs : f \in SegmentFrames(hosts, q.tagged)
  BY <1>1, <1>7, <1>12, SegmentTidy
<1> QED BY <1>8, <1>9, <1>10, <1>11, <1>12

\* Boxes of one size in a stack, and the room they take.
IsStack(s, k, x, y, step, wide, high) ==
    /\ k \in Nat /\ x \in Nat /\ y \in Nat /\ step \in Nat /\ wide \in Nat /\ high \in Nat /\ high <= step
    /\ s = [i \in 1..k |-> Box(x, y + Stride(i, step), wide, high)]

\* Boxes of one size below one another, each with its place.
LEMMA StackBoxes ==
    ASSUME NEW s, NEW k, NEW x, NEW y, NEW step, NEW wide, NEW high, IsStack(s, k, x, y, step, wide, high)
    PROVE  /\ s \in [1..k -> Boxes] /\ k \in Nat /\ step \in Nat /\ x \in Nat /\ y \in Nat /\ wide \in Nat
           /\ Stride(k + 1, step) \in Nat
           /\ \A i \in 1..k : /\ y + Stride(i, step) <= s[i].y /\ s[i].y + s[i].h <= y + Stride(i, step) + step
                              /\ x <= s[i].x /\ s[i].x + s[i].w <= x + wide
<1>0. k \in Nat /\ x \in Nat /\ y \in Nat /\ step \in Nat /\ wide \in Nat /\ high \in Nat /\ high <= step
  BY DEF IsStack
<1>1. s = [i \in 1..k |-> Box(x, y + Stride(i, step), wide, high)]
  BY DEF IsStack
<1>2. \A i \in 1..k : Stride(i, step) \in Nat
  <2>1. \A i \in 1..k : i \in Int /\ k + 1 \in Int /\ i < k + 1 /\ i > 0
    BY <1>0
  <2> QED BY <1>0, <2>1, StepsRise
<1>3. Stride(k + 1, step) \in Nat
  <2>1. k + 1 \in Int /\ k + 2 \in Int /\ k + 1 < k + 2 /\ k + 1 > 0
    BY <1>0
  <2> QED BY <1>0, <2>1, StepsRise
<1>4. ASSUME NEW i \in 1..k
      PROVE  s[i] \in Boxes /\ s[i].x = x /\ s[i].y = y + Stride(i, step) /\ s[i].w = wide /\ s[i].h = high
  <2>1. s[i] = Box(x, y + Stride(i, step), wide, high)
    BY <1>1
  <2>2. x \in Int /\ y + Stride(i, step) \in Int /\ wide \in Int /\ high \in Int
    BY <1>0, <1>2
  <2> QED BY <2>1, <2>2 DEF Box, Boxes
<1>5. s \in [1..k -> Boxes]
  BY <1>1, <1>4
<1>6. ASSUME NEW i \in 1..k
      PROVE  /\ y + Stride(i, step) <= s[i].y /\ s[i].y + s[i].h <= y + Stride(i, step) + step
             /\ x <= s[i].x /\ s[i].x + s[i].w <= x + wide
  <2> DEFINE d == Stride(i, step)
  <2>1. d \in Nat /\ s[i].x = x /\ s[i].y = y + d /\ s[i].w = wide /\ s[i].h = high
    BY <1>2, <1>4
  <2> HIDE DEF d
  <2>2. /\ y + d <= s[i].y /\ s[i].y + s[i].h <= y + d + step /\ x <= s[i].x /\ s[i].x + s[i].w <= x + wide
    BY ONLY <1>0, <2>1
  <2> QED BY <2>2 DEF d
<1> QED BY <1>0, <1>3, <1>5, <1>6

\* Boxes of one size on equal steps lie apart.
LEMMA StackClear ==
    ASSUME NEW s, NEW k, NEW x, NEW y, NEW step, NEW wide, NEW high, IsStack(s, k, x, y, step, wide, high),
           NEW w \in Int, NEW h \in Int, Room(x + wide, w), Room(y + Stride(k + 1, step), h)
    PROVE  Clear(s, w, h) /\ DOMAIN s = 1..k /\ Under(s, y) /\ Over(s, y + Stride(k + 1, step))
           /\ RightOf(s, x) /\ LeftOf(s, x + wide)
<1>1. /\ s \in [1..k -> Boxes] /\ k \in Nat /\ step \in Nat /\ x \in Nat /\ y \in Nat /\ wide \in Nat
      /\ Stride(k + 1, step) \in Nat
      /\ \A i \in 1..k : /\ y + Stride(i, step) <= s[i].y /\ s[i].y + s[i].h <= y + Stride(i, step) + step
                         /\ x <= s[i].x /\ s[i].x + s[i].w <= x + wide
  BY StackBoxes
<1>2. OnSteps(k, step, s, x, y, x + wide, w, h)
  <2>1. {x + wide, w, h} \subseteq Int
    BY <1>1
  <2> QED BY <1>1, <2>1 DEF OnSteps, Room
<1>3. Clear(s, w, h) /\ DOMAIN s = 1..k
      /\ \A i \in DOMAIN s : /\ y <= s[i].y /\ s[i].y + s[i].h <= y + Stride(k + 1, step)
                             /\ x <= s[i].x /\ s[i].x + s[i].w <= x + wide
  BY <1>2, StepsDown
<1> QED BY <1>3 DEF Under, Over, RightOf, LeftOf

\* Without gaps, what boxes take is the sum of their lengths.
LEMMA TotalIs ==
    ASSUME NEW lens \in Seq(Nat)
    PROVE  Total(lens) \in Nat /\ Extent(lens, 0) = Total(lens)
<1>1. Len(lens) \in Nat /\ 0 \in Nat
  BY LenProperties
<1>2. Len(lens) + 1 \in 1..Len(lens) + 1 /\ 1 \in 1..Len(lens) + 1
  BY <1>1
<1>3. From(lens, 0, Len(lens) + 1) \in Nat /\ From(lens, 0, 1) = 0
  BY <1>1, <1>2, FromIs
<1>4. CASE lens = <<>>
  <2>1. Len(lens) = 0 /\ 0 + 1 = 1
    BY <1>4
  <2>2. Total(lens) = 0
    BY <1>3, <2>1 DEF Total
  <2>3. Extent(lens, 0) = 0
    BY <1>4 DEF Extent
  <2> QED BY <2>2, <2>3
<1>5. CASE lens # <<>>
  <2> DEFINE t == From(lens, 0, Len(lens) + 1)
  <2>1. Extent(lens, 0) = t - 0 /\ Total(lens) = t
    BY <1>5 DEF Extent, Total
  <2>2. t \in Nat
    BY <1>3
  <2> HIDE DEF t
  <2> QED BY ONLY <2>1, <2>2
<1> QED BY <1>4, <1>5

\* A switch of a VLAN, and what is drawn of one.
SwitchOf == [level : Nat, lines : Nat, rows : Nat, groups : Seq(Nat), unknown : BOOLEAN]

\* How many lines a list shows is a number.
LEMMA ListShown ==
    ASSUME NEW n \in Nat, NEW most \in Nat
    PROVE  ShownHosts(n, most) \in Nat
BY DEF ShownHosts, Least

\* The height of a group of VMs has room for those it shows.
LEMMA GroupHIs ==
    ASSUME NEW n \in Nat
    PROVE  GroupH(n) \in Nat /\ 19 + ShownHosts(n, VmMax) * 14 <= GroupH(n)
<1> DEFINE k == ShownHosts(n, VmMax)
<1>1. k \in Nat
  BY DrawingAssumption, ListShown
<1>2. GroupH(n) = 19 + k * 14 + 6
  BY DEF GroupH
<1> HIDE DEF k
<1>3. GroupH(n) \in Nat /\ 19 + k * 14 <= GroupH(n)
  BY ONLY <1>1, <1>2
<1> QED BY <1>3 DEF k

\* The hosts of a group.
LEMMA VmsTidy ==
    ASSUME NEW n \in Nat
    PROVE  Tidy(List(190, GroupH(n), [i \in 1..ShownHosts(n, VmMax) |-> Box(20, 19 + (i - 1) * 14, 170, 14)],
                     n, Least(n, VmMax) + (IF n > VmMax THEN n - VmMax ELSE 0)))
<1> DEFINE k == ShownHosts(n, VmMax)
           s == [i \in 1..k |-> Box(20, 19 + (i - 1) * 14, 170, 14)]
           told == Least(n, VmMax) + (IF n > VmMax THEN n - VmMax ELSE 0)
           h == GroupH(n)
<1>1. VmMax \in Nat
  BY DrawingAssumption
<1>2. k \in Nat /\ n = told
  BY <1>1, HostsShown, ListShown
<1>3. h \in Nat /\ 19 + k * 14 <= h
  BY GroupHIs
<1>4. s = [i \in 1..k |-> Box(20, 19 + Stride(i, 14), 170, 14)]
  BY DEF Stride
<1> HIDE DEF k, told, h
<1>5. Stride(k + 1, 14) = k * 14
  BY <1>2 DEF Stride
<1> HIDE DEF s
<1>6. IsStack(s, k, 20, 19, 14, 170, 14)
  BY <1>2, <1>4 DEF IsStack
<1>7. 190 \in Int /\ h \in Int /\ Room(20 + 170, 190) /\ Room(19 + Stride(k + 1, 14), h)
  BY <1>3, <1>5 DEF Room
<1>8. Clear(s, 190, h)
  BY <1>6, <1>7, StackClear
<1>9. Tidy(List(190, h, s, n, told))
  BY <1>2, <1>8, TidyFrame
<1> QED BY <1>9 DEF k, s, told, h

\* The height of a switch block has room for its rows, its groups and its name (_block_h).
LEMMA BlockIs ==
    ASSUME NEW sw \in SwitchOf
    PROVE  /\ sw.level \in Nat /\ sw.lines \in Nat /\ sw.rows \in Nat /\ sw.groups \in Seq(Nat) /\ sw.unknown \in BOOLEAN
           /\ GroupHs(sw) \in Seq(Nat) /\ Total(GroupHs(sw)) \in Nat /\ DOMAIN sw.groups = 1..Len(GroupHs(sw))
           /\ ShownHosts(sw.rows, BlockRows) \in Nat
           /\ BlockH(sw) \in Nat /\ 52 <= BlockH(sw) /\ 54 + sw.lines * 13 <= BlockH(sw)
           /\ 20 + ShownHosts(sw.rows, BlockRows) * 17 + Total(GroupHs(sw)) + (IF sw.unknown THEN 17 ELSE 0) <= BlockH(sw)
<1> DEFINE rows == ShownHosts(sw.rows, BlockRows)
           hs == GroupHs(sw)
           n == Len(sw.groups)
           t == Total(hs)
           u == IF sw.unknown THEN 17 ELSE 0
           e == sw.lines * 13
           p == 10 + rows * 17 + t + u + 10
           s == <<p, 54 + e>>
<1>1. sw.level \in Nat /\ sw.lines \in Nat /\ sw.rows \in Nat /\ sw.groups \in Seq(Nat) /\ sw.unknown \in BOOLEAN
  BY DEF SwitchOf
<1>2. rows \in Nat
  BY <1>1, DrawingAssumption, ListShown
<1>3. n \in Nat /\ DOMAIN sw.groups = 1..n /\ \A i \in 1..n : sw.groups[i] \in Nat
  BY <1>1, LenProperties
<1>4. hs = [i \in 1..n |-> GroupH(sw.groups[i])]
  BY <1>3 DEF GroupHs
<1>5. \A i \in 1..n : GroupH(sw.groups[i]) \in Nat
  BY <1>3, GroupHIs
<1>6. BlockH(sw) = Largest(s, 52)
  BY DEF BlockH
<1> HIDE DEF n, hs
<1>7. hs \in Seq(Nat) /\ Len(hs) = n
  <2>1. hs \in [1..n -> Nat]
    BY <1>4, <1>5
  <2> QED BY <1>3, <2>1, FunctionIsSeq
<1>8. t \in Nat
  BY <1>7, TotalIs
<1>9. u \in Nat /\ e \in Nat
  BY <1>1
<1> HIDE DEF rows, t, u, e
<1>10. p \in Int /\ 54 + e \in Int /\ p = 20 + rows * 17 + t + u
  BY <1>2, <1>8, <1>9
<1> HIDE DEF p
<1>11. s \in Seq(Int) /\ DOMAIN s = 1..2 /\ s[1] = p /\ s[2] = 54 + e /\ 1 \in 1..2 /\ 2 \in 1..2 /\ 52 \in Int
  BY <1>10
<1> HIDE DEF s
<1>12. BlockH(sw) \in Int /\ 52 <= BlockH(sw) /\ p <= BlockH(sw) /\ 54 + e <= BlockH(sw)
  <2>1. /\ Largest(s, 52) \in Int /\ 52 <= Largest(s, 52)
        /\ \A i \in DOMAIN s : s[i] <= Largest(s, 52)
    BY <1>11, LargestIs
  <2> QED BY <1>6, <1>11, <2>1
<1>13. BlockH(sw) \in Nat
  BY <1>12
<1>14. 20 + rows * 17 + t + u <= BlockH(sw)
  BY <1>10, <1>12
<1> QED BY <1>1, <1>2, <1>3, <1>7, <1>8, <1>12, <1>13, <1>14 DEF n, hs, rows, t, u, e

\* What is beside a switch, from top to bottom.
LEMMA BesideTidy ==
    ASSUME NEW sw \in SwitchOf, NEW rows, rows = ShownHosts(sw.rows, BlockRows),
           NEW below, below = 10 + rows * 17
    PROVE  LET s == [i \in 1..rows |-> Box(108, 10 + (i - 1) * 17, 190, 17)]
               g == [i \in DOMAIN sw.groups |-> Box(108, below + From(GroupHs(sw), 0, i), 190, GroupHs(sw)[i])]
               u == IF sw.unknown THEN <<Box(108, below + Total(GroupHs(sw)), 190, 17)>> ELSE <<>>
           IN  /\ Clear(s, 300, BlockH(sw)) /\ Clear(g, 300, BlockH(sw)) /\ Clear(u, 300, BlockH(sw))
               /\ Across(s, g) /\ Across(g, u) /\ Across(s, u)
               /\ RightOf(s, 108) /\ RightOf(g, 108) /\ RightOf(u, 108)
               /\ s \in Seq(Boxes) /\ g \in Seq(Boxes) /\ u \in Seq(Boxes)
<1> DEFINE s == [i \in 1..rows |-> Box(108, 10 + (i - 1) * 17, 190, 17)]
           g == [i \in DOMAIN sw.groups |-> Box(108, below + From(GroupHs(sw), 0, i), 190, GroupHs(sw)[i])]
           u == IF sw.unknown THEN <<Box(108, below + Total(GroupHs(sw)), 190, 17)>> ELSE <<>>
           hs == GroupHs(sw)
           t == Total(hs)
           h == BlockH(sw)
<1>1. hs \in Seq(Nat) /\ t \in Nat /\ DOMAIN sw.groups = 1..Len(hs) /\ sw.unknown \in BOOLEAN
      /\ rows \in Nat /\ h \in Nat
  BY BlockIs
<1>2. 20 + rows * 17 + t + (IF sw.unknown THEN 17 ELSE 0) <= h
  BY BlockIs
<1>3. Extent(hs, 0) = t
  BY <1>1, TotalIs
<1>4. s = [i \in 1..rows |-> Box(108, 10 + Stride(i, 17), 190, 17)] /\ Stride(rows + 1, 17) = rows * 17
  BY <1>1 DEF Stride
<1>5. g = [i \in 1..Len(hs) |-> Box(108, below + From(hs, 0, i), 190, hs[i])]
  BY <1>1
<1> DEFINE r == rows * 17
<1>6. r \in Nat /\ below = 10 + r /\ 20 + r + t + (IF sw.unknown THEN 17 ELSE 0) <= h /\ Stride(rows + 1, 17) = r
  BY <1>1, <1>2, <1>4, SMTT(60)
<1> HIDE DEF r, t, h, hs, s, g
<1>7. below \in Nat /\ below + t <= h /\ (sw.unknown => below + t + 17 <= h) /\ below + t \in Nat
  BY ONLY <1>1, <1>6
<1>8. Clear(s, 300, h) /\ Over(s, below) /\ RightOf(s, 108)
  <2>1. IsStack(s, rows, 108, 10, 17, 190, 17)
    BY <1>1, <1>4 DEF IsStack
  <2>2. 300 \in Int /\ h \in Int /\ Room(108 + 190, 300) /\ Room(10 + Stride(rows + 1, 17), h) /\ 10 + Stride(rows + 1, 17) = below
    <3>1. 10 + Stride(rows + 1, 17) = below
      BY <1>6
    <3>2. below <= h /\ h \in Int
      BY ONLY <1>1, <1>7
    <3>3. Room(108 + 190, 300) /\ Room(below, h)
      BY ONLY <3>2 DEF Room
    <3> QED BY <3>1, <3>2, <3>3
  <2>3. Clear(s, 300, h) /\ Over(s, 10 + Stride(rows + 1, 17)) /\ RightOf(s, 108)
    BY <2>1, <2>2, StackClear
  <2> QED BY <2>2, <2>3
<1>9. Clear(g, 300, h) /\ Under(g, below) /\ Over(g, below + t) /\ RightOf(g, 108)
  <2>1. IsColumn(g, hs, 0, 108, below, 190)
    BY <1>1, <1>5, <1>7 DEF IsColumn
  <2>2. 300 \in Int /\ h \in Int /\ 108 + 190 <= 300 /\ below + Extent(hs, 0) <= h
    BY <1>1, <1>3, <1>7
  <2>3. Clear(g, 300, h) /\ Under(g, below) /\ Over(g, below + Extent(hs, 0)) /\ RightOf(g, 108)
    BY <2>1, <2>2, ColumnIs
  <2> QED BY <1>3, <2>3
<1>10. Clear(u, 300, h) /\ Under(u, below + t) /\ RightOf(u, 108)
  <2>1. CASE sw.unknown
    <3>1. IsOne(u, 108, below + t, 190, 17)
      BY <1>7, <2>1 DEF IsOne, t, hs
    <3>2. Room(108 + 190, 300) /\ Room((below + t) + 17, h) /\ below + t <= below + t /\ 108 <= 108
      BY <1>7, <2>1 DEF Room
    <3> HIDE DEF u
    <3> QED BY <3>1, <3>2, OneBox
  <2>2. CASE ~sw.unknown
    <3>1. u = <<>>
      BY <2>2
    <3> HIDE DEF u
    <3> QED BY <3>1, ClearFew, OneIs
  <2> QED BY <1>1, <2>1, <2>2
<1> HIDE DEF u
<1>11. s \in Seq(Boxes) /\ g \in Seq(Boxes) /\ u \in Seq(Boxes)
  BY <1>8, <1>9, <1>10 DEF Clear
<1>12. Across(s, g) /\ Across(g, u) /\ Across(s, u)
  <2>1. below \in Int /\ below + t \in Int /\ below <= below + t
    BY <1>1, <1>7
  <2>2. Over(s, below + t)
    BY <1>8, <1>11, <2>1, OverMore
  <2>3. Parted(s, g, below) /\ Parted(g, u, below + t) /\ Parted(s, u, below + t)
    BY <1>8, <1>9, <1>10, <1>11, <2>1, <2>2 DEF Parted
  <2> QED BY <2>3, Divided
<1> QED BY <1>8, <1>9, <1>10, <1>11, <1>12 DEF s, g, u, hs, t, h

\* The symbol of a switch, its name, and what is beside them.
LEMMA BlockTidy ==
    ASSUME NEW sw \in SwitchOf, NEW f \in BlockFrames(sw)
    PROVE  Tidy(f)
<1> DEFINE rows == ShownHosts(sw.rows, BlockRows)
           below == 10 + rows * 17
           h == BlockH(sw)
           e == sw.lines * 13
           a == <<Box(26, 8, 44, 32)>>
           b == <<Box(4, 44, 92, sw.lines * 13 + 4)>>
           ab == <<Box(26, 8, 44, 32), Box(4, 44, 92, sw.lines * 13 + 4)>>
           s == [i \in 1..rows |-> Box(108, 10 + (i - 1) * 17, 190, 17)]
           g == [i \in DOMAIN sw.groups |-> Box(108, below + From(GroupHs(sw), 0, i), 190, GroupHs(sw)[i])]
           u == IF sw.unknown THEN <<Box(108, below + Total(GroupHs(sw)), 190, 17)>> ELSE <<>>
           told == Least(sw.rows, BlockRows) + (IF sw.rows > BlockRows THEN sw.rows - BlockRows ELSE 0)
<1>1. sw.groups \in Seq(Nat) /\ sw.rows \in Nat /\ h \in Nat /\ 52 <= h /\ 54 + e <= h /\ sw.lines \in Nat
  BY BlockIs
<1>2. /\ Clear(s, 300, h) /\ Clear(g, 300, h) /\ Clear(u, 300, h)
      /\ Across(s, g) /\ Across(g, u) /\ Across(s, u)
      /\ RightOf(s, 108) /\ RightOf(g, 108) /\ RightOf(u, 108)
      /\ s \in Seq(Boxes) /\ g \in Seq(Boxes) /\ u \in Seq(Boxes)
  BY BesideTidy, ZenonT(60)
<1>3. sw.rows = told
  <2>1. BlockRows \in Nat
    BY DrawingAssumption
  <2> QED BY <1>1, <2>1, HostsShown
<1>4. ab = a \o b
  <2> DEFINE p == Box(26, 8, 44, 32)
             q == Box(4, 44, 92, sw.lines * 13 + 4)
  <2> HIDE DEF p, q
  <2>1. <<p>> \o <<q>> = <<p, q>>
    BY Paired
  <2> QED BY <2>1 DEF p, q
<1>5. e \in Nat
  <2>1. sw.lines \in Nat /\ e = sw.lines * 13
    BY <1>1
  <2> HIDE DEF e
  <2> QED BY ONLY <2>1
<1>6. Clear(a, 300, h) /\ Over(a, 44) /\ LeftOf(a, 108)
  <2>1. IsOne(a, 26, 8, 44, 32)
    BY DEF IsOne
  <2>2. Room(26 + 44, 300) /\ Room(8 + 32, h) /\ 8 + 32 <= 44 /\ 26 + 44 <= 108
    BY <1>1 DEF Room
  <2> HIDE DEF a, h
  <2> QED BY <2>1, <2>2, OneBox
<1>7. Clear(b, 300, h) /\ Under(b, 44) /\ LeftOf(b, 108)
  <2>1. IsOne(b, 4, 44, 92, e + 4)
    BY <1>5 DEF IsOne
  <2> HIDE DEF e, h
  <2>2. Room(4 + 92, 300) /\ 44 <= 44 /\ 4 + 92 <= 108
    BY DEF Room
  <2>3. Room(44 + (e + 4), h)
    BY ONLY <1>1, <1>5 DEF Room
  <2> HIDE DEF b
  <2> QED BY <2>1, <2>2, <2>3, OneBox
<1>8. BlockFrames(sw) = {List(300, h, ((ab \o s) \o g) \o u, sw.rows, told)}
        \cup {List(190, GroupH(n), [i \in 1..ShownHosts(n, VmMax) |-> Box(20, 19 + (i - 1) * 14, 170, 14)],
                   n, Least(n, VmMax) + (IF n > VmMax THEN n - VmMax ELSE 0)) : n \in Elements(sw.groups)}
  BY DEF BlockFrames
<1> HIDE DEF a, b, ab, s, g, u, h, told
<1>9. a \in Seq(Boxes) /\ b \in Seq(Boxes)
  BY <1>6, <1>7 DEF Clear
<1>10. Clear(ab, 300, h) /\ ab \in Seq(Boxes)
  <2>1. Parted(a, b, 44)
    BY <1>6, <1>7, <1>9 DEF Parted
  <2>2. Across(a, b)
    BY <2>1, Divided
  <2>3. Clear(a \o b, 300, h)
    BY <1>6, <1>7, <2>2, ClearJoin
  <2> QED BY <1>4, <2>3 DEF Clear
<1>11. Across(ab, s) /\ Across(ab, g) /\ Across(ab, u)
  <2>1. Parted(a, s, 108) /\ Parted(a, g, 108) /\ Parted(a, u, 108)
    BY <1>2, <1>6, <1>9 DEF Parted
  <2>2. Parted(b, s, 108) /\ Parted(b, g, 108) /\ Parted(b, u, 108)
    BY <1>2, <1>7, <1>9 DEF Parted
  <2>3. Across(a, s) /\ Across(a, g) /\ Across(a, u) /\ Across(b, s) /\ Across(b, g) /\ Across(b, u)
    BY <2>1, <2>2, Divided
  <2> QED BY <1>4, <1>9, <2>3, AcrossJoin
<1>12. Clear(ab \o s, 300, h) /\ ab \o s \in Seq(Boxes)
  <2>1. Clear(ab \o s, 300, h)
    BY <1>2, <1>10, <1>11, ClearJoin
  <2> QED BY <2>1 DEF Clear
<1>13. Across(ab \o s, g) /\ Across(ab \o s, u)
  BY <1>2, <1>10, <1>11, AcrossJoin
<1>14. Clear((ab \o s) \o g, 300, h) /\ (ab \o s) \o g \in Seq(Boxes)
  BY <1>2, <1>12, <1>13, ClearJoin, ZenonT(60) DEF Clear
<1>15. Across((ab \o s) \o g, u)
  BY <1>2, <1>12, <1>13, AcrossJoin
<1>16. Clear(((ab \o s) \o g) \o u, 300, h)
  BY <1>2, <1>14, <1>15, ClearJoin
<1>17. Tidy(List(300, h, ((ab \o s) \o g) \o u, sw.rows, told))
  BY <1>3, <1>16, TidyFrame
<1>18. \A n \in Elements(sw.groups) : n \in Nat
  BY <1>1, ElementsFinite
<1> DEFINE block == List(300, h, ((ab \o s) \o g) \o u, sw.rows, told)
           vms(n) == List(190, GroupH(n), [i \in 1..ShownHosts(n, VmMax) |-> Box(20, 19 + (i - 1) * 14, 170, 14)],
                          n, Least(n, VmMax) + (IF n > VmMax THEN n - VmMax ELSE 0))
<1>19. f = block \/ \E n \in Elements(sw.groups) : f = vms(n)
  BY <1>8
<1>20. \A n \in Elements(sw.groups) : Tidy(vms(n))
  BY <1>18, VmsTidy
<1> HIDE DEF block, vms
<1>21. Tidy(block)
  BY <1>17 DEF block
<1> QED BY <1>19, <1>20, <1>21

\* A question about the switches of a VLAN.
VlanOf(q) == q.switches \in Seq(SwitchOf) /\ q.unplaced \in Nat /\ q.tags \in Nat

\* The switches of a VLAN page, finitely many.
LEMMA SwitchesAre ==
    ASSUME NEW q, VlanOf(q)
    PROVE  /\ q.switches \in Seq(SwitchOf) /\ Len(q.switches) \in Nat /\ DOMAIN q.switches = 1..Len(q.switches)
           /\ \A i \in 1..Len(q.switches) : /\ q.switches[i] \in SwitchOf /\ q.switches[i] \in Elements(q.switches)
                                            /\ LevelOf(q.switches[i]) \in Nat /\ 1 <= LevelOf(q.switches[i])
           /\ \A sw \in Elements(q.switches) : sw \in SwitchOf /\ LevelOf(sw) \in Nat
           /\ IsFiniteSet(Elements(q.switches))
<1>1. q.switches \in Seq(SwitchOf)
  BY DEF VlanOf
<1>2. /\ Len(q.switches) \in Nat /\ DOMAIN q.switches = 1..Len(q.switches)
      /\ \A i \in 1..Len(q.switches) : q.switches[i] \in SwitchOf
  BY <1>1, LenProperties
<1>3. \A i \in 1..Len(q.switches) : q.switches[i] \in Elements(q.switches)
  BY <1>2 DEF Elements
<1>4. \A sw \in SwitchOf : LevelOf(sw) \in Nat /\ 1 <= LevelOf(sw)
  <2> SUFFICES ASSUME NEW sw \in SwitchOf PROVE LevelOf(sw) \in Nat /\ 1 <= LevelOf(sw)
    OBVIOUS
  <2>1. sw.level \in Nat
    BY BlockIs
  <2> QED BY <2>1 DEF LevelOf
<1>5. IsFiniteSet(Elements(q.switches)) /\ \A sw \in Elements(q.switches) : sw \in SwitchOf
  BY <1>1, ElementsFinite
<1> QED BY <1>1, <1>2, <1>3, <1>4, <1>5

\* How many rows there are.
IsMost(q, most) == most = Max({1} \cup {LevelOf(sw) : sw \in Elements(q.switches)})
\* The level of every switch is one of the levels drawn.
LEMMA MostLevels ==
    ASSUME NEW q, VlanOf(q), NEW most, IsMost(q, most)
    PROVE  most \in Nat /\ 1 <= most /\ \A i \in 1..Len(q.switches) : LevelOf(q.switches[i]) \in 1..most
<1> DEFINE E == Elements(q.switches)
           f == [sw \in E |-> LevelOf(sw)]
           S == {f[sw] : sw \in E}
<1>1. /\ \A i \in 1..Len(q.switches) : /\ q.switches[i] \in E
                                       /\ LevelOf(q.switches[i]) \in Nat /\ 1 <= LevelOf(q.switches[i])
      /\ \A sw \in E : LevelOf(sw) \in Nat
      /\ IsFiniteSet(E)
  BY SwitchesAre
<1> DEFINE T == {1} \cup S
<1>2. most = Max(T)
  <2>1. {LevelOf(sw) : sw \in E} = S
    OBVIOUS
  <2>2. most = Max({1} \cup {LevelOf(sw) : sw \in E})
    BY DEF IsMost
  <2> HIDE DEF S
  <2> QED BY <2>1, <2>2
<1>3. S \subseteq Int
  BY <1>1
<1>4. \A i \in 1..Len(q.switches) : LevelOf(q.switches[i]) \in S
  BY <1>1
<1>5. IsFiniteSet(S)
  <2> HIDE DEF f, E
  <2> QED BY <1>1, ImageFinite
<1> HIDE DEF S, E
<1>6. IsFiniteSet(T) /\ T \subseteq Int /\ 1 \in T /\ \A i \in 1..Len(q.switches) : LevelOf(q.switches[i]) \in T
  <2>1. IsFiniteSet({1})
    BY FS_Singleton
  <2>2. IsFiniteSet(T)
    BY ONLY <1>5, <2>1, FS_Union
  <2> QED BY <1>3, <1>4, <2>2
<1> HIDE DEF T
<1>7. Max(T) \in T /\ \A x \in T : x <= Max(T)
  <2>1. T # {}
    BY <1>6
  <2> QED BY ONLY <1>6, <2>1, MaxIs
<1>8. most \in Int /\ 1 <= most /\ \A i \in 1..Len(q.switches) : LevelOf(q.switches[i]) <= most
  <2>1. most \in T /\ \A x \in T : x <= most
    BY <1>2, <1>7, Zenon
  <2>2. 1 <= most
    BY <1>6, <2>1, Zenon
  <2>3. \A i \in 1..Len(q.switches) : LevelOf(q.switches[i]) <= most
    BY <1>6, <2>1, Zenon
  <2>4. most \in Int
    BY <1>6, <2>1, Zenon
  <2> QED BY <2>2, <2>3, <2>4
<1> QED BY <1>1, <1>8

\* The switches of a row are numbered from the left.
LEMMA InLevelIs ==
    ASSUME NEW q, VlanOf(q), NEW l
    PROVE  /\ InLevel(q, l) \in Seq(Nat) /\ Len(InLevel(q, l)) = Len(q.switches) /\ Total(InLevel(q, l)) \in Nat
           /\ \A i \in 1..Len(q.switches) : LevelOf(q.switches[i]) = l => InLevel(q, l)[i] = 1
<1> DEFINE s == InLevel(q, l)
           n == Len(q.switches)
<1>1. n \in Nat /\ DOMAIN q.switches = 1..n
  BY SwitchesAre
<1>2. s = [i \in 1..n |-> IF LevelOf(q.switches[i]) = l THEN 1 ELSE 0]
  BY <1>1 DEF InLevel
<1>3. s \in [1..n -> Nat]
  BY <1>2
<1>4. \A i \in 1..n : LevelOf(q.switches[i]) = l => s[i] = 1
  BY <1>2
<1> HIDE DEF s, n
<1>5. s \in Seq(Nat) /\ Len(s) = n
  BY <1>1, <1>3, FunctionIsSeq
<1>6. Total(s) \in Nat
  BY <1>5, TotalIs
<1> QED BY <1>4, <1>5, <1>6 DEF s, n

\* A row is higher than its switches.
LEMMA LevelHIs ==
    ASSUME NEW q, VlanOf(q), NEW l
    PROVE  /\ LevelH(q, l) \in Nat
           /\ \A i \in 1..Len(q.switches) :
                LevelOf(q.switches[i]) = l => BlockH(q.switches[i]) + 80 <= LevelH(q, l)
<1> DEFINE E == {s \in Elements(q.switches) : LevelOf(s) = l}
           f == [sw \in E |-> BlockH(sw)]
           S == {f[sw] : sw \in E}
           blocks == {BlockH(sw) : sw \in E}
<1>1. /\ \A i \in 1..Len(q.switches) : q.switches[i] \in Elements(q.switches)
      /\ \A sw \in Elements(q.switches) : sw \in SwitchOf
      /\ IsFiniteSet(Elements(q.switches))
  BY SwitchesAre
<1>2. IsFiniteSet(E)
  BY <1>1, FS_Subset
<1>3. \A sw \in E : BlockH(sw) \in Nat
  BY <1>1, BlockIs
<1>4. blocks = S
  OBVIOUS
<1>5. S \subseteq Nat
  BY <1>3
<1>6. \A i \in 1..Len(q.switches) : LevelOf(q.switches[i]) = l => BlockH(q.switches[i]) \in S
  BY <1>1
<1>7. IsFiniteSet(S)
  <2> HIDE DEF f, E
  <2> QED BY <1>2, ImageFinite
<1>8. LevelH(q, l) = IF S = {} THEN 0 ELSE Max(S) + 80
  BY <1>4 DEF LevelH
<1> HIDE DEF S, E, blocks
<1>9. CASE S = {}
  BY <1>6, <1>8, <1>9
<1>10. CASE S # {}
  <2>1. Max(S) \in S /\ \A x \in S : x <= Max(S)
    <3>1. S \subseteq Int
      BY <1>5
    <3> QED BY ONLY <1>7, <1>10, <3>1, MaxIs
  <2>2. Max(S) \in Nat
    BY <1>5, <2>1
  <2>3. LevelH(q, l) = Max(S) + 80
    BY <1>8, <1>10
  <2>4. \A x \in S : x + 80 <= LevelH(q, l)
    <3> SUFFICES ASSUME NEW x \in S PROVE x + 80 <= LevelH(q, l)
      OBVIOUS
    <3> DEFINE m == Max(S)
    <3>1. x \in Nat /\ m \in Nat /\ x <= m /\ LevelH(q, l) = m + 80
      BY <1>5, <2>1, <2>2, <2>3
    <3> HIDE DEF m
    <3> QED BY ONLY <3>1
  <2> QED BY <1>6, <2>2, <2>3, <2>4
<1> QED BY <1>9, <1>10

\* Where the switches stand on the page.
RowWide(q, l) == Total(InLevel(q, l)) * 340 - 40
Ahead(q, i) == From(InLevel(q, LevelOf(q.switches[i])), 0, i)
BlockX(q, width, i) == 40 + HalfOf(width - RowWide(q, LevelOf(q.switches[i]))) + Ahead(q, i) * 340
BlockY(q, high, i) == 338 + From(high, 0, LevelOf(q.switches[i]))
Levelled(q, width, high) ==
    /\ VlanOf(q) /\ width \in Nat /\ high \in Seq(Nat)
    /\ \A i \in 1..Len(q.switches) :
         /\ LevelOf(q.switches[i]) \in 1..Len(high) /\ high[LevelOf(q.switches[i])] = LevelH(q, LevelOf(q.switches[i]))
         /\ RowWide(q, LevelOf(q.switches[i])) <= width

\* A block of its row, centred in the widest row, ends within it.
LEMMA InItsRow ==
    ASSUME NEW x \in Nat, NEW d \in Nat, NEW w \in Int, NEW width \in Nat, NEW c \in Nat, NEW t \in Nat,
           w = t * 340 - 40, x <= d, d = width - w, c + 1 <= t
    PROVE  40 + x + c * 340 \in Nat /\ (40 + x + c * 340) + 300 <= 40 + width
<1>1. c * 340 + 340 <= t * 340
  OBVIOUS
<1> QED BY <1>1

\* Where the block of a switch is drawn, from its level and how many are ahead of it there.
LEMMA BlockPlace ==
    ASSUME NEW q, NEW width, NEW high, Levelled(q, width, high), NEW i \in 1..Len(q.switches)
    PROVE  /\ Ahead(q, i) \in Nat /\ BlockX(q, width, i) \in Nat /\ BlockY(q, high, i) \in Nat
           /\ BlockX(q, width, i) + 300 <= 40 + width /\ 338 <= BlockY(q, high, i)
           /\ BlockH(q.switches[i]) \in Nat
<1> DEFINE l == LevelOf(q.switches[i])
           s == InLevel(q, l)
           n == Len(q.switches)
           t == Total(s)
           d == width - RowWide(q, l)
<1>1. /\ VlanOf(q) /\ width \in Nat /\ high \in Seq(Nat) /\ l \in 1..Len(high) /\ RowWide(q, l) <= width
  BY DEF Levelled
<1>2. s \in Seq(Nat) /\ Len(s) = n /\ t \in Nat /\ s[i] = 1
  BY <1>1, InLevelIs
<1>3. n \in Nat /\ q.switches[i] \in SwitchOf
  BY <1>1, SwitchesAre
<1>4. RowWide(q, l) = t * 340 - 40
  BY DEF RowWide
<1>5. From(s, 0, i) \in Nat /\ From(s, 0, i) + 1 <= t
  <2>1. i \in 1..Len(s) /\ i \in 1..Len(s) + 1 /\ Len(s) + 1 \in 1..Len(s) + 1 /\ i < Len(s) + 1 /\ 0 \in Nat
    BY <1>2, <1>3
  <2>2. From(s, 0, i) \in Nat
    BY <1>2, <2>1, FromIs
  <2>3. From(s, 0, i) + s[i] + 0 <= From(s, 0, Len(s) + 1)
    BY <1>2, <2>1, FromGrows
  <2>4. t = From(s, 0, Len(s) + 1)
    BY DEF Total
  <2> DEFINE c == From(s, 0, i)
             e == From(s, 0, Len(s) + 1)
  <2>5. c \in Nat /\ c + 1 + 0 <= e /\ t = e
    BY <1>2, <2>2, <2>3, <2>4
  <2> HIDE DEF c, e, t
  <2>6. c + 1 <= t
    BY ONLY <2>5
  <2> QED BY <2>2, <2>6 DEF c
<1>6. Ahead(q, i) = From(s, 0, i)
  BY DEF Ahead
<1>7. BlockX(q, width, i) = 40 + HalfOf(d) + Ahead(q, i) * 340
  BY DEF BlockX
<1>8. d \in Nat
  <2> DEFINE w == RowWide(q, l)
  <2>1. w \in Int
    <3> HIDE DEF t
    <3> QED BY <1>2, <1>4
  <2>2. w <= width /\ width \in Nat
    BY <1>1
  <2> HIDE DEF w
  <2>3. width - w \in Nat
    BY ONLY <2>1, <2>2
  <2> QED BY <2>3 DEF w
<1>9. From(high, 0, l) \in Nat
  <2>1. Len(high) \in Nat /\ l \in 1..Len(high) + 1 /\ 0 \in Nat
    <3>1. Len(high) \in Nat
      BY <1>1, LenProperties
    <3> HIDE DEF l
    <3> QED BY <1>1, <3>1
  <2> QED BY <1>1, <2>1, FromIs
<1>10. BlockY(q, high, i) = 338 + From(high, 0, l)
  BY DEF BlockY
<1>11. BlockY(q, high, i) \in Nat /\ 338 <= BlockY(q, high, i)
  <2> DEFINE y == From(high, 0, l)
  <2>1. y \in Nat /\ BlockY(q, high, i) = 338 + y
    BY <1>9, <1>10
  <2> HIDE DEF y
  <2> QED BY ONLY <2>1
<1>12. BlockX(q, width, i) \in Nat /\ BlockX(q, width, i) + 300 <= 40 + width
  <2> DEFINE x == HalfOf(d)
             c == Ahead(q, i)
             w == RowWide(q, l)
  <2>1. x \in Nat /\ x <= d
    BY <1>8, HalfIs
  <2>2. c \in Nat /\ c + 1 <= t
    BY <1>5, <1>6
  <2>3. BlockX(q, width, i) = 40 + x + c * 340 /\ d = width - w /\ w = t * 340 - 40
    BY <1>4, <1>7
  <2>4. t \in Nat /\ d \in Nat /\ width \in Nat
    BY <1>1, <1>2, <1>8
  <2> HIDE DEF x, c, w, d, t
  <2>5. w \in Int
    BY ONLY <2>3, <2>4
  <2>6. 40 + x + c * 340 \in Nat /\ (40 + x + c * 340) + 300 <= 40 + width
    BY ONLY <2>1, <2>2, <2>3, <2>4, <2>5, InItsRow
  <2> QED BY <2>3, <2>6
<1>13. Ahead(q, i) \in Nat
  BY <1>5, <1>6
<1> QED BY <1>3, <1>11, <1>12, <1>13, BlockIs

\* Two switches of a row are beside each other, those of different rows one below the other.
LEMMA BlocksApart ==
    ASSUME NEW q, NEW width, NEW high, Levelled(q, width, high), NEW i \in 1..Len(q.switches), NEW j \in 1..Len(q.switches), i < j
    PROVE  \/ BlockX(q, width, i) + 300 <= BlockX(q, width, j)
           \/ BlockY(q, high, i) + BlockH(q.switches[i]) <= BlockY(q, high, j)
           \/ BlockY(q, high, j) + BlockH(q.switches[j]) <= BlockY(q, high, i)
<1> DEFINE l == LevelOf(q.switches[i])
           m == LevelOf(q.switches[j])
           n == Len(q.switches)
           bi == BlockH(q.switches[i])
           bj == BlockH(q.switches[j])
           a == From(high, 0, l)
           b == From(high, 0, m)
<1>1. /\ VlanOf(q) /\ width \in Nat /\ high \in Seq(Nat)
      /\ l \in 1..Len(high) /\ high[l] = LevelH(q, l)
      /\ m \in 1..Len(high) /\ high[m] = LevelH(q, m)
  BY DEF Levelled
<1>2. bi \in Nat /\ bj \in Nat
  BY BlockPlace
<1>3. bi + 80 <= LevelH(q, l) /\ bj + 80 <= LevelH(q, m) /\ LevelH(q, l) \in Nat /\ LevelH(q, m) \in Nat
  BY <1>1, LevelHIs
<1>4. Len(high) \in Nat /\ 0 \in Nat
  BY <1>1, LenProperties
<1>5. BlockY(q, high, i) = 338 + a /\ BlockY(q, high, j) = 338 + b
  BY DEF BlockY
<1>6. a \in Nat /\ b \in Nat
  <2>1. l \in 1..Len(high) + 1 /\ m \in 1..Len(high) + 1
    <3>1. l \in 1..Len(high) /\ m \in 1..Len(high)
      BY <1>1
    <3> HIDE DEF l, m
    <3> QED BY ONLY <1>4, <3>1
  <2> QED BY <1>1, <1>4, <2>1, FromIs
<1>7. CASE l < m
  <2>1. l \in 1..Len(high) /\ m \in 1..Len(high) + 1
    <3> HIDE DEF l, m
    <3> QED BY <1>1, <1>4
  <2>2. a + high[l] + 0 <= b
    BY <1>1, <1>4, <1>7, <2>1, FromGrows
  <2>3. a + LevelH(q, l) + 0 <= b
    BY <1>1, <2>2
  <2> DEFINE h == LevelH(q, l)
  <2>4. h \in Nat /\ bi + 80 <= h /\ a + h + 0 <= b
    BY <1>3, <2>3
  <2> HIDE DEF h, a, b, bi
  <2>5. (338 + a) + bi <= 338 + b
    BY ONLY <1>2, <1>6, <2>4
  <2> QED BY <1>5, <2>5 DEF bi
<1>8. CASE m < l
  <2>1. m \in 1..Len(high) /\ l \in 1..Len(high) + 1
    <3> HIDE DEF l, m
    <3> QED BY <1>1, <1>4
  <2>2. b + high[m] + 0 <= a
    BY <1>1, <1>4, <1>8, <2>1, FromGrows
  <2>3. b + LevelH(q, m) + 0 <= a
    BY <1>1, <2>2
  <2> DEFINE h == LevelH(q, m)
  <2>4. h \in Nat /\ bj + 80 <= h /\ b + h + 0 <= a
    BY <1>3, <2>3
  <2> HIDE DEF h, a, b, bj
  <2>5. (338 + b) + bj <= 338 + a
    BY ONLY <1>2, <1>6, <2>4
  <2> QED BY <1>5, <2>5 DEF bj
<1>9. CASE l = m
  <2> DEFINE s == InLevel(q, l)
             c == From(s, 0, i)
             e == From(s, 0, j)
             x == 40 + HalfOf(width - RowWide(q, l))
  <2>1. s \in Seq(Nat) /\ Len(s) = n /\ s[i] = 1
    BY <1>1, InLevelIs
  <2>2. i \in 1..Len(s) /\ j \in 1..Len(s) + 1
    <3>1. n \in Nat
      BY <1>1, SwitchesAre
    <3> QED BY <2>1, <3>1
  <2>3. c + s[i] + 0 <= e
    BY <1>4, <2>1, <2>2, FromGrows
  <2>4. Ahead(q, i) = c /\ Ahead(q, j) = e
    BY <1>9 DEF Ahead
  <2>5. BlockX(q, width, i) = x + c * 340 /\ BlockX(q, width, j) = x + e * 340
    BY <1>9, <2>4 DEF BlockX
  <2>6. c \in Nat /\ e \in Nat /\ x + c * 340 \in Nat
    BY <2>4, <2>5, BlockPlace
  <2>7. x \in Int
    <3>1. RowWide(q, l) \in Int /\ RowWide(q, l) <= width
      <4>1. Total(s) \in Nat
        BY <1>1, InLevelIs
      <4>2. RowWide(q, l) = Total(s) * 340 - 40
        BY DEF RowWide
      <4> HIDE DEF s
      <4> QED BY <4>1, <4>2 DEF Levelled
    <3>2. width - RowWide(q, l) \in Nat
      <4> DEFINE w == RowWide(q, l)
      <4>1. w \in Int /\ w <= width /\ width \in Nat
        BY <1>1, <3>1
      <4> HIDE DEF w
      <4>2. width - w \in Nat
        BY ONLY <4>1
      <4> QED BY <4>2 DEF w
    <3>3. HalfOf(width - RowWide(q, l)) \in Nat
      BY <3>2, HalfIs
    <3> QED BY <3>3
  <2>8. c + 1 <= e
    <3> HIDE DEF c, e, s
    <3> QED BY <2>1, <2>3, <2>6
  <2> HIDE DEF x, c, e, s
  <2>9. (x + c * 340) + 300 <= x + e * 340
    <3>1. c * 340 + 340 <= e * 340
      BY ONLY <2>6, <2>8
    <3> QED BY ONLY <2>6, <2>7, <3>1
  <2> QED BY <2>5, <2>9
<1>10. l < m \/ m < l \/ l = m
  <2>1. l \in Int /\ m \in Int
    BY <1>1
  <2> HIDE DEF l, m
  <2> QED BY <2>1
<1> QED BY <1>7, <1>8, <1>9, <1>10

AreBlocks(b, q, width, high) ==
    /\ Levelled(q, width, high)
    /\ b = [i \in DOMAIN q.switches |-> Box(BlockX(q, width, i), BlockY(q, high, i), 300, BlockH(q.switches[i]))]

\* The blocks of a VLAN page lie apart, below the firewalls and beside the legend.
LEMMA BlocksClear ==
    ASSUME NEW q, NEW width, NEW high, NEW b, AreBlocks(b, q, width, high)
    PROVE  Clear(b, Endless, Endless) /\ Under(b, 338) /\ LeftOf(b, 40 + width) /\ width \in Nat
<1> DEFINE n == Len(q.switches)
           x(i) == BlockX(q, width, i)
           y(i) == BlockY(q, high, i)
           h(i) == BlockH(q.switches[i])
<1>1. Levelled(q, width, high) /\ b = [i \in DOMAIN q.switches |-> Box(x(i), y(i), 300, h(i))]
  BY DEF AreBlocks
<1>2. width \in Nat /\ VlanOf(q)
  BY <1>1 DEF Levelled
<1>3. n \in Nat /\ DOMAIN q.switches = 1..n
  BY <1>2, SwitchesAre
<1>4. \A i \in 1..n : x(i) \in Nat /\ y(i) \in Nat /\ x(i) + 300 <= 40 + width /\ 338 <= y(i) /\ h(i) \in Nat
  BY <1>1, BlockPlace
<1>5. \A i \in 1..n : \A j \in 1..n : i < j => \/ x(i) + 300 <= x(j)
                                               \/ y(i) + h(i) <= y(j)
                                               \/ y(j) + h(j) <= y(i)
  BY <1>1, BlocksApart
<1>6. b = [i \in 1..n |-> Box(x(i), y(i), 300, h(i))]
  BY <1>1, <1>3
<1> HIDE DEF n, x, y, h
<1>7. ASSUME NEW i \in 1..n
      PROVE  b[i] \in Boxes /\ b[i].x = x(i) /\ b[i].y = y(i) /\ b[i].w = 300 /\ b[i].h = h(i)
  <2>1. b[i] = Box(x(i), y(i), 300, h(i)) /\ x(i) \in Int /\ y(i) \in Int /\ h(i) \in Int
    BY <1>4, <1>6
  <2> QED BY <2>1 DEF Box, Boxes
<1>8. b \in [1..n -> Boxes]
  BY <1>6, <1>7
<1>9. ASSUME NEW i \in 1..n PROVE Fit(b[i], Endless, Endless)
  <2>1. b[i].x \in Nat /\ b[i].y \in Nat
    BY <1>4, <1>7
  <2>2. b[i].x >= 0 /\ b[i].y >= 0
    BY ONLY <2>1
  <2> QED BY <2>2 DEF Fit
<1>10. ASSUME NEW i \in 1..n, NEW j \in 1..n, i < j PROVE Apart(b[i], b[j])
  <2>1. x(i) + 300 <= x(j) \/ y(i) + h(i) <= y(j) \/ y(j) + h(j) <= y(i)
    BY <1>5, <1>10
  <2>2. b[i].x + b[i].w <= b[j].x \/ b[i].y + b[i].h <= b[j].y \/ b[j].y + b[j].h <= b[i].y
    BY <1>7, <2>1
  <2> QED BY <2>2 DEF Apart
<1>11. Clear(b, Endless, Endless) /\ DOMAIN b = 1..n
  BY <1>3, <1>8, <1>9, <1>10, ClearBy
<1>12. Under(b, 338)
  BY <1>4, <1>7, <1>11 DEF Under
<1>13. LeftOf(b, 40 + width)
  BY <1>4, <1>7, <1>11 DEF LeftOf
<1> QED BY <1>2, <1>11, <1>12, <1>13

\* Beside the switches: the legend, the list of hosts that have no switch, the title block.
AreLegend(l, u, t, lx, tagsH, unplaced) ==
    LET below == 40 + 180 + tagsH
    IN  /\ l = <<Box(lx, 40, 360, 150 + tagsH)>>
        /\ u = (IF unplaced = 0 THEN <<>> ELSE <<Box(lx, below, 360, 30 + (1 + ShownHosts(unplaced, 40)) * 12)>>)
        /\ t = <<Box(lx, below + (IF unplaced = 0 THEN 0 ELSE 30 + (Least(unplaced, 40) + 3) * 12 + 20), TitleW, TitleH)>>
\* The legend, the title block and the hosts without a port below one another.
LEMMA LegendClear ==
    ASSUME NEW lx \in Nat, NEW tagsH \in Nat, NEW unplaced \in Nat,
           NEW l, NEW u, NEW t, AreLegend(l, u, t, lx, tagsH, unplaced)
    PROVE  /\ Clear(l, Endless, Endless) /\ Clear(u, Endless, Endless) /\ Clear(t, Endless, Endless)
           /\ Across(l, u) /\ Across(l, t) /\ Across(t, u)
           /\ RightOf(l, lx) /\ RightOf(u, lx) /\ RightOf(t, lx)
           /\ l \in Seq(Boxes) /\ u \in Seq(Boxes) /\ t \in Seq(Boxes)
<1> DEFINE k == ShownHosts(unplaced, 40)
           named == Least(unplaced, 40)
           below == 40 + 180 + tagsH
           lh == 150 + tagsH
           uh == 30 + (1 + k) * 12
           far == below + (IF unplaced = 0 THEN 0 ELSE 30 + (named + 3) * 12 + 20)
<1>1. k \in Nat /\ named \in Nat /\ k <= named + 1
  BY DEF ShownHosts, Least
<1>2. l = <<Box(lx, 40, 360, lh)>> /\ t = <<Box(lx, far, 1000, 208)>>
  BY DEF AreLegend, TitleW, TitleH
<1>3. (unplaced = 0 => u = <<>>) /\ (unplaced # 0 => u = <<Box(lx, below, 360, uh)>>)
  BY DEF AreLegend
<1>4. uh \in Nat /\ (unplaced = 0 => far = below) /\ (unplaced # 0 => far = below + (30 + (named + 3) * 12 + 20))
  <2> HIDE DEF k
  <2> QED BY <1>1
<1>5. uh = 30 + (1 + k) * 12
  OBVIOUS
<1>6. below = 220 + tagsH /\ lh = 150 + tagsH
  OBVIOUS
<1> HIDE DEF k, named, lh, uh, far, below
<1>7. below \in Nat /\ lh \in Nat /\ far \in Nat /\ 40 + lh <= below /\ below <= far /\ (unplaced # 0 => below + uh <= far)
  <2>1. CASE unplaced = 0
    BY <1>4, <1>6, <2>1
  <2>2. CASE unplaced # 0
    BY <1>1, <1>4, <1>5, <1>6, <2>2
  <2> QED BY <2>1, <2>2
<1>8. Clear(l, Endless, Endless) /\ Over(l, below) /\ RightOf(l, lx)
  <2>1. IsOne(l, lx, 40, 360, lh) /\ Room(lx + 360, Endless) /\ Room(40 + lh, Endless) /\ lx <= lx
    BY <1>2, <1>7 DEF IsOne, Room
  <2> QED BY <1>7, <2>1, OneBox
<1>9. Clear(t, Endless, Endless) /\ Under(t, far) /\ Under(t, below) /\ RightOf(t, lx)
  <2>1. IsOne(t, lx, far, 1000, 208) /\ Room(lx + 1000, Endless) /\ Room(far + 208, Endless) /\ lx <= lx /\ far <= far
    BY <1>2, <1>7 DEF IsOne, Room
  <2> QED BY <1>7, <2>1, OneBox
<1>10. Clear(u, Endless, Endless) /\ Under(u, below) /\ Over(u, far) /\ RightOf(u, lx)
  <2>1. CASE unplaced = 0
    <3>1. u = <<>>
      BY <1>3, <2>1
    <3>2. Clear(<<>>, Endless, Endless)
      BY ClearFew
    <3>3. Under(<<>>, below) /\ Over(<<>>, far) /\ RightOf(<<>>, lx)
      BY ONLY OneIs
    <3> QED BY ONLY <3>1, <3>2, <3>3, Zenon
  <2>2. CASE unplaced # 0
    <3>1. IsOne(u, lx, below, 360, uh) /\ Room(lx + 360, Endless) /\ Room(below + uh, Endless) /\ lx <= lx /\ below <= below
          /\ below + uh <= far
      BY <1>3, <1>4, <1>7, <2>2 DEF IsOne, Room
    <3> QED BY <3>1, OneBox
  <2> QED BY <2>1, <2>2
<1>11. l \in Seq(Boxes) /\ u \in Seq(Boxes) /\ t \in Seq(Boxes)
  BY <1>8, <1>9, <1>10 DEF Clear
<1>12. Parted(l, u, below) /\ Parted(l, t, below) /\ Parted(t, u, far)
  <2>1. below \in Int /\ far \in Int
    BY <1>7
  <2> QED BY <1>8, <1>9, <1>10, <1>11, <2>1 DEF Parted
<1> QED BY <1>8, <1>9, <1>10, <1>11, <1>12, Divided

\* The rows of the page, and how wide it is.
LEMMA RowsLevelled ==
    ASSUME NEW q, VlanOf(q), NEW most, IsMost(q, most)
    PROVE  LET width == Largest([l \in 1..most |-> RowWide(q, l)], 530 + 200 + 80)
               high  == [l \in 1..most |-> LevelH(q, l)]
           IN  Levelled(q, width, high) /\ width \in Nat /\ 810 <= width
<1> DEFINE ws == [l \in 1..most |-> RowWide(q, l)]
           width == Largest(ws, 530 + 200 + 80)
           high == [l \in 1..most |-> LevelH(q, l)]
<1>1. most \in Nat /\ \A i \in 1..Len(q.switches) : LevelOf(q.switches[i]) \in 1..most
  BY MostLevels
<1>2. \A l \in 1..most : RowWide(q, l) \in Int
  <2> SUFFICES ASSUME NEW l \in 1..most PROVE RowWide(q, l) \in Int
    OBVIOUS
  <2> DEFINE t == Total(InLevel(q, l))
  <2>1. t \in Nat
    BY InLevelIs
  <2>2. RowWide(q, l) = t * 340 - 40
    BY DEF RowWide
  <2> HIDE DEF t
  <2> QED BY ONLY <2>1, <2>2
<1>3. \A l \in 1..most : LevelH(q, l) \in Nat
  BY LevelHIs
<1>4. ws \in [1..most -> Int] /\ high \in [1..most -> Nat] /\ (\A l \in 1..most : ws[l] = RowWide(q, l))
      /\ \A l \in 1..most : high[l] = LevelH(q, l)
  BY <1>2, <1>3
<1> HIDE DEF ws, high
<1>5. ws \in Seq(Int) /\ high \in Seq(Nat) /\ Len(high) = most /\ DOMAIN ws = 1..most
  BY <1>1, <1>4, FunctionIsSeq
<1>6. width \in Int /\ 810 <= width /\ \A l \in 1..most : ws[l] <= width
  <2> DEFINE least == 530 + 200 + 80
  <2>1. least \in Int /\ least = 810
    OBVIOUS
  <2>2. width = Largest(ws, least)
    OBVIOUS
  <2> HIDE DEF least, width
  <2>3. Largest(ws, least) \in Int /\ least <= Largest(ws, least)
        /\ \A l \in DOMAIN ws : ws[l] <= Largest(ws, least)
    <3>1. ws \in Seq(Int) /\ least \in Int
      BY ONLY <1>5, <2>1
    <3>2. /\ Largest(ws, least) \in Int /\ least <= Largest(ws, least)
          /\ \A i \in DOMAIN ws : ws[i] <= Largest(ws, least)
          /\ Largest(ws, least) = least \/ \E i \in DOMAIN ws : Largest(ws, least) = ws[i]
      BY ONLY <3>1, LargestIs, Zenon
    <3> QED BY ONLY <3>2, Zenon
  <2>4. width \in Int /\ least <= width /\ \A l \in 1..most : ws[l] <= width
    BY ONLY <1>5, <2>2, <2>3
  <2> QED BY <2>1, <2>4
<1> HIDE DEF width
<1>7. width \in Nat
  BY <1>6
<1>8. Levelled(q, width, high)
  BY <1>1, <1>4, <1>5, <1>6, <1>7 DEF Levelled
<1> QED BY <1>6, <1>7, <1>8 DEF width, ws, high

\* Apart is mutual.
LEMMA AcrossSwap ==
    ASSUME NEW a \in Seq(Boxes), NEW b \in Seq(Boxes)
    PROVE  Across(a, b) => Across(b, a)
<1>1. \A p \in Boxes : \A r \in Boxes : Apart(p, r) => Apart(r, p)
  BY DEF Boxes, Apart
<1>2. (\A i \in DOMAIN a : a[i] \in Boxes) /\ \A i \in DOMAIN b : b[i] \in Boxes
  BY LenProperties
<1> QED BY <1>1, <1>2 DEF Across

\* The two symbols above the switches, and the legend.
LEMMA VlanPageTidy ==
    ASSUME NEW q, VlanOf(q)
    PROVE  Tidy(VlanPage(q))
<1> DEFINE levels == 1..Max({1} \cup {LevelOf(sw) : sw \in Elements(q.switches)})
           rowW(l) == Total(InLevel(q, l)) * 340 - 40
           width  == Largest([l \in levels |-> rowW(l)], 530 + 200 + 80)
           fx     == 40 + (width - 530) \div 2
           high   == [l \in levels |-> LevelH(q, l)]
           tagsH  == IF q.tags = 0 THEN 0 ELSE 14 * (q.tags + 1)
           below  == 40 + 180 + tagsH
           named  == Least(q.unplaced, 40)
           lx     == 40 + width + 60
           a  == <<Box(fx + 350, 40, 200, 90)>>
           c  == <<Box(fx, 180, 530, 78)>>
           ac == <<Box(fx + 350, 40, 200, 90), Box(fx, 180, 530, 78)>>
           l  == <<Box(lx, 40, 360, 150 + tagsH)>>
           t  == <<Box(lx, below + (IF q.unplaced = 0 THEN 0 ELSE 30 + (named + 3) * 12 + 20), TitleW, TitleH)>>
           lt == <<Box(lx, 40, 360, 150 + tagsH),
                   Box(lx, below + (IF q.unplaced = 0 THEN 0 ELSE 30 + (named + 3) * 12 + 20), TitleW, TitleH)>>
           u  == IF q.unplaced = 0 THEN <<>>
                 ELSE <<Box(lx, below, 360, 30 + (1 + ShownHosts(q.unplaced, 40)) * 12)>>
           block(sw, i) ==
             Box(40 + (width - rowW(LevelOf(sw))) \div 2 + From(InLevel(q, LevelOf(sw)), 0, i) * 340,
                 338 + From(high, 0, LevelOf(sw)), 300, BlockH(sw))
           b == [i \in DOMAIN q.switches |-> block(q.switches[i], i)]
<1>1. VlanPage(q) = Frame(Endless, Endless, ((ac \o lt) \o u) \o b)
  BY DEF VlanPage
<1>2. q.unplaced \in Nat /\ q.tags \in Nat
  BY DEF VlanOf
<1>3. Levelled(q, width, high) /\ width \in Nat /\ 810 <= width
  <2> DEFINE most == Max({1} \cup {LevelOf(sw) : sw \in Elements(q.switches)})
  <2>1. IsMost(q, most)
    BY DEF IsMost
  <2>2. \A k : rowW(k) = RowWide(q, k)
    BY DEF RowWide
  <2>3. width = Largest([k \in 1..most |-> RowWide(q, k)], 530 + 200 + 80)
    BY <2>2, ZenonT(60)
  <2>4. high = [k \in 1..most |-> LevelH(q, k)]
    OBVIOUS
  <2> HIDE DEF most, width, high
  <2> QED BY <2>1, <2>3, <2>4, RowsLevelled, SMTT(60)
<1>4. AreBlocks(b, q, width, high)
  <2> HIDE DEF width, high
  <2>1. \A i \in DOMAIN q.switches : block(q.switches[i], i) = Box(BlockX(q, width, i), BlockY(q, high, i), 300, BlockH(q.switches[i]))
    BY DEF BlockX, BlockY, Ahead, HalfOf, RowWide
  <2> HIDE DEF block
  <2> QED BY <1>3, <2>1 DEF AreBlocks
<1>5. fx = 40 + HalfOf(width - 530)
  BY DEF HalfOf
<1>6. ac = a \o c /\ lt = l \o t
  <2> DEFINE p == Box(fx + 350, 40, 200, 90)
             r == Box(fx, 180, 530, 78)
             v == Box(lx, 40, 360, 150 + tagsH)
             w == Box(lx, below + (IF q.unplaced = 0 THEN 0 ELSE 30 + (named + 3) * 12 + 20), TitleW, TitleH)
  <2> HIDE DEF p, r, v, w
  <2>1. <<p>> \o <<r>> = <<p, r>> /\ <<v>> \o <<w>> = <<v, w>>
    BY Paired
  <2> QED BY <2>1 DEF p, r, v, w
<1> HIDE DEF block, b, width, high, ac, lt
<1>7. tagsH \in Nat
  BY <1>2
<1>8. fx \in Nat /\ fx + 550 <= lx /\ lx \in Nat /\ 40 + width <= lx
  <2> DEFINE d == HalfOf(width - 530)
  <2>1. width - 530 \in Nat
    BY <1>3
  <2>2. d \in Nat /\ d <= width - 530
    BY <2>1, HalfIs
  <2>3. fx = 40 + d /\ lx = 40 + width + 60
    BY <1>5
  <2> HIDE DEF d, fx, lx
  <2> QED BY ONLY <1>3, <2>2, <2>3
<1> HIDE DEF fx, tagsH
<1>9. /\ Clear(l, Endless, Endless) /\ Clear(u, Endless, Endless) /\ Clear(t, Endless, Endless)
      /\ Across(l, u) /\ Across(l, t) /\ Across(t, u)
      /\ RightOf(l, lx) /\ RightOf(u, lx) /\ RightOf(t, lx)
      /\ l \in Seq(Boxes) /\ u \in Seq(Boxes) /\ t \in Seq(Boxes)
  <2>1. AreLegend(l, u, t, lx, tagsH, q.unplaced)
    BY DEF AreLegend
  <2>2. q.unplaced \in Nat /\ lx \in Nat
    BY <1>2, <1>8
  <2> HIDE DEF lx, l, t, u
  <2> QED BY ONLY <1>7, <2>1, <2>2, LegendClear
<1> HIDE DEF l, t, u, lx
<1>10. Clear(b, Endless, Endless) /\ Under(b, 338) /\ LeftOf(b, 40 + width) /\ b \in Seq(Boxes)
  BY <1>4, BlocksClear DEF Clear
<1>11. LeftOf(b, lx)
  <2>1. 40 + width \in Int /\ lx \in Int
    BY <1>3, <1>8
  <2> QED BY <1>8, <1>10, <2>1, OverMore
<1>12. Clear(a, Endless, Endless) /\ Over(a, 180) /\ Over(a, 338) /\ LeftOf(a, lx)
  <2>1. IsOne(a, fx + 350, 40, 200, 90)
    BY <1>8 DEF IsOne
  <2>2. Room((fx + 350) + 200, Endless) /\ Room(40 + 90, Endless) /\ 40 + 90 <= 180 /\ 40 + 90 <= 338 /\ (fx + 350) + 200 <= lx
    BY <1>8 DEF Room
  <2> HIDE DEF a
  <2> QED BY <2>1, <2>2, OneBox
<1>13. Clear(c, Endless, Endless) /\ Under(c, 180) /\ Over(c, 338) /\ LeftOf(c, lx)
  <2>1. IsOne(c, fx, 180, 530, 78)
    BY <1>8 DEF IsOne
  <2>2. Room(fx + 530, Endless) /\ Room(180 + 78, Endless) /\ 180 <= 180 /\ 180 + 78 <= 338 /\ fx + 530 <= lx
    BY <1>8 DEF Room
  <2> HIDE DEF c
  <2> QED BY <2>1, <2>2, OneBox
<1> HIDE DEF a, c
<1>14. a \in Seq(Boxes) /\ c \in Seq(Boxes) /\ lx \in Int
  BY <1>8, <1>12, <1>13 DEF Clear
<1>15. Across(a, c) /\ Across(a, b) /\ Across(c, b)
  <2>1. Parted(a, c, 180) /\ Parted(a, b, 338) /\ Parted(c, b, 338)
    BY <1>10, <1>12, <1>13, <1>14 DEF Parted
  <2> QED BY <2>1, Divided
<1>16. Across(a, l) /\ Across(a, t) /\ Across(a, u) /\ Across(c, l) /\ Across(c, t) /\ Across(c, u)
  <2>1. Parted(a, l, lx) /\ Parted(a, t, lx) /\ Parted(a, u, lx)
    BY <1>9, <1>12, <1>14 DEF Parted
  <2>2. Parted(c, l, lx) /\ Parted(c, t, lx) /\ Parted(c, u, lx)
    BY <1>9, <1>13, <1>14 DEF Parted
  <2> QED BY <2>1, <2>2, Divided
<1>17. Across(l, b) /\ Across(t, b) /\ Across(u, b)
  <2>1. Parted(l, b, lx) /\ Parted(t, b, lx) /\ Parted(u, b, lx)
    BY <1>9, <1>10, <1>11, <1>14 DEF Parted
  <2> QED BY <2>1, Divided
<1>18. Clear(ac, Endless, Endless) /\ ac \in Seq(Boxes)
  <2>1. Clear(a \o c, Endless, Endless)
    BY <1>12, <1>13, <1>15, ClearJoin
  <2> QED BY <1>6, <2>1 DEF Clear
<1>19. Clear(lt, Endless, Endless) /\ lt \in Seq(Boxes)
  <2>1. Clear(l \o t, Endless, Endless)
    BY <1>9, ClearJoin
  <2> QED BY <1>6, <2>1 DEF Clear
<1>20. Across(ac, l) /\ Across(ac, t) /\ Across(ac, u) /\ Across(ac, b)
  BY <1>6, <1>14, <1>15, <1>16, AcrossJoin
<1>21. Across(lt, u) /\ Across(lt, b)
  BY <1>6, <1>9, <1>17, AcrossJoin
<1>22. Across(ac, lt)
  <2>1. Across(l, ac) /\ Across(t, ac)
    BY <1>9, <1>18, <1>20, AcrossSwap
  <2>2. Across(lt, ac)
    BY <1>6, <1>9, <2>1, AcrossJoin
  <2> QED BY <1>18, <1>19, <2>2, AcrossSwap
<1>23. Clear(ac \o lt, Endless, Endless) /\ ac \o lt \in Seq(Boxes)
  <2>1. Clear(ac \o lt, Endless, Endless)
    BY <1>18, <1>19, <1>22, ClearJoin
  <2> QED BY <2>1 DEF Clear
<1>24. Across(ac \o lt, u) /\ Across(ac \o lt, b)
  BY <1>18, <1>19, <1>20, <1>21, AcrossJoin
<1>25. Clear((ac \o lt) \o u, Endless, Endless) /\ (ac \o lt) \o u \in Seq(Boxes)
  <2>1. Clear((ac \o lt) \o u, Endless, Endless)
    BY <1>9, <1>23, <1>24, ClearJoin
  <2> QED BY <2>1 DEF Clear
<1>26. Across((ac \o lt) \o u, b)
  BY <1>9, <1>17, <1>23, <1>24, AcrossJoin
<1>27. Clear(((ac \o lt) \o u) \o b, Endless, Endless)
  BY <1>10, <1>25, <1>26, ClearJoin
<1> QED BY <1>1, <1>27, TidyFrame

\* Everything drawn of the switches of a VLAN.
LEMMA VlanTidy ==
    ASSUME NEW q, VlanOf(q), NEW f \in VlanSheet(q)
    PROVE  Tidy(f)
<1>1. CASE f = VlanPage(q)
  BY <1>1, VlanPageTidy
<1>2. CASE \E sw \in Elements(q.switches) : f \in BlockFrames(sw)
  BY <1>2, SwitchesAre, BlockTidy
<1>3. f = VlanPage(q) \/ \E sw \in Elements(q.switches) : f \in BlockFrames(sw)
  BY DEF VlanSheet
<1> QED BY <1>1, <1>2, <1>3

ClassOf == {"pc", "server", "switch"}
VdomNets  == Seq(Seq(ClassOf))

\* Two sets without a common element.
LEMMA Disjoint ==
    ASSUME NEW S, IsFiniteSet(S), NEW T, IsFiniteSet(T), S \cap T = {}
    PROVE  IsFiniteSet(S \cup T) /\ Cardinality(S \cup T) = Cardinality(S) + Cardinality(T)
<1>1. Cardinality(S \cap T) = 0
  BY FS_EmptySet
<1>2. Cardinality(S) \in Nat /\ Cardinality(T) \in Nat
  BY FS_CardinalityType
<1>3. /\ IsFiniteSet(S \cup T)
      /\ Cardinality(S \cup T) = Cardinality(S) + Cardinality(T) - Cardinality(S \cap T)
  BY FS_Union
<1> QED BY <1>1, <1>2, <1>3

\* Every host of a net is a PC, a server or a switch.
LEMMA HostsCounted ==
    ASSUME NEW net \in Seq(ClassOf)
    PROVE  /\ IsFiniteSet(Drawn(net)) /\ Cardinality(Drawn(net)) \in Nat
           /\ Count(net, "pc") \in Nat /\ Count(net, "server") \in Nat /\ Count(net, "switch") \in Nat
           /\ Cardinality(Drawn(net)) = Count(net, "pc") + Count(net, "server")
           /\ Len(net) = Cardinality(Drawn(net)) + Count(net, "switch")
           /\ Cardinality(Classes(net)) \in Nat /\ Cardinality(Classes(net)) <= Cardinality(Drawn(net))
<1> DEFINE D == DOMAIN net
           P == {i \in D : net[i] = "pc"}
           R == {i \in D : net[i] = "server"}
           W == {i \in D : net[i] = "switch"}
           N == Drawn(net)
<1>1. Len(net) \in Nat /\ D = 1..Len(net) /\ \A i \in D : net[i] \in ClassOf
  BY LenProperties
<1>2. IsFiniteSet(D) /\ Cardinality(D) = Len(net)
  <2>1. 1 \in Int /\ Len(net) \in Int
    BY <1>1
  <2>2. IsFiniteSet(1..Len(net)) /\ Cardinality(1..Len(net)) = IF 1 > Len(net) THEN 0 ELSE Len(net) - 1 + 1
    BY <2>1, FS_Interval
  <2>3. (IF 1 > Len(net) THEN 0 ELSE Len(net) - 1 + 1) = Len(net)
    BY <1>1
  <2> QED BY <1>1, <2>2, <2>3
<1>3. P \cup R = N /\ N \cup W = D /\ P \cap R = {} /\ N \cap W = {} /\ N \in SUBSET D
  BY <1>1 DEF Drawn, ClassOf
<1>4. P \in SUBSET D /\ R \in SUBSET D /\ W \in SUBSET D
  OBVIOUS
<1>5. Count(net, "pc") = Cardinality(P) /\ Count(net, "server") = Cardinality(R) /\ Count(net, "switch") = Cardinality(W)
  BY DEF Count
<1>6. Classes(net) = {net[i] : i \in N}
  BY DEF Classes
<1> HIDE DEF D, P, R, W, N
<1>7. IsFiniteSet(P) /\ IsFiniteSet(R) /\ IsFiniteSet(W) /\ IsFiniteSet(N)
  BY <1>2, <1>3, <1>4, FS_Subset
<1>8. Cardinality(P) \in Nat /\ Cardinality(R) \in Nat /\ Cardinality(W) \in Nat /\ Cardinality(N) \in Nat
  BY <1>7, FS_CardinalityType
<1>9. Cardinality(N) = Cardinality(P) + Cardinality(R)
  BY <1>3, <1>7, Disjoint
<1>10. Len(net) = Cardinality(N) + Cardinality(W)
  BY <1>2, <1>3, <1>7, Disjoint
<1>11. IsFiniteSet({net[i] : i \in N}) /\ Cardinality({net[i] : i \in N}) <= Cardinality(N)
  BY <1>7, ImageFinite
<1>12. Cardinality(Classes(net)) \in Nat /\ Cardinality(Classes(net)) <= Cardinality(N)
  BY <1>6, <1>11, FS_CardinalityType
<1> QED BY <1>5, <1>7, <1>8, <1>9, <1>10, <1>12 DEF N

\* A band is wide enough for each of its nets.
LEMMA BandWIs ==
    ASSUME NEW nets \in VdomNets, NEW net \in Elements(nets)
    PROVE  /\ net \in Seq(ClassOf) /\ CellsOf(net) \in Nat /\ BandW(nets) \in Nat
           /\ 890 <= BandW(nets) /\ CellsOf(net) * 136 + 346 <= BandW(nets)
<1> DEFINE E == Elements(nets)
           f == [x \in E |-> Cardinality(Drawn(x))]
           S == {f[x] : x \in E}
           T == {4} \cup S
           m == Max(T)
           c == CellsOf(net)
<1>1. IsFiniteSet(E) /\ \A x \in E : x \in Seq(ClassOf)
  BY ElementsFinite DEF VdomNets
<1>2. \A x \in E : Cardinality(Drawn(x)) \in Nat
  BY <1>1, HostsCounted
<1>3. S \subseteq Nat /\ Cardinality(Drawn(net)) \in S
  BY <1>2
<1>4. BandW(nets) = m * 136 + 250 + 96
  <2>1. {Cardinality(Drawn(x)) : x \in E} = S
    OBVIOUS
  <2> HIDE DEF S
  <2> QED BY <2>1 DEF BandW
<1>5. IsFiniteSet(S)
  <2> HIDE DEF f, E
  <2> QED BY <1>1, ImageFinite
<1> HIDE DEF S, E
<1>6. T \subseteq Int /\ T # {} /\ 4 \in T /\ Cardinality(Drawn(net)) \in T /\ IsFiniteSet(T)
  <2>1. IsFiniteSet({4})
    BY FS_Singleton
  <2>2. IsFiniteSet(T)
    BY ONLY <1>5, <2>1, FS_Union
  <2> QED BY <1>3, <2>2
<1> HIDE DEF T
<1>7. m \in T /\ \A x \in T : x <= m
  BY ONLY <1>6, MaxIs
<1>8. c \in Nat /\ c <= Cardinality(Drawn(net))
  <2>1. net \in Seq(ClassOf)
    BY <1>1 DEF E
  <2> HIDE DEF c
  <2>2. CASE Grouped(net)
    <3>1. c = Cardinality(Classes(net))
      BY <2>2 DEF c, CellsOf
    <3> QED BY <2>1, <3>1, HostsCounted
  <2>3. CASE ~Grouped(net)
    <3>1. c = Cardinality(Drawn(net))
      BY <2>3 DEF c, CellsOf
    <3> QED BY <2>1, <3>1, HostsCounted
  <2> QED BY <2>2, <2>3
<1> DEFINE d == Cardinality(Drawn(net))
<1>9. m \in Int /\ 4 <= m /\ d <= m /\ d \in Int
  BY <1>6, <1>7
<1> HIDE DEF d, m, c
<1>10. c <= m
  BY <1>8, <1>9 DEF d
<1>11. m * 136 + 250 + 96 \in Nat /\ 890 <= m * 136 + 250 + 96 /\ c * 136 + 346 <= m * 136 + 250 + 96
  BY ONLY <1>8, <1>9, <1>10
<1>12. net \in Seq(ClassOf)
  BY <1>1 DEF E
<1> QED BY <1>4, <1>8, <1>11, <1>12 DEF c

\* The hosts above their bar.
AreCells(s, net) ==
    s = [k \in 1..CellsOf(net) |->
            LET hy == IF k % 2 = 1 THEN 0 ELSE 60
            IN  IF Grouped(net) THEN Box(24 + (k - 1) * 136 + 6, hy, 120, 46)
                ELSE Box(24 + (k - 1) * 136, hy, 136, 46)]

\* The hosts over the bar of a net in two heights lie apart.
LEMMA CellsClear ==
    ASSUME NEW net, CellsOf(net) \in Nat, NEW s, AreCells(s, net), NEW w \in Nat, CellsOf(net) * 136 + 346 <= w
    PROVE  Clear(s, w, 180) /\ Over(s, 110)
<1> DEFINE c == CellsOf(net)
           y(k) == IF k % 2 = 1 THEN 0 ELSE 60
           x(k) == IF Grouped(net) THEN 24 + (k - 1) * 136 + 6 ELSE 24 + (k - 1) * 136
           v == IF Grouped(net) THEN 120 ELSE 136
<1>1. c \in Nat
  OBVIOUS
<1>2. s = [k \in 1..c |-> Box(x(k), y(k), v, 46)]
  <2>1. \A k \in 1..c : (LET hy == IF k % 2 = 1 THEN 0 ELSE 60
                         IN  IF Grouped(net) THEN Box(24 + (k - 1) * 136 + 6, hy, 120, 46)
                             ELSE Box(24 + (k - 1) * 136, hy, 136, 46)) = Box(x(k), y(k), v, 46)
    OBVIOUS
  <2> QED BY <2>1 DEF AreCells
<1>3. \A k \in 1..c : y(k) = 0 \/ y(k) = 60
  OBVIOUS
<1>4. /\ \A k \in 1..c : x(k) \in Nat /\ 24 + Stride(k, 136) <= x(k) /\ x(k) + v <= 24 + Stride(k, 136) + 136
      /\ v \in Nat
  <2> SUFFICES ASSUME NEW k \in 1..c
               PROVE  x(k) \in Nat /\ 24 + Stride(k, 136) <= x(k) /\ x(k) + v <= 24 + Stride(k, 136) + 136
    OBVIOUS
  <2>1. k \in Nat /\ 1 <= k
    BY <1>1
  <2>2. CASE Grouped(net)
    <3>1. x(k) = 24 + (k - 1) * 136 + 6 /\ v = 120
      BY <2>2
    <3> HIDE DEF x, v
    <3> QED BY ONLY <2>1, <3>1 DEF Stride
  <2>3. CASE ~Grouped(net)
    <3>1. x(k) = 24 + (k - 1) * 136 /\ v = 136
      BY <2>3
    <3> HIDE DEF x, v
    <3> QED BY ONLY <2>1, <3>1 DEF Stride
  <2> QED BY <2>2, <2>3
<1>5. w \in Int /\ 24 + Stride(c + 1, 136) <= w
  <2>1. c * 136 + 346 <= w /\ w \in Nat
    OBVIOUS
  <2> HIDE DEF c
  <2> QED BY ONLY <1>1, <2>1 DEF Stride
<1> HIDE DEF c, x, y, v
<1>6. ASSUME NEW k \in 1..c
      PROVE  s[k] \in Boxes /\ s[k].x = x(k) /\ s[k].y = y(k) /\ s[k].w = v /\ s[k].h = 46
  <2>1. s[k] = Box(x(k), y(k), v, 46) /\ x(k) \in Int /\ y(k) \in Int /\ v \in Int /\ 46 \in Int
    BY <1>2, <1>3, <1>4
  <2> QED BY <2>1 DEF Box, Boxes
<1>7. s \in [1..c -> Boxes]
  BY <1>2, <1>6
<1>8. \A k \in 1..c : /\ 24 + Stride(k, 136) <= s[k].x /\ s[k].x + s[k].w <= 24 + Stride(k, 136) + 136
                      /\ 0 <= s[k].y /\ s[k].y + s[k].h <= 106
  BY <1>3, <1>4, <1>6
<1>9. OnPaces(c, 136, s, 24, 0, 106, w, 180)
  <2>1. 136 \in Nat /\ 24 \in Nat /\ 0 \in Nat /\ {106, w, 180} \subseteq Int /\ 106 <= 180
    BY <1>5
  <2> QED BY <1>1, <1>5, <1>7, <1>8, <2>1 DEF OnPaces
<1>10. Clear(s, w, 180) /\ \A i \in DOMAIN s : s[i].y + s[i].h <= 106
  BY <1>9, StepsAlong
<1>11. Over(s, 106) /\ s \in Seq(Boxes)
  BY <1>10 DEF Over, Clear
<1>12. Over(s, 110)
  <2>1. 106 \in Int /\ 110 \in Int /\ 106 <= 110
    OBVIOUS
  <2> QED BY <1>11, <2>1, OverMore
<1> QED BY <1>10, <1>12

\* A net of the logical plan: hosts, bar and name; a class too many is told by its number.
LEMMA NetRowTidy ==
    ASSUME NEW nets \in VdomNets, NEW net \in Elements(nets)
    PROVE  Tidy(NetRow(nets, net))
<1> DEFINE s == [k \in 1..CellsOf(net) |->
                   LET hy == IF k % 2 = 1 THEN 0 ELSE 60
                   IN  IF Grouped(net) THEN Box(24 + (k - 1) * 136 + 6, hy, 120, 46)
                       ELSE Box(24 + (k - 1) * 136, hy, 136, 46)]
           a == <<Box(24, 122, BarW(net), 14)>>
           b == <<Box(24 + BarW(net) + 8, 110, 250, 40)>>
           ab == <<Box(24, 122, BarW(net), 14), Box(24 + BarW(net) + 8, 110, 250, 40)>>
           w == BandW(nets)
           c == CellsOf(net)
           v == BarW(net)
           told == (IF Grouped(net) THEN Count(net, "pc") + Count(net, "server") ELSE CellsOf(net)) + Count(net, "switch")
<1>1. NetRow(nets, net) = List(w, 180, s \o ab, Len(net), told)
  BY DEF NetRow
<1>2. net \in Seq(ClassOf) /\ c \in Nat /\ w \in Nat /\ 890 <= w /\ c * 136 + 346 <= w
  BY BandWIs
<1>3. Len(net) = told
  <2>1. /\ Cardinality(Drawn(net)) = Count(net, "pc") + Count(net, "server")
        /\ Len(net) = Cardinality(Drawn(net)) + Count(net, "switch")
    BY <1>2, HostsCounted
  <2>2. CASE Grouped(net)
    BY <2>1, <2>2
  <2>3. CASE ~Grouped(net)
    BY <2>1, <2>3 DEF CellsOf
  <2> QED BY <2>2, <2>3
<1>4. AreCells(s, net)
  BY DEF AreCells
<1>5. v = IF c * 136 + 24 > 420 THEN c * 136 + 24 ELSE 420
  BY DEF BarW, Greater
<1>6. ab = a \o b
  <2> DEFINE p == Box(24, 122, BarW(net), 14)
             r == Box(24 + BarW(net) + 8, 110, 250, 40)
  <2> HIDE DEF p, r
  <2>1. <<p>> \o <<r>> = <<p, r>>
    BY Paired
  <2> QED BY <2>1 DEF p, r
<1>7. a = <<Box(24, 122, v, 14)>> /\ b = <<Box(24 + v + 8, 110, 250, 40)>>
  OBVIOUS
<1> HIDE DEF s, a, b, ab, w, v, told
<1>8. Clear(s, w, 180) /\ Over(s, 110) /\ s \in Seq(Boxes)
  BY <1>2, <1>4, CellsClear DEF Clear
<1> HIDE DEF c
<1>9. v \in Nat /\ v + 282 <= w
  BY ONLY <1>2, <1>5
<1>10. Clear(a, w, 180) /\ Under(a, 110) /\ LeftOf(a, 24 + v + 8)
  <2>1. IsOne(a, 24, 122, v, 14)
    BY <1>7, <1>9 DEF IsOne
  <2>2. Room(24 + v, w) /\ Room(122 + 14, 180) /\ 110 <= 122 /\ 24 + v <= 24 + v + 8
    BY <1>2, <1>9 DEF Room
  <2> QED BY <2>1, <2>2, OneBox
<1>11. Clear(b, w, 180) /\ Under(b, 110) /\ RightOf(b, 24 + v + 8)
  <2>1. IsOne(b, 24 + v + 8, 110, 250, 40)
    BY <1>7, <1>9 DEF IsOne
  <2>2. Room((24 + v + 8) + 250, w) /\ Room(110 + 40, 180) /\ 110 <= 110 /\ 24 + v + 8 <= 24 + v + 8
    BY <1>2, <1>9 DEF Room
  <2> QED BY <2>1, <2>2, OneBox
<1>12. a \in Seq(Boxes) /\ b \in Seq(Boxes)
  BY <1>10, <1>11 DEF Clear
<1>13. Across(a, b) /\ Across(s, a) /\ Across(s, b)
  <2>1. 110 \in Int /\ 24 + v + 8 \in Int
    BY <1>9
  <2>2. Parted(a, b, 24 + v + 8) /\ Parted(s, a, 110) /\ Parted(s, b, 110)
    BY <1>8, <1>10, <1>11, <1>12, <2>1 DEF Parted
  <2> QED BY <2>2, Divided
<1>14. Clear(ab, w, 180) /\ ab \in Seq(Boxes)
  <2>1. Clear(a \o b, w, 180)
    BY <1>10, <1>11, <1>13, ClearJoin
  <2> QED BY <1>6, <2>1 DEF Clear
<1>15. Across(s, ab)
  <2>1. Across(a, s) /\ Across(b, s)
    BY <1>8, <1>12, <1>13, AcrossSwap
  <2>2. Across(ab, s)
    BY <1>6, <1>12, <2>1, AcrossJoin
  <2> QED BY <1>8, <1>14, <2>2, AcrossSwap
<1>16. Clear(s \o ab, w, 180)
  BY <1>8, <1>14, <1>15, ClearJoin
<1> QED BY <1>1, <1>3, <1>16, TidyFrame

\* A question about the logical plan.
LogicalOf(q) == q.vdoms \in Seq(VdomNets)

\* The rows of a band.
LEMMA RowHsAre ==
    ASSUME NEW q, NEW nets \in VdomNets
    PROVE  /\ RowHs(q, nets) \in Seq(Nat) /\ Len(RowHs(q, nets)) = Len(nets) /\ Len(nets) \in Nat
           /\ \A i \in Bands(q, nets) : i \in 1..Len(nets) /\ RowHs(q, nets)[i] = 180
           /\ Total(RowHs(q, nets)) \in Nat /\ BandH(q, nets) \in Nat
           /\ 238 <= BandH(q, nets) /\ 58 + Total(RowHs(q, nets)) <= BandH(q, nets)
<1> DEFINE n == Len(nets)
           hs == RowHs(q, nets)
           t == Total(hs)
           B == Bands(q, nets)
<1>1. n \in Nat /\ DOMAIN nets = 1..n
  BY LenProperties DEF VdomNets
<1>2. hs = [i \in 1..n |-> IF i \in B THEN 180 ELSE 0]
  BY <1>1 DEF RowHs
<1>3. B \subseteq 1..n
  BY <1>1 DEF Bands
<1>4. BandH(q, nets) = 34 + 24 + Greater(180, t)
  BY DEF BandH
<1> HIDE DEF n, hs, B
<1>5. hs \in [1..n -> Nat] /\ \A i \in B : i \in 1..n /\ hs[i] = 180
  BY <1>2, <1>3
<1>6. hs \in Seq(Nat) /\ Len(hs) = n
  BY <1>1, <1>5, FunctionIsSeq
<1>7. t \in Nat
  BY <1>6, TotalIs
<1> HIDE DEF t
<1>8. BandH(q, nets) \in Nat /\ 238 <= BandH(q, nets) /\ 58 + t <= BandH(q, nets)
  BY ONLY <1>4, <1>7 DEF Greater
<1> QED BY <1>1, <1>5, <1>6, <1>7, <1>8 DEF n, hs, t, B

\* A row begins below where the one before it ends, and all are within the sum.
LEMMA RowsFollow ==
    ASSUME NEW hs \in Seq(Nat), NEW i \in 1..Len(hs)
    PROVE  /\ From(hs, 0, i) \in Nat /\ From(hs, 0, i) + hs[i] <= Total(hs)
           /\ \A j \in 1..Len(hs) : i < j => From(hs, 0, i) + hs[i] <= From(hs, 0, j)
<1>1. Len(hs) \in Nat /\ hs[i] \in Nat /\ 0 \in Nat
  BY LenProperties
<1>2. i \in 1..Len(hs) + 1 /\ Len(hs) + 1 \in 1..Len(hs) + 1 /\ i < Len(hs) + 1
  BY <1>1
<1>3. \A j \in 1..Len(hs) + 1 : From(hs, 0, j) \in Nat
  BY <1>1, FromIs
<1>4. ASSUME NEW j \in 1..Len(hs) + 1, i < j PROVE From(hs, 0, i) + hs[i] <= From(hs, 0, j)
  <2> DEFINE a == From(hs, 0, i)
             b == From(hs, 0, j)
  <2>1. a + hs[i] + 0 <= b
    BY <1>1, <1>4, FromGrows
  <2>2. a \in Nat /\ b \in Nat
    BY <1>2, <1>3
  <2> HIDE DEF a, b
  <2>3. a + hs[i] <= b
    BY ONLY <1>1, <2>1, <2>2
  <2> QED BY <2>3 DEF a, b
<1>5. From(hs, 0, i) + hs[i] <= Total(hs)
  BY <1>2, <1>4 DEF Total
<1>6. \A j \in 1..Len(hs) : j \in 1..Len(hs) + 1
  BY <1>1
<1> QED BY <1>2, <1>3, <1>4, <1>5, <1>6

\* The band of a VDOM: its nets below one another.
LEMMA BandTidy ==
    ASSUME NEW q, NEW nets \in VdomNets, BandW(nets) \in Nat
    PROVE  Tidy(BandFrame(q, nets))
<1> DEFINE w == BandW(nets)
           h == BandH(q, nets)
           hs == RowHs(q, nets)
           B == Bands(q, nets)
           at(i) == From(hs, 0, i)
           s == [i \in B |-> Box(0, 58 + at(i), w, 180)]
           t == Total(hs)
<1>1. BandFrame(q, nets) = Frame(w, h, s)
  BY DEF BandFrame
<1>2. /\ hs \in Seq(Nat) /\ \A i \in B : i \in 1..Len(hs) /\ hs[i] = 180
      /\ t \in Nat /\ h \in Nat /\ 58 + t <= h
  BY RowHsAre
<1>3. w \in Nat
  OBVIOUS
<1>4. \A i \in B : at(i) \in Nat /\ at(i) + 180 <= t /\ \A j \in B : i < j => at(i) + 180 <= at(j)
  <2> SUFFICES ASSUME NEW i \in B
               PROVE  at(i) \in Nat /\ at(i) + 180 <= t /\ \A j \in B : i < j => at(i) + 180 <= at(j)
    OBVIOUS
  <2>1. i \in 1..Len(hs) /\ hs[i] = 180 /\ hs \in Seq(Nat) /\ \A j \in B : j \in 1..Len(hs)
    BY <1>2
  <2>2. /\ From(hs, 0, i) \in Nat /\ From(hs, 0, i) + hs[i] <= Total(hs)
        /\ \A j \in 1..Len(hs) : i < j => From(hs, 0, i) + hs[i] <= From(hs, 0, j)
    BY ONLY <2>1, RowsFollow
  <2> HIDE DEF hs, B
  <2> QED BY <2>1, <2>2
<1>5. \A i \in B : i \in Int
  BY <1>2
<1> HIDE DEF w, h, hs, B, at, t
<1>6. ASSUME NEW i \in B
      PROVE  s[i] \in Boxes /\ s[i].x = 0 /\ s[i].y = 58 + at(i) /\ s[i].w = w /\ s[i].h = 180
  <2>1. s[i] = Box(0, 58 + at(i), w, 180) /\ 58 + at(i) \in Int /\ w \in Int /\ 0 \in Int /\ 180 \in Int
    BY <1>3, <1>4
  <2> HIDE DEF s
  <2> QED BY <2>1 DEF Box, Boxes
<1>7. DOMAIN s = B
  OBVIOUS
<1> HIDE DEF s
<1>8. ASSUME NEW i \in B PROVE Fit(s[i], w, h)
  <2>1. at(i) \in Nat /\ at(i) + 180 <= t /\ t \in Nat /\ h \in Nat /\ 58 + t <= h /\ w \in Nat
    BY <1>2, <1>3, <1>4
  <2>2. 58 + at(i) >= 0 /\ (58 + at(i)) + 180 <= h /\ 0 + w <= w
    BY ONLY <2>1
  <2>3. s[i].x >= 0 /\ s[i].y >= 0 /\ s[i].x + s[i].w <= w /\ s[i].y + s[i].h <= h
    BY <1>6, <2>2
  <2> QED BY <2>3 DEF Fit
<1>9. ASSUME NEW i \in B, NEW j \in B, i < j PROVE s[i].y + s[i].h <= s[j].y
  <2>1. at(i) \in Nat /\ at(j) \in Nat /\ at(i) + 180 <= at(j)
    BY <1>4, <1>9
  <2>2. (58 + at(i)) + 180 <= 58 + at(j)
    BY ONLY <2>1
  <2> QED BY <1>6, <2>2
<1>10. ASSUME NEW i \in B, NEW j \in B, i # j PROVE Apart(s[i], s[j])
  <2>1. i < j \/ j < i
    BY <1>5, <1>10
  <2> QED BY <1>9, <2>1 DEF Apart
<1>11. Tidy(Frame(w, h, s))
  BY <1>7, <1>8, <1>10 DEF Tidy, Frame, Fit, InFrame
<1> QED BY <1>1, <1>11

\* The bands of the page.
LEMMA BandsAre ==
    ASSUME NEW q, LogicalOf(q)
    PROVE  /\ BandHs(q) \in Seq(Nat)
           /\ \A v \in BandsShown(q) :
                /\ v \in 1..Len(BandHs(q)) /\ BandHs(q)[v] = BandH(q, q.vdoms[v]) + 24
                /\ q.vdoms[v] \in VdomNets /\ BandW(q.vdoms[v]) \in Nat
                /\ BandH(q, q.vdoms[v]) \in Nat /\ 238 <= BandH(q, q.vdoms[v])
<1> DEFINE n == Len(q.vdoms)
           S == BandsShown(q)
           hs == BandHs(q)
<1>1. n \in Nat /\ DOMAIN q.vdoms = 1..n /\ \A v \in 1..n : q.vdoms[v] \in VdomNets
  BY LenProperties DEF LogicalOf
<1>2. hs = [v \in 1..n |-> IF v \in S THEN BandH(q, q.vdoms[v]) + 24 ELSE 0]
  BY <1>1 DEF BandHs
<1>3. S \subseteq 1..n /\ \A v \in S : Bands(q, q.vdoms[v]) # {}
  BY <1>1 DEF BandsShown
<1>4. \A v \in 1..n : BandH(q, q.vdoms[v]) \in Nat /\ 238 <= BandH(q, q.vdoms[v])
  BY <1>1, RowHsAre
<1>5. ASSUME NEW v \in S PROVE BandW(q.vdoms[v]) \in Nat
  <2>1. q.vdoms[v] \in VdomNets
    BY <1>1, <1>3
  <2>2. PICK i \in Bands(q, q.vdoms[v]) : TRUE
    BY <1>3
  <2>3. q.vdoms[v][i] \in Elements(q.vdoms[v])
    BY <2>2 DEF Bands, Elements
  <2> QED BY <2>1, <2>3, BandWIs
<1> HIDE DEF n, S, hs
<1>6. \A v \in 1..n : BandH(q, q.vdoms[v]) + 24 \in Nat
  BY <1>4
<1>7. hs \in [1..n -> Nat] /\ \A v \in S : hs[v] = BandH(q, q.vdoms[v]) + 24
  BY <1>2, <1>3, <1>6
<1>8. hs \in Seq(Nat) /\ Len(hs) = n
  BY <1>1, <1>7, FunctionIsSeq
<1> QED BY <1>1, <1>3, <1>4, <1>5, <1>7, <1>8 DEF S, hs

\* A band and the firewall beside it, and those of the next.
LEMMA PlacesApart ==
    ASSUME NEW y \in Nat, NEW z \in Nat, NEW h \in Nat, 238 <= h, y + (h + 24) <= z
    PROVE  (40 + y) + h <= 40 + z /\ (40 + y) + h <= (40 + z) + 42
           /\ ((40 + y) + 42) + 40 <= 40 + z /\ ((40 + y) + 42) + 40 <= (40 + z) + 42
OBVIOUS

\* The bands of the VDOMs and the firewall beside each.
LEMMA LogicalPageTidy ==
    ASSUME NEW q, LogicalOf(q)
    PROVE  Tidy(LogicalPage(q))
<1> DEFINE S == BandsShown(q)
           D == S \X {"band", "firewall"}
           hs == BandHs(q)
           at(v) == From(hs, 0, v)
           w(v) == BandW(q.vdoms[v])
           h(v) == BandH(q, q.vdoms[v])
           s == [p \in D |->
                   LET y == 40 + From(hs, 0, p[1])
                   IN  IF p[2] = "band" THEN Box(56 + 40, y, BandW(q.vdoms[p[1]]), BandH(q, q.vdoms[p[1]]))
                       ELSE Box(0, y + 42, 56, 40)]
<1>1. LogicalPage(q) = Frame(Endless, Endless, s)
  BY DEF LogicalPage
<1>2. hs \in Seq(Nat) /\ \A v \in S : /\ v \in 1..Len(hs) /\ hs[v] = h(v) + 24
                                      /\ w(v) \in Nat /\ h(v) \in Nat /\ 238 <= h(v)
  BY BandsAre
<1>3. ASSUME NEW v \in S
      PROVE  v \in Int /\ at(v) \in Nat /\ \A u \in S : v < u => at(v) + (h(v) + 24) <= at(u)
  <2>1. v \in 1..Len(hs) /\ hs[v] = h(v) + 24 /\ hs \in Seq(Nat) /\ \A u \in S : u \in 1..Len(hs)
    BY <1>2
  <2> HIDE DEF hs, S, h
  <2>2. /\ From(hs, 0, v) \in Nat
        /\ \A u \in 1..Len(hs) : v < u => From(hs, 0, v) + hs[v] <= From(hs, 0, u)
    BY ONLY <2>1, RowsFollow
  <2> QED BY <2>1, <2>2
<1>4. ASSUME NEW v \in S, NEW p \in D, p[1] = v
      PROVE  /\ p[2] = "band" => s[p] = Box(96, 40 + at(v), w(v), h(v))
             /\ p[2] # "band" => s[p] = Box(0, (40 + at(v)) + 42, 56, 40)
  BY <1>4
<1>5. \A p \in D : p[1] \in S /\ p[2] \in {"band", "firewall"} /\ p = <<p[1], p[2]>>
  OBVIOUS
<1>6. DOMAIN s = D
  OBVIOUS
<1> HIDE DEF S, D, hs, at, w, h, s
<1>7. ASSUME NEW p \in D
      PROVE  /\ p[2] = "band" => /\ s[p].x = 96 /\ s[p].y = 40 + at(p[1])
                                 /\ s[p].w = w(p[1]) /\ s[p].h = h(p[1])
             /\ p[2] # "band" => /\ s[p].x = 0 /\ s[p].y = (40 + at(p[1])) + 42
                                 /\ s[p].w = 56 /\ s[p].h = 40
  <2>1. p[1] \in S
    BY <1>5
  <2>2. /\ p[2] = "band" => s[p] = Box(96, 40 + at(p[1]), w(p[1]), h(p[1]))
        /\ p[2] # "band" => s[p] = Box(0, (40 + at(p[1])) + 42, 56, 40)
    BY <1>4, <2>1
  <2>3. \A a, b, c, d : Box(a, b, c, d).x = a /\ Box(a, b, c, d).y = b /\ Box(a, b, c, d).w = c /\ Box(a, b, c, d).h = d
    BY DEF Box
  <2>4. CASE p[2] = "band"
    BY <2>2, <2>3, <2>4
  <2>5. CASE p[2] # "band"
    BY <2>2, <2>3, <2>5
  <2> QED BY <2>4, <2>5
<1>8. ASSUME NEW p \in D PROVE Fit(s[p], Endless, Endless)
  <2>1. at(p[1]) \in Nat
    BY <1>3, <1>5
  <2>2. 96 >= 0 /\ 0 >= 0 /\ 40 + at(p[1]) >= 0 /\ (40 + at(p[1])) + 42 >= 0
    BY ONLY <2>1
  <2>3. s[p].x >= 0 /\ s[p].y >= 0
    BY <1>7, <2>2
  <2> QED BY <2>3 DEF Fit
<1>9. ASSUME NEW p \in D, NEW r \in D, p[1] < r[1] PROVE s[p].y + s[p].h <= s[r].y
  <2> DEFINE y == at(p[1])
             z == at(r[1])
             k == h(p[1])
  <2>1. y \in Nat /\ z \in Nat /\ k \in Nat /\ 238 <= k /\ y + (k + 24) <= z
    BY <1>2, <1>3, <1>5, <1>9
  <2>2. /\ p[2] = "band" => s[p].y = 40 + y /\ s[p].h = k
        /\ p[2] # "band" => s[p].y = (40 + y) + 42 /\ s[p].h = 40
        /\ r[2] = "band" => s[r].y = 40 + z
        /\ r[2] # "band" => s[r].y = (40 + z) + 42
    BY <1>7
  <2> HIDE DEF y, z, k
  <2>3. (40 + y) + k <= 40 + z /\ (40 + y) + k <= (40 + z) + 42
        /\ ((40 + y) + 42) + 40 <= 40 + z /\ ((40 + y) + 42) + 40 <= (40 + z) + 42
    BY ONLY <2>1, PlacesApart
  <2> QED BY ONLY <2>2, <2>3
<1>10. ASSUME NEW p \in D, NEW r \in D, p[1] = r[1], p[2] # "band", r[2] = "band" PROVE s[p].x + s[p].w <= s[r].x
  <2>1. s[p].x = 0 /\ s[p].w = 56 /\ s[r].x = 96
    BY <1>7, <1>10
  <2> QED BY ONLY <2>1
<1>11. ASSUME NEW p \in D, NEW r \in D, p # r PROVE Apart(s[p], s[r])
  <2>1. p[1] < r[1] \/ r[1] < p[1] \/ p[1] = r[1]
    <3>1. p[1] \in Int /\ r[1] \in Int
      BY <1>3, <1>5
    <3> QED BY ONLY <3>1
  <2>2. p[1] = r[1] => (p[2] # "band" /\ r[2] = "band") \/ (p[2] = "band" /\ r[2] # "band")
    BY <1>5, <1>11
  <2>3. CASE p[1] < r[1]
    BY <1>9, <2>3 DEF Apart
  <2>4. CASE r[1] < p[1]
    BY <1>9, <2>4 DEF Apart
  <2>5. CASE p[1] = r[1]
    BY <1>10, <2>2, <2>5 DEF Apart
  <2> QED BY <2>1, <2>3, <2>4, <2>5
<1>12. Tidy(Frame(Endless, Endless, s))
  BY <1>6, <1>8, <1>11 DEF Tidy, Frame, Fit, InFrame
<1> QED BY <1>1, <1>12

\* Everything drawn of the logical plan.
LEMMA LogicalTidy ==
    ASSUME NEW q, LogicalOf(q), NEW f \in Logical(q)
    PROVE  Tidy(f)
<1>1. \A v \in BandsShown(q) : q.vdoms[v] \in VdomNets /\ BandW(q.vdoms[v]) \in Nat
  BY BandsAre
<1>2. \A v \in BandsShown(q) : \A i \in Bands(q, q.vdoms[v]) : q.vdoms[v][i] \in Elements(q.vdoms[v])
  BY DEF Bands, Elements
<1>3. \/ f = LogicalPage(q)
      \/ \E v \in BandsShown(q) : f = BandFrame(q, q.vdoms[v])
      \/ \E v \in BandsShown(q) : \E i \in Bands(q, q.vdoms[v]) : f = NetRow(q.vdoms[v], q.vdoms[v][i])
  BY DEF Logical
<1>4. CASE f = LogicalPage(q)
  BY <1>4, LogicalPageTidy
<1>5. CASE \E v \in BandsShown(q) : f = BandFrame(q, q.vdoms[v])
  BY <1>1, <1>5, BandTidy
<1>6. CASE \E v \in BandsShown(q) : \E i \in Bands(q, q.vdoms[v]) : f = NetRow(q.vdoms[v], q.vdoms[v][i])
  BY <1>1, <1>2, <1>6, NetRowTidy
<1> QED BY <1>3, <1>4, <1>5, <1>6

\* A question about the LLDP topology: 0 is no device, but stands for the title block.
InfraOf(q) == IsFiniteSet(q.known) /\ q.known \subseteq Nat \ {0}

\* The devices drawn are finitely many, and every neighbour is one of them.
LEMMA NodesAre ==
    ASSUME NEW q, InfraOf(q)
    PROVE  /\ IsFiniteSet(Nodes(q)) /\ Nodes(q) \subseteq Nat \ {0}
           /\ \A n : Adjacent(q, n) \subseteq Nodes(q)
<1>1. Nodes(q) \subseteq q.known
  BY DEF Nodes, InfraEdges
<1>2. IsFiniteSet(Nodes(q))
  BY <1>1, FS_Subset DEF InfraOf
<1>3. \A n : Adjacent(q, n) \subseteq Nodes(q)
  BY DEF Adjacent, Nodes
<1> QED BY <1>1, <1>2, <1>3 DEF InfraOf

\* The device to begin at: of those with the most neighbours the last one.
LEMMA RootIs ==
    ASSUME NEW q, InfraOf(q), NEW rest \in SUBSET Nodes(q), rest # {}
    PROVE  Root(q, rest) \in rest
<1> DEFINE degree(n) == Cardinality(Adjacent(q, n))
           d == [n \in rest |-> degree(n)]
           D == {d[n] : n \in rest}
           most == Max(D)
           T == {n \in rest : degree(n) = most}
           r == Max(T)
<1>1. IsFiniteSet(rest) /\ rest \subseteq Int
  <2>1. IsFiniteSet(Nodes(q)) /\ Nodes(q) \subseteq Int
    BY NodesAre
  <2> QED BY <2>1, FS_Subset
<1>2. \A n \in rest : degree(n) \in Nat
  <2> SUFFICES ASSUME NEW n \in rest PROVE degree(n) \in Nat
    OBVIOUS
  <2>1. IsFiniteSet(Adjacent(q, n))
    BY NodesAre, FS_Subset
  <2> QED BY <2>1, FS_CardinalityType
<1>3. /\ D \subseteq Int /\ D # {} /\ (\A n \in rest : degree(n) \in D) /\ \A x \in D : \E n \in rest : degree(n) = x
  BY <1>2
<1>4. IsFiniteSet(D)
  <2> HIDE DEF d
  <2> QED BY <1>1, ImageFinite
<1> HIDE DEF D, d
<1>5. most \in D /\ \A x \in D : x <= most
  BY ONLY <1>3, <1>4, MaxIs
<1> HIDE DEF most
<1>6. T # {} /\ T \in SUBSET rest
  BY <1>3, <1>5
<1>7. IsFiniteSet(T) /\ T \subseteq Int
  BY <1>1, <1>6, FS_Subset
<1>8. r \in T /\ \A x \in T : x <= r
  <2> HIDE DEF T
  <2> QED BY ONLY <1>6, <1>7, MaxIs
<1> HIDE DEF r
<1>9. r \in rest /\ degree(r) = most /\ \A n \in rest : degree(n) = most => n <= r
  BY <1>8
<1> HIDE DEF T
<1>10. \A m \in rest : degree(r) > degree(m) \/ (degree(r) = degree(m) /\ r >= m)
  <2> SUFFICES ASSUME NEW m \in rest PROVE degree(r) > degree(m) \/ (degree(r) = degree(m) /\ r >= m)
    OBVIOUS
  <2>1. degree(m) \in Nat /\ degree(m) <= most /\ degree(r) = most /\ degree(r) \in Nat /\ r \in Int /\ m \in Int
    BY <1>1, <1>2, <1>3, <1>5, <1>9
  <2>2. degree(m) = most => m <= r
    BY <1>9
  <2> HIDE DEF degree
  <2> QED BY ONLY <2>1, <2>2
<1> HIDE DEF degree
<1>11. \E n \in rest : \A m \in rest : degree(n) > degree(m) \/ (degree(n) = degree(m) /\ n >= m)
  BY <1>9, <1>10
<1> QED BY <1>11 DEF Root, degree

PlaceOf == [row : Nat \ {0}, col : Nat]
\* Each device has a place of its own in its row, from the left without a gap at the end.
WellPlaced(at) ==
    \A n \in DOMAIN at :
      /\ at[n].col < Cardinality(InRow(at, at[n].row))
      /\ \A m \in DOMAIN at : m # n /\ at[m].row = at[n].row => at[m].col # at[n].col

\* Counting those before it gives each element of a finite set a place of its own.
LEMMA FewerBefore ==
    ASSUME NEW S, IsFiniteSet(S), S \subseteq Nat, NEW n \in S
    PROVE  /\ Cardinality({m \in S : m < n}) \in Nat /\ Cardinality(S) \in Nat
           /\ Cardinality({m \in S : m < n}) < Cardinality(S)
           /\ \A k \in S : n < k => Cardinality({m \in S : m < n}) < Cardinality({m \in S : m < k})
<1> DEFINE T(k) == {m \in S : m < k}
<1>1. ASSUME NEW k \in S PROVE IsFiniteSet(T(k)) /\ Cardinality(T(k)) \in Nat
  BY FS_Subset, FS_CardinalityType
<1>2. Cardinality(S) \in Nat
  BY FS_CardinalityType
<1>3. ASSUME NEW A, NEW B, IsFiniteSet(B), A \in SUBSET B, n \in B, n \notin A PROVE Cardinality(A) < Cardinality(B)
  <2>1. Cardinality(A) <= Cardinality(B) /\ (Cardinality(B) = Cardinality(A) => B = A) /\ IsFiniteSet(A)
    BY <1>3, FS_Subset
  <2>2. Cardinality(A) \in Nat /\ Cardinality(B) \in Nat /\ A # B
    BY <1>3, <2>1, FS_CardinalityType
  <2> QED BY <2>1, <2>2
<1>4. T(n) \in SUBSET S /\ n \notin T(n)
  OBVIOUS
<1>5. Cardinality(T(n)) < Cardinality(S)
  <2> HIDE DEF T
  <2> QED BY <1>3, <1>4
<1>6. ASSUME NEW k \in S, n < k PROVE Cardinality(T(n)) < Cardinality(T(k))
  <2>1. \A m \in S : m < n => m < k
    BY <1>6
  <2>2. T(n) \in SUBSET T(k) /\ n \in T(k)
    BY <1>6, <2>1
  <2>3. IsFiniteSet(T(k))
    BY <1>1
  <2> HIDE DEF T
  <2> QED BY <1>3, <1>4, <2>2, <2>3
<1> QED BY <1>1, <1>2, <1>5, <1>6

\* A level is put beside what its row has already: every place stays one device's own.
LEMMA AddRowKeeps ==
    ASSUME NEW D \in SUBSET Nat, IsFiniteSet(D), NEW level \in SUBSET Nat, IsFiniteSet(level), D \cap level = {},
           NEW at \in [D -> PlaceOf], WellPlaced(at), NEW row \in Nat \ {0}
    PROVE  AddRow(at, level, row) \in [D \cup level -> PlaceOf] /\ WellPlaced(AddRow(at, level, row))
<1> DEFINE new == AddRow(at, level, row)
           old == InRow(at, row)
           c == Cardinality(old)
           before(n) == Cardinality({m \in level : m < n})
           all == Cardinality(level)
<1>1. DOMAIN at = D /\ \A n \in D : at[n].row \in Nat \ {0} /\ at[n].col \in Nat /\ at[n] \in PlaceOf
  BY DEF PlaceOf
<1>2. old \in SUBSET D /\ IsFiniteSet(old) /\ old \cap level = {} /\ c \in Nat
  <2>1. old \in SUBSET D /\ old \cap level = {}
    BY <1>1 DEF InRow
  <2> HIDE DEF old
  <2> QED BY <2>1, FS_Subset, FS_CardinalityType
<1>3. /\ DOMAIN new = D \cup level
      /\ \A n \in D : new[n] = at[n]
      /\ \A n \in level : new[n] = [row |-> row, col |-> c + before(n)]
  BY <1>1 DEF AddRow
<1>4. ASSUME NEW n \in level
      PROVE  before(n) \in Nat /\ before(n) < all /\ all \in Nat /\ \A k \in level : n < k => before(n) < before(k)
  BY FewerBefore
<1>5. \A n \in level : new[n].row = row /\ new[n].col = c + before(n)
  <2> HIDE DEF new, c, before
  <2> QED BY <1>3
<1>6. \A r : r # row => InRow(new, r) = InRow(at, r)
  <2> HIDE DEF new
  <2> QED BY <1>1, <1>3, <1>5 DEF InRow
<1>7. InRow(new, row) = old \cup level
  <2> HIDE DEF new
  <2> QED BY <1>1, <1>3, <1>5 DEF InRow
<1>8. Cardinality(InRow(new, row)) = c + all
  <2> HIDE DEF old
  <2>1. Cardinality(old \cup level) = c + all
    BY <1>2, Disjoint
  <2> QED BY <1>7, <2>1
<1>9. new \in [D \cup level -> PlaceOf]
  <2> HIDE DEF c, before
  <2>1. \A n \in level : [row |-> row, col |-> c + before(n)] \in PlaceOf
    BY <1>2, <1>4 DEF PlaceOf
  <2>2. \A n \in D \cup level : new[n] \in PlaceOf
    BY <1>1, <1>3, <2>1
  <2>3. new = [n \in D \cup level |-> new[n]]
    BY <1>1 DEF AddRow
  <2> HIDE DEF new
  <2> QED BY <2>2, <2>3
<1> HIDE DEF new, old, c, before, all
<1>10. ASSUME NEW n \in D \cup level
       PROVE  /\ new[n].col < Cardinality(InRow(new, new[n].row))
              /\ \A m \in D \cup level : m # n /\ new[m].row = new[n].row => new[m].col # new[n].col
  <2>1. ASSUME NEW k \in D, NEW m \in level, new[k].row = row PROVE new[k].col < new[m].col
    <3>1. new[k] = at[k] /\ at[k].row = row /\ at[k].col < c /\ at[k].col \in Nat
      BY <1>1, <1>3, <2>1 DEF WellPlaced, c, old
    <3>2. new[m].col = c + before(m) /\ before(m) \in Nat /\ c \in Nat
      BY <1>2, <1>4, <1>5
    <3>3. at[k].col < c + before(m)
      BY ONLY <3>1, <3>2
    <3> QED BY <3>1, <3>2, <3>3
  <2>2. \A i \in D \cup level : new[i].col \in Nat
    BY <1>9 DEF PlaceOf
  <2>3. CASE n \in D
    <3>1. new[n] = at[n] /\ at[n].col < Cardinality(InRow(at, at[n].row)) /\ at[n].col \in Nat
      BY <1>1, <1>3, <2>3 DEF WellPlaced
    <3>2. new[n].col < Cardinality(InRow(new, new[n].row))
      <4>1. CASE at[n].row = row
        <5>1. all \in Nat /\ c \in Nat /\ at[n].col < c
          BY <1>2, <3>1, <4>1, FS_CardinalityType DEF all, c, old
        <5>2. at[n].col < c + all
          BY ONLY <3>1, <5>1
        <5> QED BY <1>8, <3>1, <4>1, <5>2
      <4>2. CASE at[n].row # row
        BY <1>6, <3>1, <4>2
      <4> QED BY <4>1, <4>2
    <3>3. ASSUME NEW m \in D \cup level, m # n, new[m].row = new[n].row PROVE new[m].col # new[n].col
      <4>1. CASE m \in D
        BY <1>1, <1>3, <2>3, <3>3, <4>1 DEF WellPlaced
      <4>2. CASE m \in level
        <5>1. new[n].row = row
          BY <1>5, <3>3, <4>2
        <5>2. new[n].col < new[m].col /\ new[n].col \in Nat /\ new[m].col \in Nat
          BY <2>1, <2>2, <2>3, <4>2, <5>1
        <5> QED BY ONLY <5>2
      <4> QED BY <4>1, <4>2
    <3> QED BY <3>2, <3>3
  <2>4. CASE n \in level
    <3>1. new[n].row = row /\ new[n].col = c + before(n) /\ before(n) \in Nat /\ before(n) < all /\ all \in Nat /\ c \in Nat
      BY <1>2, <1>4, <1>5, <2>4
    <3>2. c + before(n) < c + all
      BY ONLY <3>1
    <3>3. new[n].col < Cardinality(InRow(new, new[n].row))
      BY <1>8, <3>1, <3>2
    <3>4. ASSUME NEW m \in D \cup level, m # n, new[m].row = new[n].row PROVE new[m].col # new[n].col
      <4>1. CASE m \in D
        <5>1. new[m].col < new[n].col /\ new[n].col \in Nat /\ new[m].col \in Nat
          BY <2>1, <2>2, <2>4, <3>1, <3>4, <4>1
        <5> QED BY ONLY <5>1
      <4>2. CASE m \in level
        <5>1. n < m \/ m < n
          <6>1. n \in Nat /\ m \in Nat
            BY <2>4, <4>2
          <6> QED BY ONLY <6>1, <3>4
        <5>2. before(n) # before(m) /\ before(m) \in Nat /\ new[m].col = c + before(m)
          <6>1. before(m) \in Nat /\ (n < m => before(n) < before(m)) /\ (m < n => before(m) < before(n))
            BY <1>4, <2>4, <4>2
          <6>2. before(n) # before(m)
            BY ONLY <3>1, <5>1, <6>1
          <6> QED BY <1>5, <4>2, <6>1, <6>2
        <5>3. c + before(n) # c + before(m)
          BY ONLY <3>1, <5>2
        <5> QED BY <3>1, <5>2, <5>3
      <4> QED BY <4>1, <4>2
    <3> QED BY <3>3, <3>4
  <2> QED BY <2>3, <2>4
<1>11. WellPlaced(new)
  <2>1. DOMAIN new = D \cup level
    BY <1>3
  <2> QED BY <1>10, <2>1 DEF WellPlaced
<1> QED BY <1>9, <1>11 DEF new

\* How far the search has come: the devices seen, of them the level that has no place yet.
Walks(q) ==
    {st \in [seen : SUBSET Nodes(q), level : SUBSET Nodes(q), row : Nat \ {0},
             at : UNION {[D -> PlaceOf] : D \in SUBSET Nodes(q)}] :
       st.level \subseteq st.seen /\ DOMAIN st.at = st.seen \ st.level /\ WellPlaced(st.at)}
\* The rounds it still takes at most.
RoundsLeft(q, st) == 2 * Cardinality(Nodes(q) \ st.seen) + (IF st.level = {} THEN 0 ELSE 1)

\* A state of the search, put together.
LEMMA WalkIs ==
    ASSUME NEW q, NEW seen \in SUBSET Nodes(q), NEW level \in SUBSET seen, NEW row \in Nat \ {0},
           NEW at \in [seen \ level -> PlaceOf], WellPlaced(at)
    PROVE  [seen |-> seen, level |-> level, row |-> row, at |-> at] \in Walks(q)
<1> DEFINE st == [seen |-> seen, level |-> level, row |-> row, at |-> at]
<1>1. st.seen = seen /\ st.level = level /\ st.row = row /\ st.at = at
  OBVIOUS
<1>2. level \in SUBSET Nodes(q) /\ at \in UNION {[E -> PlaceOf] : E \in SUBSET Nodes(q)}
  OBVIOUS
<1>3. st \in [seen : SUBSET Nodes(q), level : SUBSET Nodes(q), row : Nat \ {0},
              at : UNION {[E -> PlaceOf] : E \in SUBSET Nodes(q)}]
  BY <1>2
<1>4. DOMAIN at = seen \ level
  OBVIOUS
<1> HIDE DEF st
<1>5. st \in Walks(q)
  BY <1>1, <1>3, <1>4 DEF Walks
<1> QED BY <1>5 DEF st

\* What a state of the search consists of.
LEMMA WalkHas ==
    ASSUME NEW q, NEW st \in Walks(q)
    PROVE  /\ st.seen \in SUBSET Nodes(q) /\ st.level \in SUBSET st.seen /\ st.row \in Nat \ {0}
           /\ st.at \in [st.seen \ st.level -> PlaceOf] /\ WellPlaced(st.at)
           /\ st = [seen |-> st.seen, level |-> st.level, row |-> st.row, at |-> st.at]
BY DEF Walks

\* Fewer devices are left when one more of them is seen.
LEMMA FewerLeft ==
    ASSUME NEW N, IsFiniteSet(N), NEW seen \in SUBSET N, NEW next \in SUBSET N, next \cap seen = {}, next # {}
    PROVE  /\ Cardinality(N \ seen) \in Nat /\ Cardinality(N \ (seen \cup next)) \in Nat
           /\ Cardinality(N \ (seen \cup next)) < Cardinality(N \ seen)
<1> DEFINE A == N \ (seen \cup next)
           B == N \ seen
<1>1. A \in SUBSET B /\ A # B /\ B \in SUBSET N /\ A \in SUBSET N
  OBVIOUS
<1>2. IsFiniteSet(A) /\ IsFiniteSet(B)
  BY <1>1, FS_Subset
<1> HIDE DEF A, B
<1>3. Cardinality(A) <= Cardinality(B) /\ (Cardinality(B) = Cardinality(A) => B = A)
  BY <1>1, <1>2, FS_Subset
<1>4. Cardinality(A) \in Nat /\ Cardinality(B) \in Nat
  BY <1>2, FS_CardinalityType
<1>5. Cardinality(A) < Cardinality(B)
  BY <1>1, <1>3, <1>4
<1> QED BY <1>4, <1>5 DEF A, B

\* A round of the search: a level is placed, or a further island is begun, or all is done.
LEMMA NextWalks ==
    ASSUME NEW q, InfraOf(q), NEW st \in Walks(q)
    PROVE  /\ NextLevel(q, st) \in Walks(q) /\ RoundsLeft(q, st) \in Nat /\ RoundsLeft(q, NextLevel(q, st)) \in Nat
           /\ RoundsLeft(q, NextLevel(q, st)) < RoundsLeft(q, st) \/ RoundsLeft(q, NextLevel(q, st)) = 0
<1> DEFINE N == Nodes(q)
           next == (UNION {Adjacent(q, n) : n \in st.level}) \ st.seen
           rest == N \ st.seen
           r == Root(q, rest)
           a == Cardinality(N \ st.seen)
           new == NextLevel(q, st)
<1>1. IsFiniteSet(N) /\ N \subseteq Nat \ {0} /\ \A n : Adjacent(q, n) \subseteq N
  BY NodesAre
<1>2. /\ st.seen \in SUBSET N /\ st.level \in SUBSET st.seen /\ st.row \in Nat \ {0}
      /\ st.at \in [st.seen \ st.level -> PlaceOf] /\ WellPlaced(st.at)
      /\ st = [seen |-> st.seen, level |-> st.level, row |-> st.row, at |-> st.at]
  BY WalkHas
<1>3. next \in SUBSET N /\ next \cap st.seen = {}
  BY <1>1
<1>4. a \in Nat
  <2>1. IsFiniteSet(N \ st.seen)
    BY <1>1, FS_Subset
  <2> QED BY <2>1, FS_CardinalityType
<1>5. /\ st.level # {} => new = [seen |-> st.seen \cup next, level |-> next, row |-> st.row + 1,
                                 at |-> AddRow(st.at, st.level, st.row)]
      /\ st.level = {} /\ rest # {} => new = [seen |-> st.seen \cup {r}, level |-> {r}, row |-> 1, at |-> st.at]
      /\ st.level = {} /\ rest = {} => new = st
  <2>1. /\ st.level # {} => new = [seen |-> st.seen \cup next, level |-> next, row |-> st.row + 1,
                                   at |-> AddRow(st.at, st.level, st.row)]
        /\ st.level = {} /\ rest # {} => new = [st EXCEPT !.seen = @ \cup {r}, !.level = {r}, !.row = 1]
        /\ st.level = {} /\ rest = {} => new = st
    BY Zenon DEF NextLevel
  <2>2. [st EXCEPT !.seen = @ \cup {r}, !.level = {r}, !.row = 1]
          = [seen |-> st.seen \cup {r}, level |-> {r}, row |-> 1, at |-> st.at]
    <3> DEFINE s == st.seen
               l == st.level
               w == st.row
               t == st.at
    <3>1. st = [seen |-> s, level |-> l, row |-> w, at |-> t]
      BY <1>2
    <3> HIDE DEF r, s, l, w, t
    <3>2. [st EXCEPT !.seen = @ \cup {r}, !.level = {r}, !.row = 1] = [seen |-> s \cup {r}, level |-> {r}, row |-> 1, at |-> t]
      <4>1. st \in [seen : {s}, level : {l}, row : {w}, at : {t}]
        BY ONLY <3>1
      <4>2. [st EXCEPT !.seen = @ \cup {r}, !.level = {r}, !.row = 1] \in [seen : {s \cup {r}}, level : {{r}}, row : {1}, at : {t}]
        BY ONLY <4>1
      <4>3. \A x \in [seen : {s \cup {r}}, level : {{r}}, row : {1}, at : {t}] : x = [seen |-> s \cup {r}, level |-> {r}, row |-> 1, at |-> t]
        OBVIOUS
      <4> QED BY ONLY <4>2, <4>3
    <3> QED BY <3>2 DEF s, t
  <2> QED BY <2>1, <2>2, Zenon
<1> HIDE DEF new, next, N
<1>6. RoundsLeft(q, st) = 2 * a + (IF st.level = {} THEN 0 ELSE 1) /\ RoundsLeft(q, st) \in Nat
  BY <1>4 DEF RoundsLeft, N
<1>7. CASE st.level # {}
  <2> DEFINE seen == st.seen \cup next
             D == st.seen \ st.level
             at == AddRow(st.at, st.level, st.row)
  <2>1. new.seen = seen /\ new.level = next /\ new = [seen |-> seen, level |-> next, row |-> st.row + 1, at |-> at]
    BY <1>5, <1>7
  <2>2. D \in SUBSET Nat /\ IsFiniteSet(D) /\ st.level \in SUBSET Nat /\ IsFiniteSet(st.level) /\ D \cap st.level = {}
    <3>1. D \in SUBSET N /\ st.level \in SUBSET N
      BY <1>2
    <3> QED BY <1>1, <3>1, FS_Subset
  <2>3. D \cup st.level = st.seen
    BY <1>2
  <2>4. at \in [st.seen -> PlaceOf] /\ WellPlaced(at)
    <3>1. at \in [D \cup st.level -> PlaceOf] /\ WellPlaced(at)
      <4> HIDE DEF D
      <4>1. st.at \in [D -> PlaceOf]
        BY <1>2 DEF D
      <4> QED BY <1>2, <2>2, <4>1, AddRowKeeps
    <3> QED BY <2>3, <3>1
  <2>5. seen \in SUBSET N /\ next \in SUBSET seen /\ st.seen = seen \ next /\ st.row + 1 \in Nat \ {0} /\ st.seen \in SUBSET N
    BY <1>2, <1>3
  <2> HIDE DEF seen, at
  <2>6. new \in Walks(q)
    <3>1. seen \in SUBSET Nodes(q) /\ next \in SUBSET seen /\ st.row + 1 \in Nat \ {0} /\ at \in [seen \ next -> PlaceOf]
      BY <2>4, <2>5 DEF N
    <3>2. [seen |-> seen, level |-> next, row |-> st.row + 1, at |-> at] \in Walks(q)
      BY ONLY <2>4, <3>1, WalkIs, Zenon
    <3> QED BY <2>1, <3>2
  <2>7. CASE next = {}
    <3>1. seen = st.seen
      BY <2>7 DEF seen
    <3>2. RoundsLeft(q, new) = 2 * a + 0 /\ RoundsLeft(q, st) = 2 * a + 1
      BY <1>6, <1>7, <2>1, <2>7, <3>1 DEF RoundsLeft, N
    <3>3. RoundsLeft(q, new) \in Nat /\ RoundsLeft(q, new) < RoundsLeft(q, st)
      BY <1>4, <3>2
    <3> QED BY <1>6, <2>6, <3>3 DEF new
  <2>8. CASE next # {}
    <3> DEFINE b == Cardinality(N \ seen)
    <3>1. b \in Nat /\ b < a
      BY <1>1, <1>2, <1>3, <2>8, FewerLeft DEF seen
    <3>2. RoundsLeft(q, new) = 2 * b + 1 /\ RoundsLeft(q, st) = 2 * a + 1
      BY <1>6, <1>7, <2>1, <2>8 DEF RoundsLeft, N
    <3> HIDE DEF b, a
    <3>3. 2 * b + 1 \in Nat /\ 2 * b + 1 < 2 * a + 1
      BY ONLY <1>4, <3>1
    <3>4. RoundsLeft(q, new) \in Nat /\ RoundsLeft(q, new) < RoundsLeft(q, st)
      BY <3>2, <3>3
    <3> QED BY <1>6, <2>6, <3>4 DEF new
  <2> QED BY <2>7, <2>8
<1>8. CASE st.level = {} /\ rest # {}
  <2> DEFINE seen == st.seen \cup {r}
             b == Cardinality(N \ seen)
  <2>1. r \in rest
    BY <1>2, <1>8, RootIs DEF N
  <2> HIDE DEF r
  <2>2. new.seen = seen /\ new.level = {r} /\ new = [seen |-> seen, level |-> {r}, row |-> 1, at |-> st.at]
    BY <1>5, <1>8
  <2>3. seen \in SUBSET N /\ {r} \in SUBSET seen /\ st.seen = seen \ {r} /\ 1 \in Nat \ {0} /\ {r} \in SUBSET N
        /\ {r} # {} /\ {r} \cap st.seen = {} /\ st.seen \in SUBSET N
    BY <1>2, <2>1
  <2>4. st.at \in [st.seen -> PlaceOf]
    <3>1. st.seen \ st.level = st.seen
      BY <1>8
    <3> QED BY <1>2, <3>1
  <2>5. new \in Walks(q)
    <3> HIDE DEF seen
    <3>1. seen \in SUBSET Nodes(q) /\ {r} \in SUBSET seen /\ 1 \in Nat \ {0} /\ st.at \in [seen \ {r} -> PlaceOf]
      BY <2>3, <2>4 DEF N
    <3>2. [seen |-> seen, level |-> {r}, row |-> 1, at |-> st.at] \in Walks(q)
      BY ONLY <1>2, <3>1, WalkIs, Zenon
    <3> QED BY <2>2, <3>2
  <2>6. b \in Nat /\ b < a
    BY <1>1, <2>3, FewerLeft
  <2>7. RoundsLeft(q, new) = 2 * b + 1 /\ RoundsLeft(q, st) = 2 * a + 0
    BY <1>6, <1>8, <2>2 DEF RoundsLeft, N
  <2> HIDE DEF b, a
  <2>8. 2 * b + 1 \in Nat /\ 2 * b + 1 < 2 * a + 0
    BY ONLY <1>4, <2>6
  <2>9. RoundsLeft(q, new) \in Nat /\ RoundsLeft(q, new) < RoundsLeft(q, st)
    BY <2>7, <2>8
  <2> QED BY <1>6, <2>5, <2>9 DEF new
<1>9. CASE st.level = {} /\ rest = {}
  <2>1. new = st
    BY <1>5, <1>9
  <2>2. a = 0
    BY <1>9, FS_EmptySet
  <2>3. RoundsLeft(q, new) = 0
    BY <1>6, <1>9, <2>1, <2>2
  <2> QED BY <1>6, <2>1, <2>3 DEF new
<1> QED BY <1>7, <1>8, <1>9

\* Every device has its place: twice as many rounds as devices are enough.
LEMMA LayersAre ==
    ASSUME NEW q, InfraOf(q)
    PROVE  Layers(q) \in [Nodes(q) -> PlaceOf] /\ WellPlaced(Layers(q))
<1> DEFINE last == 2 * Cardinality(Nodes(q))
           zero == [seen |-> {}, level |-> {}, row |-> 1, at |-> <<>>]
           W == Walks(q)
           Eq(u) == u = [k \in 0..last |-> IF k = 0 THEN zero ELSE NextLevel(q, u[k - 1])]
           run == CHOOSE u : Eq(u)
           step == [u \in W \X (0..last) |-> NextLevel(q, u[1])]
<1>1. Layers(q) = run[last].at
  BY DEF Layers
<1>2. last \in Nat /\ Cardinality(Nodes(q)) \in Nat
  BY NodesAre, FS_CardinalityType
<1>3. zero \in W
  <2>1. <<>> \in [{} -> PlaceOf] /\ {} = {} \ {} /\ {} \in SUBSET Nodes(q) /\ {} \in SUBSET {} /\ 1 \in Nat \ {0}
    OBVIOUS
  <2>2. WellPlaced(<<>>)
    BY DEF WellPlaced
  <2> QED BY <2>1, <2>2, WalkIs
<1>4. RoundsLeft(q, zero) = last
  <2>1. zero.seen = {} /\ zero.level = {} /\ Nodes(q) \ {} = Nodes(q)
    OBVIOUS
  <2> QED BY <1>2, <2>1 DEF RoundsLeft
<1>5. \A st \in W : /\ NextLevel(q, st) \in W /\ RoundsLeft(q, st) \in Nat /\ RoundsLeft(q, NextLevel(q, st)) \in Nat
                    /\ RoundsLeft(q, NextLevel(q, st)) < RoundsLeft(q, st) \/ RoundsLeft(q, NextLevel(q, st)) = 0
  BY NextWalks
<1> HIDE DEF zero, W, last
<1>6. PICK f \in [0..last -> W] : IsLoop(f, 0, last, zero, step)
  <2>1. step \in [W \X (0..last) -> W]
    BY <1>5
  <2>2. 0 \in Int /\ last \in Int /\ 0 <= last
    BY <1>2
  <2> HIDE DEF step
  <2> QED BY <1>3, <2>1, <2>2, Loop
<1>7. Eq(f)
  <2>1. f[0] = zero
    BY <1>6 DEF IsLoop
  <2>2. ASSUME NEW k \in 0..last, k # 0 PROVE f[k] = NextLevel(q, f[k - 1])
    <3>1. k \in 0 + 1..last /\ k - 1 \in 0..last
      BY <1>2, <2>2
    <3>2. f[k] = step[<<f[k - 1], k>>] /\ f[k - 1] \in W
      BY <1>6, <3>1 DEF IsLoop
    <3> QED BY <3>2
  <2> QED BY <1>6, <2>1, <2>2
<1> HIDE DEF Eq
<1>8. Eq(run)
  BY <1>7
<1> HIDE DEF run
<1>9. run[0] = zero /\ \A k \in 0..last : k # 0 => run[k] = NextLevel(q, run[k - 1])
  <2>1. \A k \in 0..last : run[k] = IF k = 0 THEN zero ELSE NextLevel(q, run[k - 1])
    BY <1>8, Zenon DEF Eq
  <2>2. 0 \in 0..last
    BY <1>2
  <2> QED BY <2>1, <2>2
<1> DEFINE T == {k \in 0..last : run[k] \in W /\ RoundsLeft(q, run[k]) <= last - k}
<1>10. 0 \in T /\ \A k \in 0..last : k \in T /\ k < last => k + 1 \in T
  <2>1. 0 \in T
    <3>1. 0 \in 0..last /\ last <= last - 0
      BY <1>2
    <3> QED BY <1>3, <1>4, <1>9, <3>1
  <2>2. ASSUME NEW k \in 0..last, k \in T, k < last PROVE k + 1 \in T
    <3>1. k + 1 \in 0..last /\ k + 1 # 0 /\ (k + 1) - 1 = k
      BY <1>2, <2>2
    <3>2. run[k + 1] = NextLevel(q, run[(k + 1) - 1])
      BY <1>9, <3>1
    <3>3. run[k + 1] = NextLevel(q, run[k])
      BY <3>1, <3>2
    <3> DEFINE d == RoundsLeft(q, run[k])
               e == RoundsLeft(q, run[k + 1])
    <3>4. run[k + 1] \in W /\ d \in Nat /\ e \in Nat /\ (e < d \/ e = 0) /\ d <= last - k
      BY <1>5, <2>2, <3>3
    <3> HIDE DEF d, e
    <3>5. e <= last - (k + 1)
      BY <1>2, <2>2, <3>4
    <3> QED BY <3>1, <3>4, <3>5 DEF e
  <2> QED BY <2>1, <2>2
<1>11. last \in T
  <2> HIDE DEF T
  <2> QED BY <1>2, <1>10, UpTo
<1> DEFINE st == run[last]
<1>12. st \in Walks(q) /\ RoundsLeft(q, st) = 0
  <2>1. st \in W /\ RoundsLeft(q, st) \in Nat /\ RoundsLeft(q, st) <= last - last
    BY <1>5, <1>11
  <2> HIDE DEF st
  <2> QED BY <1>2, <2>1 DEF W
<1> HIDE DEF st
<1>13. st.level = {} /\ st.seen = Nodes(q)
  <2> DEFINE c == Cardinality(Nodes(q) \ st.seen)
  <2>1. IsFiniteSet(Nodes(q) \ st.seen) /\ st.seen \subseteq Nodes(q)
    BY <1>12, NodesAre, FS_Subset, WalkHas
  <2>2. c \in Nat
    BY <2>1, FS_CardinalityType
  <2>3. 2 * c + (IF st.level = {} THEN 0 ELSE 1) = 0
    BY <1>12 DEF RoundsLeft
  <2>4. st.level = {} /\ c = 0
    <3> HIDE DEF c, st
    <3>1. CASE st.level = {}
      <4>1. 2 * c + 0 = 0
        BY <2>3, <3>1
      <4>2. c = 0
        BY ONLY <2>2, <4>1
      <4> QED BY <3>1, <4>2
    <3>2. CASE st.level # {}
      <4>1. 2 * c + 1 = 0
        BY <2>3, <3>2
      <4>2. FALSE
        BY ONLY <2>2, <4>1
      <4> QED BY <4>2
    <3> QED BY <3>1, <3>2
  <2>5. Nodes(q) \ st.seen = {}
    BY <2>1, <2>4, FS_EmptySet
  <2> QED BY <2>1, <2>4, <2>5
<1>14. st.at \in [Nodes(q) -> PlaceOf] /\ WellPlaced(st.at)
  <2>1. st.at \in [st.seen \ st.level -> PlaceOf] /\ WellPlaced(st.at)
    BY <1>12, WalkHas
  <2>2. st.seen \ st.level = Nodes(q)
    BY <1>13
  <2> QED BY <2>1, <2>2
<1> QED BY <1>1, <1>14 DEF st

\* Two devices of a row: a column of 200 takes the 72 of one.
LEMMA NextColumn ==
    ASSUME NEW half \in Nat, NEW c \in Nat, NEW d \in Nat, c < d
    PROVE  (40 + half + c * 200 + 64) + 72 <= 40 + half + d * 200 + 64
OBVIOUS

\* Two rows: a row of 190 takes the 40 of a device.
LEMMA NextRow ==
    ASSUME NEW r \in Nat \ {0}, NEW s \in Nat \ {0}, r < s
    PROVE  (60 + (r - 1) * 190) + 40 <= 60 + (s - 1) * 190
OBVIOUS

\* The right edge of a device, centred in the width of the widest row.
LEMMA InWidth ==
    ASSUME NEW half \in Nat, NEW c \in Nat, NEW n \in Nat, c < n, NEW width \in Nat,
           half <= width - n * 200
    PROVE  (40 + half + c * 200 + 64) + 72 <= 40 + width + 400
OBVIOUS

\* How wide the rows are, and how deep the last one lies.
LEMMA RowsAre ==
    ASSUME NEW N, IsFiniteSet(N), NEW at \in [N -> PlaceOf], NEW span, \A n \in N : span[n] \in Nat
    PROVE  /\ Max({200} \cup {span[n] : n \in N}) \in Nat
           /\ \A k \in N : span[k] <= Max({200} \cup {span[n] : n \in N})
           /\ Max({1} \cup {at[n].row : n \in N}) \in Nat
<1> DEFINE S == {span[n] : n \in N}
           rows == [n \in N |-> at[n].row]
           R == {rows[n] : n \in N}
           T == {200} \cup S
           U == {1} \cup R
<1>1. IsFiniteSet(S) /\ \A n \in N : span[n] \in S
  BY ImageFinite
<1>2. IsFiniteSet(R)
  <2> HIDE DEF rows
  <2> QED BY ImageFinite
<1>3. R = {at[n].row : n \in N} /\ R \subseteq Nat /\ S \subseteq Nat
  BY DEF PlaceOf
<1> HIDE DEF S, R, rows
<1>4. IsFiniteSet(T) /\ IsFiniteSet(U) /\ T \subseteq Nat /\ U \subseteq Nat /\ T # {} /\ U # {} /\ S \subseteq T
  <2>1. IsFiniteSet({200}) /\ IsFiniteSet({1})
    BY ONLY FS_Singleton
  <2>2. IsFiniteSet(T) /\ IsFiniteSet(U)
    BY ONLY <1>1, <1>2, <2>1, FS_Union
  <2> QED BY <1>3, <2>2
<1> HIDE DEF T, U
<1>5. T \subseteq Int /\ U \subseteq Int
  BY <1>4
<1>6. Max(T) \in T /\ (\A x \in T : x <= Max(T)) /\ Max(U) \in U
  BY ONLY <1>4, <1>5, MaxIs
<1>7. Max(T) \in Nat /\ Max(U) \in Nat /\ \A n \in N : span[n] <= Max(T)
  BY <1>1, <1>4, <1>6
<1>8. T = {200} \cup {span[n] : n \in N} /\ U = {1} \cup {at[n].row : n \in N}
  BY <1>3 DEF S, T, U
<1> QED BY <1>7, <1>8

\* The page of the LLDP topology: every device at its place, the title block beside them.
LEMMA InfraTidy ==
    ASSUME NEW q, InfraOf(q)
    PROVE  Tidy(InfraPage(q))
<1> DEFINE N == Nodes(q)
           at == Layers(q)
           count(row) == Cardinality(InRow(at, row))
           span == [n \in N |-> count(at[n].row) * 200]
           width == Max({200} \cup {count(at[n].row) * 200 : n \in DOMAIN at})
           bottom == 60 + Max({1} \cup {at[n].row : n \in DOMAIN at}) * 190
           half(n) == (width - count(at[n].row) * 200) \div 2
           top == Greater(60, bottom - TitleH)
           s == [n \in DOMAIN at \cup {0} |->
                   IF n # 0 THEN Box(40 + half(n) + at[n].col * 200 + 64, 60 + (at[n].row - 1) * 190, 72, 40)
                   ELSE Box(40 + width + 400, top, TitleW, TitleH)]
<1>1. InfraPage(q) = List(Endless, Endless, s, Cardinality(N), Cardinality(DOMAIN at))
  BY DEF InfraPage
<1>2. IsFiniteSet(N) /\ 0 \notin N
  BY NodesAre
<1>3. at \in [N -> PlaceOf] /\ WellPlaced(at) /\ DOMAIN at = N
  BY LayersAre
<1>4. ASSUME NEW n \in N
      PROVE  at[n].row \in Nat \ {0} /\ at[n].col \in Nat /\ count(at[n].row) \in Nat /\ at[n].col < count(at[n].row)
  <2> HIDE DEF at, N
  <2>1. at[n].row \in Nat \ {0} /\ at[n].col \in Nat
    BY <1>3 DEF PlaceOf
  <2>2. InRow(at, at[n].row) \subseteq N
    BY <1>3 DEF InRow
  <2>3. IsFiniteSet(InRow(at, at[n].row))
    BY <1>2, <2>2, FS_Subset
  <2>4. count(at[n].row) \in Nat
    BY <2>3, FS_CardinalityType
  <2>5. at[n].col < Cardinality(InRow(at, at[n].row))
    BY <1>3 DEF WellPlaced
  <2> QED BY <2>1, <2>4, <2>5
<1>5. width \in Nat /\ bottom \in Nat /\ \A n \in N : count(at[n].row) * 200 <= width
  <2> DEFINE m == Max({1} \cup {at[n].row : n \in N})
             v == Max({200} \cup {span[n] : n \in N})
  <2>1. \A n \in N : span[n] = count(at[n].row) * 200
    OBVIOUS
  <2>2. \A n \in N : span[n] \in Nat
    <3> HIDE DEF count, at, N
    <3> QED BY <1>4
  <2>3. {span[n] : n \in N} = {count(at[n].row) * 200 : n \in N}
    BY <2>1
  <2>4. width = v /\ bottom = 60 + m * 190
    <3> HIDE DEF at, N, count, span
    <3> QED BY <1>3, <2>3
  <2>5. v \in Nat /\ m \in Nat /\ \A n \in N : span[n] <= v
    <3> HIDE DEF at, N, span
    <3>1. IsFiniteSet(N) /\ at \in [N -> PlaceOf]
      BY <1>2, <1>3
    <3>2. /\ Max({200} \cup {span[n] : n \in N}) \in Nat
          /\ \A k \in N : span[k] <= Max({200} \cup {span[n] : n \in N})
          /\ Max({1} \cup {at[n].row : n \in N}) \in Nat
      BY ONLY <2>2, <3>1, RowsAre, ZenonT(60)
    <3> QED BY <3>2
  <2>6. 60 + m * 190 \in Nat
    <3> HIDE DEF m
    <3> QED BY <2>5
  <2> HIDE DEF width, bottom, count, at, N, v, m, span
  <2> QED BY <2>1, <2>4, <2>5, <2>6
<1>6. DOMAIN s = N \cup {0} /\ s[0] = Box(40 + width + 400, top, TitleW, TitleH)
      /\ \A n \in N : s[n] = Box(40 + half(n) + at[n].col * 200 + 64, 60 + (at[n].row - 1) * 190, 72, 40)
  <2> HIDE DEF at, N, half, width, top
  <2> QED BY <1>2, <1>3
<1> HIDE DEF s
<1>7. top \in Int /\ 60 <= top
  <2>1. TitleH \in Int
    BY DEF TitleH
  <2> HIDE DEF bottom
  <2> QED BY <1>5, <2>1 DEF Greater
<1>8. ASSUME NEW n \in N PROVE half(n) \in Nat /\ half(n) <= width - count(at[n].row) * 200
  <2> DEFINE d == width - count(at[n].row) * 200
  <2>1. d \in Nat
    <3> HIDE DEF width, count, at, N
    <3> QED BY <1>4, <1>5
  <2>2. half(n) = HalfOf(d)
    BY DEF HalfOf
  <2> HIDE DEF d
  <2>3. HalfOf(d) \in Nat /\ HalfOf(d) <= d
    BY ONLY <2>1, HalfIs
  <2> QED BY <2>2, <2>3 DEF d
<1> DEFINE x(n) == 40 + half(n) + at[n].col * 200 + 64
           y(n) == 60 + (at[n].row - 1) * 190
<1>9. ASSUME NEW n \in N PROVE s[n].x = x(n) /\ s[n].y = y(n) /\ s[n].w = 72 /\ s[n].h = 40
  <2>1. s[n] = Box(x(n), y(n), 72, 40)
    BY <1>6
  <2> HIDE DEF x, y, N
  <2> QED BY <2>1 DEF Box
<1>10. s[0].x = 40 + width + 400 /\ s[0].y = top
  <2> HIDE DEF width, top
  <2> QED BY <1>6 DEF Box
<1>11. ASSUME NEW n \in N PROVE x(n) \in Nat /\ y(n) \in Nat /\ x(n) + 72 <= 40 + width + 400
  <2> DEFINE k == half(n)
             c == at[n].col
             r == at[n].row
             t == count(at[n].row)
  <2>1. k \in Nat /\ k <= width - t * 200 /\ c \in Nat /\ r \in Nat \ {0} /\ t \in Nat /\ c < t /\ width \in Nat
    BY <1>4, <1>5, <1>8
  <2> HIDE DEF k, c, r, t, width
  <2>2. 40 + k + c * 200 + 64 \in Nat /\ 60 + (r - 1) * 190 \in Nat
    BY ONLY <2>1
  <2>3. (40 + k + c * 200 + 64) + 72 <= 40 + width + 400
    BY ONLY <2>1, InWidth
  <2> QED BY <2>2, <2>3 DEF k, c, r
<1>12. ASSUME NEW n \in N, NEW m \in N, n # m PROVE Apart(s[n], s[m])
  <2> DEFINE r == at[n].row
             v == at[m].row
             c == at[n].col
             d == at[m].col
  <2>1. r \in Nat \ {0} /\ v \in Nat \ {0} /\ c \in Nat /\ d \in Nat
    BY <1>4
  <2>2. r = v => c # d /\ half(n) = half(m)
    <3>1. r = v => c # d
      BY <1>3, <1>12 DEF WellPlaced
    <3>2. r = v => half(n) = half(m)
      <4> HIDE DEF at, width, N
      <4> QED OBVIOUS
    <3> QED BY <3>1, <3>2
  <2>3. half(n) \in Nat
    BY <1>8
  <2> DEFINE k == half(n)
  <2>4. /\ x(n) = 40 + k + c * 200 + 64 /\ y(n) = 60 + (r - 1) * 190 /\ y(m) = 60 + (v - 1) * 190
        /\ r = v => x(m) = 40 + k + d * 200 + 64
    <3>1. r = v => x(m) = 40 + half(m) + d * 200 + 64 /\ half(m) = k
      BY <2>2
    <3> QED BY <3>1
  <2>5. /\ s[n].x = x(n) /\ s[n].y = y(n) /\ s[n].w = 72 /\ s[n].h = 40
        /\ s[m].x = x(m) /\ s[m].y = y(m) /\ s[m].w = 72 /\ s[m].h = 40
    <3> HIDE DEF x, y, N
    <3> QED BY <1>9
  <2>6. k \in Nat
    BY <2>3
  <2> HIDE DEF N, at, width, half, k, r, v, c, d, x, y
  <2>7. CASE r = v /\ c < d
    <3>1. (40 + k + c * 200 + 64) + 72 <= 40 + k + d * 200 + 64
      BY ONLY <2>1, <2>6, <2>7, NextColumn
    <3>2. s[n].x + s[n].w <= s[m].x
      BY <2>4, <2>5, <2>7, <3>1
    <3> QED BY <3>2 DEF Apart
  <2>8. CASE r = v /\ d < c
    <3>1. (40 + k + d * 200 + 64) + 72 <= 40 + k + c * 200 + 64
      BY ONLY <2>1, <2>6, <2>8, NextColumn
    <3>2. s[m].x + s[m].w <= s[n].x
      BY <2>4, <2>5, <2>8, <3>1
    <3> QED BY <3>2 DEF Apart
  <2>9. CASE r < v
    <3>1. (60 + (r - 1) * 190) + 40 <= 60 + (v - 1) * 190
      BY ONLY <2>1, <2>9, NextRow
    <3>2. s[n].y + s[n].h <= s[m].y
      BY <2>4, <2>5, <3>1
    <3> QED BY <3>2 DEF Apart
  <2>10. CASE v < r
    <3>1. (60 + (v - 1) * 190) + 40 <= 60 + (r - 1) * 190
      BY ONLY <2>1, <2>10, NextRow
    <3>2. s[m].y + s[m].h <= s[n].y
      BY <2>4, <2>5, <3>1
    <3> QED BY <3>2 DEF Apart
  <2>11. (r = v /\ c < d) \/ (r = v /\ d < c) \/ r < v \/ v < r
    <3>1. r = v => c # d
      BY <2>2
    <3> QED BY ONLY <2>1, <3>1
  <2> QED BY <2>7, <2>8, <2>9, <2>10, <2>11
<1>13. ASSUME NEW n \in N PROVE Apart(s[n], s[0]) /\ Apart(s[0], s[n])
  <2>1. s[n].x + s[n].w <= s[0].x
    <3> HIDE DEF x, y, width, N, top
    <3> QED BY <1>9, <1>10, <1>11
  <2> QED BY <2>1 DEF Apart
<1>14. ASSUME NEW n \in N \cup {0} PROVE Fit(s[n], Endless, Endless)
  <2>1. CASE n \in N
    <3>1. s[n].x \in Nat /\ s[n].y \in Nat
      <4> HIDE DEF x, y, width, N
      <4> QED BY <1>9, <1>11, <2>1
    <3> QED BY <3>1 DEF Fit
  <2>2. CASE n = 0
    <3>1. s[0].x >= 0 /\ s[0].y >= 0
      <4> HIDE DEF width, top
      <4> QED BY <1>5, <1>7, <1>10
    <3> QED BY <2>2, <3>1 DEF Fit
  <2> QED BY <2>1, <2>2
<1>15. ASSUME NEW n \in N \cup {0}, NEW m \in N \cup {0}, n # m PROVE Apart(s[n], s[m])
  <2> HIDE DEF N
  <2> QED BY <1>12, <1>13, <1>15
<1> HIDE DEF N, at, width, top, half
<1>16. Tidy(List(Endless, Endless, s, Cardinality(N), Cardinality(N)))
  BY <1>6, <1>14, <1>15 DEF Tidy, List, Fit, InFrame
<1> QED BY <1>1, <1>3, <1>16

\* A question about a drawing is of numbers and lists as the handlers read them.
Drawable(q) ==
    /\ q.kind = "structure"   => Structured(q)
    /\ q.kind = "family"      => Familied(q)
    /\ q.kind = "segmentpage" => Segmented(q)
    /\ q.kind = "vlanpage"    => VlanOf(q)
    /\ q.kind = "logical"     => LogicalOf(q)
    /\ q.kind = "infra"       => InfraOf(q)

\* What a drawing shows: the frames of its kind, or none when the logical plan failed.
LEMMA FramesAre ==
    ASSUME SheetsNext, NEW f \in reply'.frames
    PROVE  \/ asked.kind = "structure"   /\ f \in Structure(asked)
           \/ asked.kind = "family"      /\ f \in Family(asked)
           \/ asked.kind = "segmentpage" /\ f \in SegmentPages(asked)
           \/ asked.kind = "vlanpage"    /\ f \in VlanSheet(asked)
           \/ asked.kind = "logical"     /\ f \in Logical(asked)
           \/ asked.kind = "infra"       /\ f = InfraPage(asked)
<1>1. \A F : Drawing(F) => reply'.frames = F
  BY DEF Drawing, Give
<1>2. CASE DrawStructure
  <2>1. asked.kind = "structure" /\ reply'.frames = Structure(asked)
    BY <1>1, <1>2, Zenon DEF DrawStructure, Pending
  <2> QED BY <2>1
<1>3. CASE DrawFamily
  <2>1. asked.kind = "family" /\ reply'.frames = Family(asked)
    BY <1>1, <1>3, Zenon DEF DrawFamily, Pending
  <2> QED BY <2>1
<1>4. CASE DrawSegments
  <2>1. asked.kind = "segmentpage" /\ reply'.frames = SegmentPages(asked)
    BY <1>1, <1>4, Zenon DEF DrawSegments, Pending
  <2> QED BY <2>1
<1>5. CASE DrawVlan
  <2>1. asked.kind = "vlanpage" /\ reply'.frames = VlanSheet(asked)
    BY <1>1, <1>5, Zenon DEF DrawVlan, Pending
  <2> QED BY <2>1
<1>6. CASE DrawInfra
  <2>1. asked.kind = "infra" /\ reply'.frames = {InfraPage(asked)}
    BY <1>1, <1>6, Zenon DEF DrawInfra, Pending
  <2> QED BY <2>1
<1>7. CASE DrawLogical
  <2> DEFINE failed == [kind |-> "drawing", failed |-> TRUE, frames |-> {}]
             drawn  == [kind |-> "drawing", failed |-> FALSE, title |-> LogicalTitle(asked), frames |-> Logical(asked)]
  <2>1. asked.kind = "logical" /\ (Give(failed) \/ Give(drawn))
    BY <1>7, Zenon DEF DrawLogical, Pending
  <2>2. failed.frames = {} /\ drawn.frames = Logical(asked)
    OBVIOUS
  <2> HIDE DEF failed, drawn
  <2>3. reply'.frames = {} \/ reply'.frames = Logical(asked)
    BY <2>1, <2>2 DEF Give
  <2> QED BY <2>1, <2>3
<1> QED BY <1>2, <1>3, <1>4, <1>5, <1>6, <1>7 DEF SheetsNext
==================================================================================
