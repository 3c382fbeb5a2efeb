------------------------------ MODULE Intervals ------------------------------
(***************************************************************************)
(* The interval algebra of engine/ports.py: a set of ports is kept as a    *)
(* list of ranges <<lo, hi>>, both ends included.  The operators accept    *)
(* lists in any order, overlapping or touching, and return normal forms.   *)
(* A loop is a function from the rounds done to what it has made by then.  *)
(***************************************************************************)
EXTENDS Integers, Sequences, FiniteSets, SequencesExt

CONSTANT MaxPort        \* 65535
ASSUME PortAssumption == MaxPort \in Nat \ {0}

Full == <<<<1, MaxPort>>>>

\* The ports a list of ranges stands for: what the algebra is about.
Denotes(ranges) == UNION {ranges[i][1]..ranges[i][2] : i \in DOMAIN ranges}

Larger(m, n) == IF m >= n THEN m ELSE n
Smaller(m, n) == IF m <= n THEN m ELSE n

Earlier(r, s) == r[1] < s[1] \/ (r[1] = s[1] /\ r[2] < s[2])
Earliest(S) == CHOOSE r \in S : \A s \in S : ~Earlier(s, r)

\* The ranges of a set in ascending order.
Ascending(S) ==
    LET rest[k \in 0..Cardinality(S)] ==
            IF k = 0 THEN S ELSE LET left == rest[k - 1] IN left \ {Earliest(left)}
    IN [k \in 1..Cardinality(S) |-> Earliest(rest[k - 1])]

Meets(last, r) == r[1] <= last[2] + 1

\* A range is joined to the last one kept if it overlaps or touches it.
Join(kept, r) ==
    IF kept # <<>> /\ Meets(kept[Len(kept)], r)
    THEN [kept EXCEPT ![Len(kept)] = <<@[1], Larger(@[2], r[2])>>]
    ELSE Append(kept, r)

\* A range listed twice is joined to itself: the order is that of the set.
Merge(ranges) ==
    LET sorted == Ascending({r \in ToSet(ranges) : r[1] <= r[2]})
        kept[k \in 0..Len(sorted)] == IF k = 0 THEN <<>> ELSE Join(kept[k - 1], sorted[k])
    IN kept[Len(sorted)]

\* A round of two pointers; the one whose range ends first moves on.
Advance(a, b, c) ==
    IF c.i > Len(a) \/ c.j > Len(b) THEN c
    ELSE LET lo == Larger(a[c.i][1], b[c.j][1])
             hi == Smaller(a[c.i][2], b[c.j][2])
             first == a[c.i][2] < b[c.j][2]
         IN [i |-> IF first THEN c.i + 1 ELSE c.i,
             j |-> IF first THEN c.j ELSE c.j + 1,
             out |-> IF lo <= hi THEN Append(c.out, <<lo, hi>>) ELSE c.out]

\* The shorter list is through after as many rounds as both have ranges.
Intersect(s, t) ==
    LET a == Merge(s)
        b == Merge(t)
        round[k \in 0..Len(a) + Len(b)] ==
            IF k = 0 THEN [i |-> 1, j |-> 1, out |-> <<>>] ELSE Advance(a, b, round[k - 1])
    IN round[Len(a) + Len(b)].out

\* Range q is cut out of what is left of r from c.cur on.
Without(r, c, q) ==
    IF c.cur > r[2] \/ q[2] < c.cur \/ q[1] > r[2] THEN c
    ELSE [cur |-> Larger(c.cur, q[2] + 1),
          out |-> IF q[1] > c.cur THEN Append(c.out, <<c.cur, q[1] - 1>>) ELSE c.out]

\* What is left of range r when the ascending ranges of b are cut out of it.
Cut(r, b) ==
    LET done[k \in 0..Len(b)] ==
            IF k = 0 THEN [cur |-> r[1], out |-> <<>>] ELSE Without(r, done[k - 1], b[k])
        last == done[Len(b)]
    IN IF last.cur <= r[2] THEN Append(last.out, <<last.cur, r[2]>>) ELSE last.out

Subtract(s, t) ==
    LET a == Merge(s)
        b == Merge(t)
        out[k \in 0..Len(a)] == IF k = 0 THEN <<>> ELSE out[k - 1] \o Cut(a[k], b)
    IN out[Len(a)]
===============================================================================
