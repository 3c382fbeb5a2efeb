------------------------------- MODULE Switches -------------------------------
(***************************************************************************)
(* What the tables of the switches say about one host: the port it hangs on*)
(* (locate/fdb_librenms.py, end of locate/chain.py), the VLANs it touches  *)
(* (vlan/hostports.py) and, over all switches and firewalls, which VLAN    *)
(* numbers are taken or free (vlan/overview.py).                           *)
(***************************************************************************)
EXTENDS Requests, Integers, Sequences, FiniteSets, FiniteSetsExt, SequencesExt

CONSTANTS
    StaleAfter, BucketLen, AccessMax,    \* settings of the port search
    VlanMin, VlanMax,                    \* 1 and 4094
    MaxPortLookups                       \* MAX_PORT_VLAN_LOOKUPS

ASSUME VlanAssumption == VlanMin \in Nat /\ VlanMax \in Nat /\ 0 < VlanMin /\ VlanMin <= VlanMax

NoLinks == <<>>
NoAge   == -1      \* updated_at is missing or not readable
Bad     == -1      \* not a number
Many    == 1000000
Texts   == {"none", "other", "target", "longer"}   \* "longer": the name of the target
                                                   \* is the start of another name

----------------------------------------------------------------------------
(* The port *)

\* LibrenmsClient.neighbours: "self" is the target, "namesake" a device with its name that
\* LibreNMS does not know; without the links the search goes on.
Near(p, links) == IF p \in DOMAIN links THEN links[p] ELSE "none"

\* matches_description: the alias occurs anywhere in the text.
Mentions(text) == text \in {"target", "longer"}

\* classify_port
PortKind(near, macs) ==
    IF near \in {"monitored", "self"} THEN "uplink"
    ELSE IF near \in {"other", "namesake"} THEN "edge"
    ELSE IF macs = 0 THEN "unknown" ELSE IF macs <= AccessMax THEN "access" ELSE "trunk"

\* match_target
Match(near, text) ==
    IF near \in {"self", "namesake"} THEN "lldp_peer" ELSE IF Mentions(text) THEN "description" ELSE "none"

\* A row without a readable time is not stale, but comes last among the fresh ones.
\* A device that cannot be read has no counts and no texts.
PortCandidate(p, row, links) ==
    LET near == Near(p, links)
        macs == IF row.device THEN row.macs ELSE 0
        text == IF row.device THEN row.text ELSE "none"
    IN  [port |-> p, kind |-> PortKind(near, macs), match |-> Match(near, text),
         bucket |-> IF row.age = NoAge THEN Many ELSE row.age \div BucketLen,
         macs |-> IF macs = 0 THEN Many ELSE macs,
         age |-> IF row.age = NoAge THEN Many ELSE row.age,
         stale |-> row.age # NoAge /\ row.age > StaleAfter]

MatchRank(match) == CASE match = "lldp_peer" -> 0 [] match = "description" -> 1 [] OTHER -> 2
KindRank(kind)   == CASE kind \in {"access", "edge"} -> 0 [] kind = "uplink" -> 2 [] OTHER -> 1

\* The sort key of rank, compared place by place.
RankKeyM(c) == <<c.bucket, MatchRank(c.match), KindRank(c.kind), c.macs, c.age>>
RankKey(c) == <<MatchRank(c.match), c.bucket, KindRank(c.kind), c.macs, c.age>>
Before(a, b) == \E i \in DOMAIN a : a[i] < b[i] /\ \A j \in 1..(i - 1) : a[j] = b[j]

Best(cands) == {c \in cands : \A d \in cands : ~Before(RankKey(d), RankKey(c))}

Level(c) == IF c.match = "lldp_peer" THEN "high"
            ELSE IF c.match = "description" THEN IF c.kind # "uplink" THEN "high" ELSE "medium"
            ELSE IF c.kind = "uplink" THEN "low" ELSE IF c.kind = "access" THEN "high" ELSE "medium"
Lowered(level) == IF level = "high" THEN "medium" ELSE "low"
Confidence(c) == IF c.stale THEN Lowered(Level(c)) ELSE Level(c)

\* _locate: a MAC out of the history, or seen by the FortiAnalyzer long ago or at an
\* unknown time, is no proof of the present.
Capped(level, from) == IF from \in {"cache", "faz_old"} /\ level = "high" THEN "medium" ELSE level

\* LocateChain._locate, the part after the MAC: best is any of the equally good.
PortSearch ==
    /\ Pending("port")
    /\ LET cands == {PortCandidate(p, asked.fdb[p], asked.links) : p \in DOMAIN asked.fdb}
       IN  IF cands = {}
           THEN Give([kind |-> "port", conf |-> "none", beaten |-> FALSE])
           ELSE \E best \in Best(cands) :
                  Give([kind |-> "port", conf |-> Capped(Confidence(best), asked.from), best |-> best,
                        beaten |-> \E d \in cands : MatchRank(d.match) < MatchRank(best.match)])

----------------------------------------------------------------------------
(* VLANs *)

\* _vlan_num and vlan_number
Number(raw) == IF raw \in VlanMin..VlanMax THEN {raw} ELSE {}

\* _vlan_index: any number goes, the last row of an id counts; rows: a sequence.
\* _resolve_vlan: the id 0 is a placeholder.
Resolved(rows, id) ==
    LET named == {k \in DOMAIN rows : rows[k].id = id /\ rows[k].num # Bad}
    IN  IF id = 0 THEN {} ELSE {rows[k].num : k \in {j \in named : \A i \in named : i <= j}}

\* _l3_view: interfaces that bear the host's network.
Terminating(fw) == {i \in fw : i.covers /\ i.source \in {"connected", "override"}}

\* check: the numbers the host touches, and how often the ports were asked one by one.
Summary(q) ==
    (UNION {Resolved(q.rows, q.found[i]) : i \in DOMAIN q.found})
    \cup UNION {Number(i.vlan) : i \in Terminating(q.fw)}
PortLookups(q) == IF Len(q.found) < MaxPortLookups THEN Len(q.found) ELSE MaxPortLookups

\* build: rows of LibreNMS with a valid number, and every VLAN interface of a firewall,
\* switched off or not.
UsedM(q) == (UNION {Number(r.num) : r \in ToSet(q.rows)})
            \cup UNION {Number(i.vlan) : i \in Terminating(q.fw)}
Used(q) == (UNION {Number(r.num) : r \in ToSet(q.rows)}) \cup UNION {Number(i.vlan) : i \in q.fw}

\* free_ranges: one step past the end closes the last range.
FreeRanges(used) ==
    LET scan[n \in VlanMin - 1 .. VlanMax + 1] ==
          IF n < VlanMin THEN [from |-> 0, out |-> <<>>]
          ELSE LET acc == scan[n - 1]
               IN  IF n <= VlanMax /\ n \notin used THEN [acc EXCEPT !.from = IF @ = 0 THEN n ELSE @]
                   ELSE IF acc.from = 0 THEN acc
                   ELSE [from |-> 0, out |-> Append(acc.out, <<acc.from, n - 1>>)]
    IN  scan[VlanMax + 1].out

VlanReports ==
    /\ Pending("vlan")
    /\ Give([kind |-> "vlan", free |-> FreeRanges(Used(asked)), summary |-> Summary(asked),
             lookups |-> PortLookups(asked)])

SwitchesNext == PortSearch \/ VlanReports

----------------------------------------------------------------------------
(* Properties *)

\* "high" claims the present: the MAC comes from a live table (or a fresh entry of
\* the FortiAnalyzer), the sighting is not known to be old, and the port is proven by
\* its neighbour, or named without leading to another switch, or has few MACs and no
\* neighbour - and no candidate has a stronger match than the one shown
\* (chain._locate, fdb_librenms.rank and confidence).
HighIsProven ==
    reply.kind = "port" =>
       /\ ~reply.beaten
       /\ reply.conf = "high" =>
            /\ asked.from \notin {"cache", "faz_old"}
            /\ ~reply.best.stale
            /\ \/ reply.best.match = "lldp_peer"
               \/ reply.best.match = "description" /\ reply.best.kind # "uplink"
               \/ reply.best.match = "none" /\ reply.best.kind = "access"

\* The two views of the same tables agree: no number the port check names for a host
\* is offered as free, and the free ranges are exactly the numbers in neither source,
\* without gaps and without touching each other (overview.build, free_ranges,
\* hostports.check).
FreeIsFree ==
    reply.kind = "vlan" =>
       LET covered == UNION {r[1]..r[2] : r \in ToSet(reply.free)}
       IN  /\ covered \cap reply.summary = {}
           /\ covered = {n \in VlanMin..VlanMax :
                           /\ \A r \in ToSet(asked.rows) : r.num # n
                           /\ \A i \in asked.fw : i.vlan # n}
           /\ \A i \in 1..(Len(reply.free) - 1) : reply.free[i][2] + 1 < reply.free[i + 1][1]
=============================================================================
