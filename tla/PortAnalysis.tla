----------------------------- MODULE PortAnalysis -----------------------------
(***************************************************************************)
(* The analysis of all ports ("Deep-Tracker"): run_port_trace of           *)
(* engine/path.py over the hops of a path, flow_policies of                *)
(* inventory/store.py, hop_allowed and combine of engine/ports.py.  It     *)
(* works from the inventory alone; what the firewall itself would answer   *)
(* to policy-lookup is stated beside it for comparison.                    *)
(***************************************************************************)
EXTENDS Intervals

CONSTANTS
    Paths,      \* the paths that may be analysed: sequences of hops
    AddrNet,    \* AddrNet[n]: which ends of the flow ("src", "dst") address object n contains
    AddrGroup,  \* AddrGroup[g]: the member names of an address group
    SvcPorts,   \* SvcPorts[n]: the port ranges of service object n, per protocol
    SvcGroup,   \* SvcGroup[g]: the member names of a service group
    DefaultMap  \* DefaultMap[z]: interfaces a normalized interface stands for on any device

Proto == {"tcp", "udp"}

\* A service names ranges of whole numbers; groups and default mappings are finitely many.
ASSUME ServiceAssumption ==
    /\ \A n \in DOMAIN SvcPorts : \A q \in Proto : SvcPorts[n][q] \in Seq(Int \X Int)
    /\ IsFiniteSet(DOMAIN SvcGroup)
    /\ \A g \in DOMAIN SvcGroup : SvcGroup[g] \in Seq(STRING)
    /\ IsFiniteSet(DOMAIN DefaultMap)

Policies == [id : Int, srcintf : SUBSET STRING, dstintf : SUBSET STRING, srcaddr : Seq(STRING),
             dstaddr : Seq(STRING), service : Seq(STRING), accept : BOOLEAN,
             enabled : BOOLEAN, isdb : BOOLEAN, negate : BOOLEAN]

\* An id names one policy of a package.  The device has the zones the inventory read from
\* it, and those the sync failed to read: the latter are missing, none is made up.
ASSUME PathAssumption ==
    \A w \in Paths : w \in Seq(ToSet(w)) /\ \A h \in ToSet(w) :
        /\ h.policies \in Seq(Policies)
        /\ \A i, j \in DOMAIN h.policies : h.policies[i].id = h.policies[j].id => i = j
        /\ h.known \in BOOLEAN
        /\ IsFiniteSet(DOMAIN h.real.device) /\ IsFiniteSet(DOMAIN h.real.local)
        /\ h.zones.local = h.real.local
        /\ DOMAIN h.zones.device \subseteq DOMAIN h.real.device
        /\ \A n \in DOMAIN h.zones.device : h.zones.device[n] \subseteq h.real.device[n]
AllFull == [q \in Proto |-> Full]
Nothing == [q \in Proto |-> <<>>]

VARIABLES
    path,       \* the input
    at,         \* the hop at hand
    policies,   \* its policies that flow_policies selected
    widened,    \* they were selected by address alone
    rule,       \* the next one to look at
    allowed, undecided,     \* hop_allowed, lists of ranges per protocol
    open,       \* the ranges of the hops that are through
    reachable,
    result      \* [ports, limits] once combine is through
vars == <<path, at, policies, widened, rule, allowed, undecided, open, reachable, result>>

NoResult == [done |-> FALSE]

(* ------------------------- names in a policy ------------------------- *)

\* The names met from a list of names on.  A group is opened once, and not at all if an
\* object has its name: there are no more rounds than groups.
Reached(names, objects, group) ==
    LET met[k \in 0..Cardinality(DOMAIN group)] ==
            IF k = 0 THEN ToSet(names)
            ELSE LET seen == met[k - 1]
                 IN seen \cup UNION {ToSet(group[g]) : g \in (seen \cap DOMAIN group) \ objects}
    IN met[Cardinality(DOMAIN group)]

AddrMatches(names, end) ==
    \E n \in Reached(names, DOMAIN AddrNet, AddrGroup) :
        n \in {"all", "any"} \/ (n \in DOMAIN AddrNet /\ end \in AddrNet[n])

RangesOf(n, q) ==
    IF n = "ALL" \/ (n = "ALL_TCP" /\ q = "tcp") \/ (n = "ALL_UDP" /\ q = "udp") THEN Full
    ELSE IF n \in DOMAIN SvcPorts THEN SvcPorts[n][q] ELSE <<>>

ServiceIntervals(names) ==
    LET reached == Reached(names, DOMAIN SvcPorts, SvcGroup)
    IN [q \in Proto |-> FlattenSeq(SetToSeq({RangesOf(n, q) : n \in reached}))]

(* ------------------------ interfaces and zones ------------------------ *)

\* All names policies may give an interface: device zones, normalized interfaces mapped
\* for this device, and default mappings where the device has none of its own.
Mapped(f, D, names) == {n \in D : f[n] \cap names # {}}
MoreNames(z, names) ==
    names \cup Mapped(z.device, DOMAIN z.device, names) \cup Mapped(z.local, DOMAIN z.local, names)
          \cup Mapped(DefaultMap, DOMAIN DefaultMap \ DOMAIN z.local, names)

\* Every round but the last finds another name.
ZonesOf(z, intf) ==
    LET rounds == Cardinality(DOMAIN z.device) + Cardinality(DOMAIN z.local)
                  + Cardinality(DOMAIN DefaultMap)
        names[k \in 0..rounds] == IF k = 0 THEN {intf} ELSE MoreNames(z, names[k - 1])
    IN names[rounds]

Pinned(side, z, intf) == side = {} \/ side \cap (ZonesOf(z, intf) \cup {"any"}) # {}

Candidate(p, h, z) ==
    p.enabled /\ Pinned(p.srcintf, z, h.srcintf) /\ Pinned(p.dstintf, z, h.egress)

ByAddress(p) == AddrMatches(p.srcaddr, "src") /\ AddrMatches(p.dstaddr, "dst")

\* The policies at the positions S of a list, in their order.
Selected(ps, S) ==
    LET kept[i \in 0..Len(ps)] ==
            IF i = 0 THEN <<>>
            ELSE IF i \in S THEN Append(kept[i - 1], ps[i]) ELSE kept[i - 1]
    IN kept[Len(ps)]

CandidatePolicies(h) ==
    Selected(h.policies, {i \in DOMAIN h.policies : Candidate(h.policies[i], h, h.zones)})

Ids(ps) == {p.id : p \in ToSet(ps)}
\* Mutant: only if the interfaces leave nothing.
WidensM(strict, wide) == strict = <<>> /\ wide # <<>>
Widens(strict, wide) == Ids(wide) \ Ids(strict) # {}

\* Policies by address alone, if that finds one the interfaces rule out.
FlowPolicies(h) ==
    LET strict == CandidatePolicies(h)
        wide == Selected(h.policies, {i \in DOMAIN h.policies :
                                         h.policies[i].enabled /\ ByAddress(h.policies[i])})
    IN [policies |-> IF Widens(strict, wide) THEN wide ELSE strict,
        widened |-> Widens(strict, wide)]

(* ------------------------------ the loops ------------------------------ *)

Init ==
    /\ path \in Paths
    /\ at = 0 /\ policies = <<>> /\ widened = FALSE /\ rule = 1
    /\ allowed = Nothing /\ undecided = AllFull
    /\ open = <<>> /\ reachable = TRUE /\ result = NoResult

Decided == undecided = Nothing
HopThrough == rule > Len(policies) \/ Decided

\* The hops that are through, with the one at hand.
Collected == IF at = 0 THEN open ELSE Append(open, [q \in Proto |-> Merge(allowed[q])])

EnterHop ==
    /\ ~result.done /\ reachable /\ HopThrough
    /\ at < Len(path) /\ path[at + 1].known
    /\ at' = at + 1
    /\ LET flow == FlowPolicies(path[at + 1])
       IN policies' = flow.policies /\ widened' = flow.widened
    /\ rule' = 1 /\ allowed' = Nothing /\ undecided' = AllFull
    /\ open' = Collected
    /\ UNCHANGED <<path, reachable, result>>

\* A hop without a route or unknown to the inventory ends the analysis.
UnknownHop ==
    /\ ~result.done /\ reachable /\ HopThrough
    /\ at < Len(path) /\ ~path[at + 1].known
    /\ reachable' = FALSE
    /\ UNCHANGED <<path, at, policies, widened, rule, allowed, undecided, open, result>>

Unresolvable(p) == p.isdb \/ p.negate

\* Internet services and negated fields are passed over with a warning.
PassOver ==
    /\ ~result.done /\ ~HopThrough
    /\ Unresolvable(policies[rule]) \/ ~ByAddress(policies[rule])
    /\ rule' = rule + 1
    /\ UNCHANGED <<path, at, policies, widened, allowed, undecided, open, reachable, result>>

\* Mutant: a denying policy leaves its ports to the ones after it.
RemainingM(p, q, decided) == IF p.accept THEN Subtract(undecided[q], decided) ELSE undecided[q]
Remaining(p, q, decided) == Subtract(undecided[q], decided)

TakeRule ==
    /\ ~result.done /\ ~HopThrough
    /\ LET p == policies[rule]
           decided == [q \in Proto |-> Intersect(undecided[q], ServiceIntervals(p.service)[q])]
       IN /\ ~Unresolvable(p) /\ ByAddress(p)
          /\ allowed' = [q \in Proto |-> IF p.accept THEN Merge(allowed[q] \o decided[q])
                                         ELSE allowed[q]]
          /\ undecided' = [q \in Proto |-> Remaining(p, q, decided[q])]
    /\ rule' = rule + 1
    /\ UNCHANGED <<path, at, policies, widened, open, reachable, result>>

Dropped(before, through) == Subtract(before, through)

Stopped(ranges, i) == [k \in DOMAIN ranges |-> [range |-> ranges[k], hop |-> i]]

PassHop(end, hop, i) ==
    [ports  |-> [q \in Proto |-> Intersect(end.ports[q], hop[q])],
     limits |-> [q \in Proto |-> end.limits[q] \o Stopped(Dropped(end.ports[q], hop[q]), i)]]

\* What is open after all hops, and where each range that is not was stopped.
Combine(hops) ==
    LET end[i \in 0..Len(hops)] ==
            IF i = 0 THEN [ports |-> AllFull, limits |-> Nothing]
            ELSE PassHop(end[i - 1], hops[i], i)
    IN end[Len(hops)]

Finish ==
    /\ ~result.done /\ HopThrough
    /\ at = Len(path) \/ ~reachable
    /\ open' = Collected
    /\ LET all == IF Collected = <<>> THEN [ports |-> Nothing, limits |-> Nothing]
                  ELSE Combine(Collected)
       IN result' = [done |-> TRUE, ports |-> all.ports, limits |-> all.limits]
    /\ UNCHANGED <<path, at, policies, widened, rule, allowed, undecided, reachable>>

Next == EnterHop \/ UnknownHop \/ PassOver \/ TakeRule \/ Finish
Spec == Init /\ [][Next]_vars

(***************************************************************************)
(*                               Properties                                *)
(***************************************************************************)

Port == Proto \X (1..MaxPort)
Pairs(lists) == UNION {{q} \X Denotes(lists[q]) : q \in Proto}

\* The ports a policy decides; a range of a service may reach beyond them.
Covers(p) == IF Unresolvable(p) \/ ~ByAddress(p) THEN {}
             ELSE Port \cap Pairs(ServiceIntervals(p.service))

\* The policies of the hop as rules over plain sets of ports.
AsRules == [i \in DOMAIN policies |->
    [covers |-> Covers(policies[i]), accept |-> policies[i].accept]]

\* On every hop the loop over ranges does what first match on sets of ports does, rule by
\* rule and with the early end when nothing is undecided (hop_allowed).
Abstract == INSTANCE FirstMatch WITH
    Port <- Port, rules <- AsRules, next <- rule,
    allowed <- Pairs(allowed), undecided <- Pairs(undecided)
RefinesFirstMatch == Abstract!Spec

\* The policies of the hop that fit the interfaces as the device knows them and the
\* addresses of the flow.
Fitting(h) == {i \in DOMAIN h.policies :
                 Candidate(h.policies[i], h, h.real) /\ ByAddress(h.policies[i])}

\* The ports policy-lookup on the device answers with an accepting policy: the first
\* fitting one that has the port decides.
LivePorts(h) ==
    {p \in Port : \E i \in Fitting(h) :
        /\ h.policies[i].accept /\ p \in Covers(h.policies[i])
        /\ \A j \in Fitting(h) : j < i => p \notin Covers(h.policies[j])}

Enumerable(h) == \A p \in ToSet(h.policies) : p.enabled => ~Unresolvable(p)

\* A hop analysed without falling back to addresses allows exactly the ports the device
\* itself would allow, even if the inventory lacks some of its zones (flow_policies
\* against the policy-lookup of run_trace).
StrictIsLive ==
    at > 0 /\ HopThrough /\ ~widened /\ Enumerable(path[at])
        => Pairs(allowed) = LivePorts(path[at])

\* A port is open end to end iff every hop allows it; every other port is listed once, at
\* the first hop that stops it (combine, "bis wohin kommt Port X").
StoppedOnce ==
    result.done /\ open # <<>> => \A q \in Proto : \A n \in 1..MaxPort :
        LET stops == {i \in DOMAIN open : n \notin Denotes(open[i][q])}
            listed == {k \in DOMAIN result.limits[q] :
                          n \in Denotes(<<result.limits[q][k].range>>)}
        IN /\ n \in Denotes(result.ports[q]) <=> stops = {}
           /\ IF stops = {} THEN listed = {}
              ELSE \E k \in listed : /\ listed = {k}
                                     /\ result.limits[q][k].hop \in stops
                                     /\ \A i \in stops : result.limits[q][k].hop <= i

\* What the report says of a port is true: of one hop what the device would answer, of the
\* path where the port stops (flow_policies, combine).
PortsTrue == StrictIsLive /\ StoppedOnce
===============================================================================
