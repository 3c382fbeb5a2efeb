------------------------------ MODULE PathTrace ------------------------------
(***************************************************************************)
(* The trace of one flow: _walk_path and run_trace of engine/path.py and   *)
(* aggregate_verdict of engine/verdict.py.  The walk asks each firewall on *)
(* the way for its route and falls back to the synchronized inventory; the *)
(* policy of every hop is then looked up live.  A request works on the     *)
(* inventory it took at its start, so nothing but the answers of the       *)
(* firewalls can differ between two runs of it.                            *)
(***************************************************************************)
EXTENDS Egress

CONSTANTS
    Worlds,         \* the situations of a trace: records [inv, src, dst, live, pids],
                    \* live and pids being the routes and policy ids firewalls may answer
    MaxHops,        \* setting max_hops
    InternalMin     \* policy ids from here on are reserved (2^30)

Root == "root"
AnyIntf == "any"

ASSUME MaxHopsAssumption == MaxHops \in Nat \ {0}

\* What a synchronized inventory is: a device has one interface of a name (the tables of
\* InventorySnapshot), in a VDOM of its own, with networks that are not the default one;
\* a route leaves by an interface of its VDOM, if by one the snapshot lists.
IsList(s) == s \in Seq(ToSet(s))
Fits(inv, d, v, n) == Listed(inv, d, n) => Interface(inv, d, n).vdom = v
IntfFits(inv, i) ==
    /\ i.dev \in ToSet(inv.devices) /\ i.vdom \in ToSet(inv.vdoms[i.dev])
    /\ i.name \notin {NoIntf, AnyIntf} /\ Rank[i.name] \in Nat
    /\ IsList(i.ips) /\ \A m \in DOMAIN i.ips : i.ips[m].len \in 1..Bits
    /\ \A j \in ToSet(inv.intfs) : i.dev = j.dev /\ i.name = j.name => i = j
WellFormed(inv) ==
    /\ IsList(inv.devices) /\ IsList(inv.intfs) /\ IsList(inv.routes) /\ IsList(inv.sites)
    /\ \A d \in ToSet(inv.devices) : IsList(inv.vdoms[d]) /\ NoVdom \notin ToSet(inv.vdoms[d])
    /\ \A i \in ToSet(inv.intfs) : IntfFits(inv, i)
    /\ \A r \in ToSet(inv.routes) : r.net.len \in 0..Bits /\ Fits(inv, r.dev, r.vdom, r.intf)
    /\ \A o \in ToSet(inv.sites) : o.net.len \in 0..Bits
    /\ inv.prefixes = PrefixTable(inv)
ASSUME WorldsAssumption ==
    /\ Root # NoVdom
    /\ \A w \in Worlds : /\ WellFormed(w.inv)
                         /\ \A l \in w.live : l.route.found => Fits(w.inv, l.dev, l.vdom, l.route.intf)

VARIABLES
    world,      \* the situation at hand
    phase,      \* "ingress", "walk", "resolve", "judge", "done", "refused"
    here,       \* the device, VDOM and interface the next hop is entered by
    steps,      \* the hops walked
    broken,     \* why the walk was broken off: a warning on its last hop
    hops,       \* those that have a verdict
    verdict
vars == <<world, phase, here, steps, broken, hops, verdict>>

Inv == world.inv
Src == world.src
Dst == world.dst
Place(d, v, n) == [dev |-> d, vdom |-> v, intf |-> n]
Visited == {<<steps[i].dev, steps[i].vdom>> : i \in DOMAIN steps}
Known(d) == d \in ToSet(Inv.devices)

Init ==
    /\ world \in Worlds
    /\ phase = "ingress" /\ here = Place(NoDev, NoVdom, NoIntf)
    /\ steps = <<>> /\ broken = "none" /\ hops = <<>> /\ verdict = "none"

(* ------------------------------- the start ------------------------------- *)

\* find_ingress(): an override names no interface, the network of the source does.
SourceIntf(e) ==
    IF e.intf # NoIntf THEN e.intf
    ELSE LET nets == ConnectedNetworks(Inv, e.dev, e.vdom)
             own == {k \in DOMAIN nets : InNet(Src, nets[k][1])}
         IN IF own = {} THEN NoIntf ELSE First(nets, own)[2]

FindIngress ==
    /\ phase = "ingress"
    /\ LET e == LookupOwner(Inv, Src)
       IN IF e = NoEntry \/ SourceIntf(e) = NoIntf
          THEN phase' = "refused" /\ UNCHANGED here
          ELSE phase' = "walk" /\ here' = Place(e.dev, e.vdom, SourceIntf(e))
    /\ UNCHANGED <<world, steps, broken, hops, verdict>>

(* -------------------------------- the walk -------------------------------- *)

\* A firewall that is offline or whose answer is an error leaves the hop degraded.
Answer(r, degraded) == [route |-> r, degraded |-> degraded]
LiveRoutes(d, v) == {l.route : l \in {k \in world.live : k.dev = d /\ k.vdom = v}}
RouteAnswers(d, v) ==
    IF ~Known(d) THEN {Answer(NoRoute, FALSE)}
    ELSE {Answer(NoRoute, degraded) : degraded \in BOOLEAN}
         \cup {Answer(r, FALSE) : r \in LiveRoutes(d, v)}

Taken(answer, d, v, a) == IF answer.route.found THEN answer.route ELSE CachedRoute(Inv, d, v, a)

Step(answer, route, going) ==
    [dev |-> here.dev, vdom |-> here.vdom, srcintf |-> here.intf, route |-> route,
     class |-> going.class, by |-> going.by, degraded |-> answer.degraded]

HopsLeft == Len(steps) < MaxHops

StopAtMax ==
    /\ phase = "walk" /\ ~HopsLeft
    /\ broken' = "max_hops" /\ phase' = "judge"
    /\ UNCHANGED <<world, here, steps, hops, verdict>>

\* Mutant: only the hop just left counts as visited.
RevisitedM == steps # <<>> /\ steps[Len(steps)].dev = here.dev /\ steps[Len(steps)].vdom = here.vdom
Revisited == <<here.dev, here.vdom>> \in Visited

StopAtLoop ==
    /\ phase = "walk" /\ HopsLeft /\ Revisited
    /\ broken' = "loop" /\ phase' = "judge"
    /\ UNCHANGED <<world, here, steps, hops, verdict>>

Entering(d, v, n) == Place(d, IF v = NoVdom THEN Root ELSE v, IF n = NoIntf THEN AnyIntf ELSE n)

Final == {"LOCAL", "DEFAULT"}
MustResolve(going) == going.class = "ROUTED" /\ (going.vdom = NoVdom \/ going.intf = NoIntf)

WalkHop ==
    /\ phase = "walk" /\ HopsLeft /\ ~Revisited
    /\ \E answer \in RouteAnswers(here.dev, here.vdom) :
          LET route == Taken(answer, here.dev, here.vdom, Dst)
              going == IF ~route.found THEN Ending("DEFAULT")
                       ELSE ClassifyEgress(Inv, here.dev, here.vdom, route.intf, route.gw,
                                           route.dflt, Dst)
          IN /\ steps' = Append(steps, Step(answer, route, going))
             /\ \/ going.class \in Final /\ phase' = "judge" /\ UNCHANGED here
                \/ MustResolve(going) /\ phase' = "resolve"
                   /\ here' = Place(going.dev, going.vdom, going.intf)
                \/ going.class \notin Final /\ ~MustResolve(going) /\ phase' = "walk"
                   /\ here' = Entering(going.dev, going.vdom, going.intf)
    /\ UNCHANGED <<world, broken, hops, verdict>>

\* _resolve_ingress(): each VDOM tried is asked for its route back to the source; the
\* classification leaves both the VDOM and the interface open or neither.
ResolveEntry ==
    /\ phase = "resolve"
    /\ LET d == here.dev
           tried == ToSet(Tried(Inv, d, Root))
           routesBack(v) == {Taken(a, d, v, Src) : a \in RouteAnswers(d, v)}
       IN \E back \in {b \in [tried -> UNION {routesBack(v) : v \in tried}] :
                        \A v \in tried : b[v] \in routesBack(v)} :
             LET entry == ResolveIngress(Inv, d, Root, back)
             IN here' = Entering(d, entry.vdom, entry.intf)
    /\ phase' = "walk"
    /\ UNCHANGED <<world, steps, broken, hops, verdict>>

(* ------------------------------- the verdict ------------------------------- *)

NotAsked == [answered |-> FALSE]
Lookup(success, pid) == [answered |-> TRUE, success |-> success, pid |-> pid]

\* Degraded hops and devices the inventory does not know are not asked.
Asked(s) == s.route.found /\ ~s.degraded /\ Known(s.dev)
PolicyAnswers(s) ==
    IF ~Asked(s) THEN {NotAsked}
    ELSE {NotAsked, Lookup(FALSE, 0)} \cup {Lookup(TRUE, p) : p \in world.pids}

Verdict(action) == IF action = "accept" THEN "ALLOW" ELSE "DENY"
OfDevice(s, pid) == {p \in Inv.policies : p.dev = s.dev /\ p.vdom = s.vdom /\ p.pid = pid}
\* global_policy(): the id as reported, else without the offset of the reserved range.
OfGlobal(pid) ==
    LET listed(n) == {p \in Inv.globals : p.pid = n}
    IN IF listed(pid) # {} THEN listed(pid) ELSE listed(pid - InternalMin)

\* A policy of the device, else a global one if the id is a reserved one.
Action(s, pid) ==
    LET found == IF OfDevice(s, pid) # {} THEN OfDevice(s, pid)
                 ELSE IF pid >= InternalMin THEN OfGlobal(pid) ELSE {}
    IN IF found = {} THEN "unknown" ELSE (CHOOSE p \in found : TRUE).action

\* Mutant: any id the firewall reports counts as permitted.
JudgedM(s, answer) ==
    IF ~answer.answered THEN "UNKNOWN" ELSE IF answer.pid = 0 THEN "DENY" ELSE "ALLOW"
Judged(s, answer) ==
    CASE ~answer.answered -> "UNKNOWN"
      [] answer.answered /\ (~answer.success \/ answer.pid = 0) -> "DENY"
      [] OTHER -> IF Action(s, answer.pid) = "unknown" THEN "UNKNOWN"
                  ELSE Verdict(Action(s, answer.pid))

DenySeen == \E i \in DOMAIN hops : hops[i].verdict = "DENY"

JudgeHop ==
    /\ phase = "judge" /\ Len(hops) < Len(steps)
    /\ LET s == steps[Len(hops) + 1]
       IN \E answer \in PolicyAnswers(s) :
            hops' = Append(hops, [verdict |-> Judged(s, answer), answer |-> answer,
                                  afterDeny |-> DenySeen])
    /\ UNCHANGED <<world, phase, here, steps, broken, verdict>>

\* aggregate_verdict(): the first hop that does not permit the flow decides.
Stops == {i \in DOMAIN hops : hops[i].verdict # "ALLOW"}
Aggregate ==
    IF Stops = {} THEN "ALLOW"
    ELSE IF \E i \in Stops : hops[i].verdict = "DENY" /\ \A j \in Stops : i <= j
    THEN "DENY" ELSE "DEGRADED"

Finish ==
    /\ phase = "judge" /\ Len(hops) = Len(steps)
    /\ verdict' = Aggregate /\ phase' = "done"
    /\ UNCHANGED <<world, here, steps, broken, hops>>

Next == FindIngress \/ StopAtMax \/ StopAtLoop \/ WalkHop \/ ResolveEntry \/ JudgeHop \/ Finish
Spec == Init /\ [][Next]_vars

(***************************************************************************)
(*                               Properties                                *)
(***************************************************************************)

\* The variables hold values of their types; no more than max_hops hops are walked, and no
\* more are judged than were walked (_walk_path, run_trace).
TypeOK ==
    /\ phase \in {"ingress", "walk", "resolve", "judge", "done", "refused"}
    /\ Len(steps) <= MaxHops /\ Len(hops) <= Len(steps)
    /\ broken \in {"none", "loop", "max_hops"}
    /\ verdict \in {"none", "ALLOW", "DENY", "DEGRADED"}
    /\ \A i \in DOMAIN hops : hops[i].verdict \in {"ALLOW", "DENY", "UNKNOWN"}

\* No VDOM of a device is passed twice, and a walk that is over ends at a final hop or says
\* that it was broken off (loop guard and max_hops of _walk_path).
NoRevisit == \A i, j \in DOMAIN steps :
    steps[i].dev = steps[j].dev /\ steps[i].vdom = steps[j].vdom => i = j
EndExplained == phase \in {"judge", "done"} =>
    /\ steps # <<>>
    /\ steps[Len(steps)].class \in Final <=> broken = "none"
    /\ \A i \in 1..Len(steps) - 1 : steps[i].class \notin Final
Walked == NoRevisit /\ EndExplained

Live(i) == steps[i].route.found /\ ~steps[i].degraded /\ hops[i].answer.answered
Matches(i) == hops[i].answer.success /\ hops[i].answer.pid # 0
Accepts(i) == Live(i) /\ Matches(i) /\ Action(steps[i], hops[i].answer.pid) = "accept"
Denies(i) ==
    Live(i) /\ (Matches(i) => Action(steps[i], hops[i].answer.pid) \notin {"accept", "unknown"})

\* ALLOW is said only if a firewall's own answer named an accepting policy on every hop;
\* DENY only if one answered with a denying one and all hops before it accept
\* (aggregate_verdict, degraded mode).
VerdictConfirmed ==
    /\ verdict = "ALLOW" => \A i \in DOMAIN steps : Accepts(i)
    /\ verdict = "DENY" => \E i \in DOMAIN steps : Denies(i) /\ \A j \in 1..i - 1 : Accepts(j)

Home(d, v, a) == \E i \in ToSet(Inv.intfs) : i.dev = d /\ i.vdom = v /\ i.up
                    /\ \E m \in DOMAIN i.ips : InNet(a, i.ips[m])
Override(d, v, a) == \E o \in ToSet(Inv.sites) : o.dev = d /\ o.vdom = v /\ InNet(a, o.net)
Somewhere(a) == \E i \in ToSet(Inv.intfs) : Home(i.dev, i.vdom, a)

\* Where the source is directly connected somewhere, on an interface that is up, the walk
\* starts there, however specific the static routes to it are elsewhere.
StartsAtHome ==
    steps # <<>> /\ Somewhere(Src)
        => LET s == steps[1]
           IN Home(s.dev, s.vdom, Src) \/ Override(s.dev, s.vdom, Src)

\* The interface a policy is looked up for is one of the VDOM that is asked; "any" and
\* interfaces the inventory does not list are the exceptions.
EntryBelongs == \A i \in DOMAIN steps :
    LET s == steps[i]
    IN Listed(Inv, s.dev, s.srcintf) => Interface(Inv, s.dev, s.srcintf).vdom = s.vdom

\* Every firewall is entered by the right door: the first where the source is at home
\* (README.md:716 "Connected schlägt statisch (unabhängig von der Maske)"), each by an
\* interface of the VDOM whose policies are asked for (find_ingress, _resolve_ingress).
RightDoor == StartsAtHome /\ EntryBelongs

\* What says that the flow goes on to device d: it is the only one that bears the
\* route's gateway and the route is not the default route; or the route has no gateway of
\* another device and it is a neighbour on the segment; or the destination is at home
\* there (README.md:54).
Evidence(s, d) ==
    \/ /\ s.by = "gateway_global" /\ ~s.route.dflt
       /\ \A k \in Bearers(Inv, s.route.gw) : Inv.intfs[k].dev = d \/ ~Elsewhere(Inv.intfs[k], s.dev, s.vdom)
    \/ /\ s.by = "segment"
       /\ s.route.gw # NoAddr
            => \A k \in Bearers(Inv, s.route.gw) : ~Elsewhere(Inv.intfs[k], s.dev, s.vdom)
    \/ s.by = "owner" /\ LookupOwner(Inv, Dst).dev = d
ForeignIsProven ==
    \A i \in 1..Len(steps) - 1 :
        steps[i + 1].dev # steps[i].dev => Evidence(steps[i], steps[i + 1].dev)

\* A path is not given up at an uplink while the inventory knows another device as the
\* home of the destination (rule OWNER of classify_egress).
NotGivenUp == phase \in {"judge", "done"} =>
    LET end == steps[Len(steps)]
        owner == LookupOwner(Inv, Dst)
    IN end.class = "DEFAULT" /\ end.route.found => owner = NoEntry \/ owner.dev = end.dev

\* The path goes on where it can be shown to, and only there: no other device is followed
\* without evidence, none is passed over that is known (classify_egress).
RightNext == ForeignIsProven /\ NotGivenUp
===============================================================================
