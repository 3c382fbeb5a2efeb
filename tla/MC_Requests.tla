------------------------------ MODULE MC_Requests ------------------------------
(***************************************************************************)
(* The handlers that answer from what they read, for TLC: the switch ports *)
(* and VLANs (Switches, SwitchTree), the plans (NetPlan, Services, Sheets, *)
(* PlanRequest), the addresses (Ipam) and the port analysis, which takes   *)
(* several steps (PortAnalysis).  One question is asked in a behaviour.    *)
(***************************************************************************)
EXTENDS Answers, MC_PortAnalysis, TLC

CONSTANTS p1, p2, fw1, sw1, sw2, sw3, host1, host2, mac1, mac2, mac3, vm1, vm2

----------------------------------------------------------------------------
(* Switches *)

\* Rows of one MAC's FDB: a fresh one, the newest plus one bucket, one past StaleAfter.
PortRow == [age : {0, 1, 7, NoAge}, macs : {1, 9}, text : Texts, device : {TRUE}] \cup
           [age : {0, 7}, macs : {0}, text : {"none"}, device : {FALSE}]
PortLinks == [{p1, p2} -> {"none", "other", "monitored"}] \cup {p1 :> s @@ p2 :> "none" : s \in {"self", "namesake"}}
AskPort ==
    \E f \in [{p1} -> PortRow] \cup [{p1, p2} -> PortRow], l \in PortLinks \cup {NoLinks},
       s \in {"live", "cache"} :
        asked = [kind |-> "port", fdb |-> f, links |-> l, from |-> s]
VlanRow == [id : {1}, num : {0, 3, 4, 5, Bad}] \cup [id : {2}, num : {2, 4}]
FwVlan  == [vlan : {0, 2, 4}, covers : BOOLEAN, source : {"connected", "static"}]
AskVlan ==
    \E r1 \in VlanRow, r2 \in VlanRow, f1 \in 0..2, i \in FwVlan, j \in FwVlan :
        asked = [kind |-> "vlan", rows |-> <<r1, r2>>, found |-> <<f1, 1>>, fw |-> {i, j}]
----------------------------------------------------------------------------
(* SwitchTree: three switches in a circle below the firewall, two hosts *)

Devices == {fw1, sw1, sw2, sw3}
Wires   == {<<sw1, fw1>>, <<fw1, sw1>>, <<sw1, sw2>>, <<sw3, sw2>>, <<sw3, sw1>>}
Link(w) == [l |-> w[1], port |-> w[2], r |-> w[2], names |-> IF w[2] = fw1 THEN "me" ELSE "switch"]
EdgeLinks == {[l |-> s, port |-> "edge", r |-> NoDevice, names |-> "other"] : s \in {sw1, sw2, sw3}}
Ports == {sw1, sw2, sw3} \X ({"acc", "trunk", "edge", "lag"} \cup Devices)
Learned(m, on) == {[port |-> <<k, on[k]>>, mac |-> m, vlan |-> TRUE] :
                      k \in {j \in DOMAIN on : on[j] # "none"}}

AskTree ==
    \E ws \in SUBSET Wires, fws \in {{}, {fw1}}, carry \in {{sw1, sw2, sw3}, {sw2, sw3}},
       mute \in {{}, {sw2}}, a \in {"none", "trunk"}, b \in {"none", "acc", "trunk"},
       up \in {{}, {<<sw1, sw2>>}, {<<sw2, "edge">>}, {<<sw2, "lag">>}},
       x \in {<<mac2, {vm1}>>, <<NoMac, {vm1, vm2}>>, <<mac1, {}>>} :
        asked = [kind |-> "tree", links |-> {Link(w) : w \in ws} \cup EdgeLinks, me |-> {fw1},
                 fw |-> fws, mgmt |-> {sw3}, carry |-> carry, tagged |-> TRUE, mute |-> mute,
                 wide |-> {}, lag |-> {<<sw2, "edge">>} \cup {p \in Ports : p[2] = "lag"},
                 count |-> [p \in Ports |-> IF p[2] \in {"acc", "edge"} THEN 1 ELSE 9],
                 mac |-> (host1 :> mac1 @@ host2 :> x[1]), hv |-> (host1 :> {} @@ host2 :> x[2]),
                 server |-> (vm1 :> mac3 @@ vm2 :> mac3),
                 fdb |-> Learned(mac1, sw1 :> a @@ sw2 :> b @@ sw3 :> "trunk")
                         \cup Learned(mac3, sw1 :> "trunk")
                         \cup {[port |-> p, mac |-> mac2, vlan |-> TRUE] : p \in up}]
----------------------------------------------------------------------------
(* NetPlan and Services *)

Net(d, v, lo, size, ip, on) ==
    [dev |-> d, vdom |-> v, lo |-> lo, size |-> size, ip |-> ip, on |-> on, gw |-> -1]
PlanNets == {Net("a", "x", 0, 4, 1, TRUE), Net("a", "x", 4, 2, 4, TRUE), Net("a", "y", 6, 2, 6, TRUE),
             Net("a", "y", 8, 4, 9, FALSE), Net("b", "x", 12, 4, 13, TRUE)}
ThreeVdoms == {<<"a","x">>, <<"a","y">>, <<"b","x">>}
PlanSupernets == {[site |-> "S", lo |-> 0, size |-> 16], [site |-> "T", lo |-> 4, size |-> 4],
                  [site |-> "U", lo |-> 6, size |-> 8], [site |-> "T", lo |-> 8, size |-> 8]}
Static(of, default, gw, lo, size) ==
    [of |-> of, default |-> default, peer |-> <<"none","none">>, gw |-> gw, lo |-> lo, size |-> size]
PlanRoutes == {Static(<<"a","x">>, TRUE, -1, 0, 16), Static(<<"a","y">>, FALSE, 13, 12, 4),
               Static(<<"a","x">>, FALSE, 7, 12, 4)}
PlanScopes == {<<"global", "all">>, <<"site", "S">>, <<"firewall", "a">>, <<"vdom", <<"a","x">>>>}
AskPlan ==
    \E ns \in SUBSET PlanNets, sp \in SUBSET PlanSupernets, ov \in {<<>>, <<"a","y">> :> "T"},
       sc \in PlanScopes, h \in {{1, 2}, {2, 5}, {1, 2, 5}}, age \in BOOLEAN :
        asked =
          [kind |-> "plan", nets |-> ns, vdoms |-> ThreeVdoms, supernets |-> sp, override |-> ov,
           scope |-> sc[1], of |-> sc[2], vlinks |-> {{<<"a","x">>, <<"a","y">>}},
           routes |-> PlanRoutes, maxAge |-> age,
           hosts |-> IF sc[1] = "firewall" THEN "netdev" ELSE "auto",
           cis |-> {[id |-> a, ip |-> a, netdev |-> a = 5] : a \in h \ {1}},
           addr |-> {[ip |-> 0, used |-> TRUE], [ip |-> 12, used |-> FALSE]},
           libre |-> h \cap {2}, faz |-> {14},
           arp |-> {[ip |-> 2, old |-> TRUE], [ip |-> 7, old |-> FALSE]}]
\* The last three overlap the others, as nets of several VDOMs do.
ServiceNets == {Net("a", "y", 4, 4, 5, TRUE), [Net("b", "x", 4, 4, 6, FALSE) EXCEPT !.gw = 6],
                Net("b", "x", 0, 8, 7, TRUE), Net("b", "x", 8, 2, 9, TRUE)}
FirstNet == [Net("a", "x", 0, 4, 1, TRUE) EXCEPT !.gw = 1]
ServiceTables(ns, ls, hi, hs, ips) ==
    [nets |-> ns, vdoms |-> ThreeVdoms, override |-> <<>>,
     supernets |-> {[site |-> "S", lo |-> 0, size |-> 8], [site |-> "T", lo |-> 4, size |-> 4]},
     hideItop |-> hi, hideService |-> hs, maxAge |-> TRUE,
     cis |-> {[id |-> a, ip |-> a, netdev |-> FALSE] : a \in ips},
     addr |-> {[ip |-> 6, used |-> TRUE]}, libre |-> {3},
     arp |-> {[ip |-> 2, old |-> TRUE], [ip |-> 5, old |-> FALSE]}, faz |-> {6},
     families |-> {"f"}, services |-> [s \in {"s1", "s2", "s3"} |-> IF s = "s3" THEN "gone" ELSE "f"],
     links |-> ls, names |-> [a \in ips |-> a % 4]]
ServiceLink == [svc : {"s1"}, ci : {2, 5, 77}, name : {1, 2}, shell : BOOLEAN] \cup
               [svc : {"s2"}, ci : {2, 8}, name : {2}, shell : {FALSE}]
Chains == {[dev |-> "a", named |-> NoVdom, edge |-> "x", overlay |-> "y"],
           [dev |-> "b", named |-> NoVdom, edge |-> NoVdom, overlay |-> NoVdom]}
AskServices ==
    \E ns \in SUBSET ServiceNets, l1 \in ServiceLink, l2 \in ServiceLink, hi \in BOOLEAN,
       hs \in BOOLEAN, ips \in {{2, 5, 9}, {2, 6, 5, 8}} :
        LET tables == ServiceTables({FirstNet} \cup ns, {l1, l2}, hi, hs, ips)
        IN  \/ \E of \in {[kind |-> "all"], [kind |-> "family", id |-> NoFamily]} :
                  asked = tables @@ [kind |-> "services", of |-> of]
            \/ /\ hi = hs
               /\ \E sel \in {{}, {FirstNet}} :
                    asked = tables @@ [kind |-> "segments", of |-> [kind |-> "service", id |-> "s1"],
                                       selected |-> sel, chains |-> Chains]
            \/ /\ ~hi /\ ~hs
               /\ \E of \in {[kind |-> "service", id |-> "s1"], [kind |-> "family", id |-> NoFamily]} :
                    asked = tables @@ [kind |-> "choice", of |-> of]

----------------------------------------------------------------------------
(* Sheets *)

OneVdom  == [ups : {0, 1, 7}, nets : {<<>>, <<0>>, <<2, 4>>}]
Boxes    == {[vdoms |-> v, switches |-> s] :
                v \in {<<a>> : a \in OneVdom} \cup {<<a, [ups |-> 1, nets |-> <<3>>]>> : a \in OneVdom},
                s \in {0, 1, 5}}
SmallBox == {[vdoms |-> <<[ups |-> 0, nets |-> n]>>, switches |-> s] : n \in {<<>>, <<3, 1>>}, s \in {0, 4}}
Site(named, devices) == [named |-> named, devices |-> devices]
AskStructure ==
    \E d \in Boxes, e \in SmallBox, c \in BOOLEAN :
        \/ \E n \in BOOLEAN :
              asked = [kind |-> "structure", sites |-> <<Site(n, <<d, e>>)>>, collapse |-> c]
        \/ asked = [kind |-> "structure", collapse |-> c,
                    sites |-> <<Site(TRUE, <<e, e, d>>), Site(TRUE, <<e>>), Site(TRUE, <<d>>)>>]

FamilyService == [nets : UNION {[1..n -> [fw : 1..2, hosts : {0, 4}]] : n \in {0, 1, 3}}, lines : {0, 3}]
AskFamily ==
    \E a \in FamilyService, second \in BOOLEAN, f \in {0, 2} :
        asked = [kind |-> "family", fws |-> f, services |->
                    IF second THEN <<a, [nets |-> <<[fw |-> 2, hosts |-> 1]>>, lines |-> 0]>> ELSE <<a>>]

SegmentFws == {[vdoms |-> 0, router |-> TRUE], [vdoms |-> 1, router |-> FALSE], [vdoms |-> 2, router |-> TRUE]}
SegmentSite == {[segments |-> s, firewalls |-> f] :
    s \in {<<<<1, 1, 2>>>>, <<<<>>, <<1, 2, 3, 3, 3>>>>},
    f \in {<<[vdoms |-> 1, router |-> TRUE]>>,
           <<[vdoms |-> 2, router |-> FALSE], [vdoms |-> 0, router |-> TRUE]>>}}
AskSegments ==
    \/ \E h \in UNION {[1..n -> 1..3] : n \in 0..4}, t \in BOOLEAN, f \in SegmentFws :
          asked = [kind |-> "segmentpage", tagged |-> t,
                   sites |-> <<[segments |-> <<h>>, firewalls |-> <<f>>]>>]
    \/ \E s \in UNION {[1..n -> SegmentSite] : n \in 1..3}, t \in BOOLEAN :
          asked = [kind |-> "segmentpage", tagged |-> t, sites |-> s]

PageSwitch == [level : {0, 1, 3}, lines : {1, 3}, rows : {0, 3}, groups : {<<>>, <<3, 1>>}, unknown : BOOLEAN]
AskVlanSheet ==
    \E a \in PageSwitch, b \in {w \in PageSwitch : w.lines = 1}, u \in {0, 2, 41} :
        asked = [kind |-> "vlanpage", switches |-> <<a, b>>, unplaced |-> u, tags |-> 2]
LogicalNet == UNION {[1..n -> {"pc", "server", "switch"}] : n \in 0..4}
AskLogical ==
    \E a \in LogicalNet, b \in {n \in LogicalNet : Len(n) < 3} :
        asked = [kind |-> "logical", vdoms |-> <<<<a, b>>, <<b>>>>]
AskInfra ==
    \E l \in SUBSET {w \in (1..4) \X (1..4) : w[1] < w[2]}, k \in {{}, {1}, {2, 3}, 1..4} :
        asked = [kind |-> "infra", links |-> l, known |-> k]
----------------------------------------------------------------------------
(* PlanRequest: what may be away, refuse or be incomplete *)

Calls == {"ipam", "hosts", "addresses", "virtualization", "index", "lldp", "vlans", "fdb", "endpoints",
          "wininv", "monitored", "triggers", "services", "filter", "locations", "groups"}
\* One system or one call is away, or two calls are.
AllOn   == [s \in Systems |-> "on"]
OneAway == {[AllOn EXCEPT ![s] = "off"] : s \in Systems} \cup
           {[AllOn EXCEPT ![s] = "disabled"] : s \in Systems \ {"faz", "librenms", "fmg"}}
Away == {<<AllOn, f>> : f \in {c \in SUBSET Calls : Cardinality(c) <= 2}} \cup
        {<<s, f>> : s \in OneAway, f \in {{c} : c \in Calls} \cup {{}}}
Flags == {{}, {"global"}, {"unknown"}, {"nohosts"}, {"named"}, {"named", "unknown"}, {"nomon"},
          {"filter"}, {"skipped"}, {"families"}, {"families", "named"}, {"services"}, {"links"}}
AnyHost == {h \in [ci : BOOLEAN, address : BOOLEAN, linked : BOOLEAN, monitored : BOOLEAN] :
              h.linked => h.ci}
FullHost == [ci |-> TRUE, address |-> TRUE, linked |-> TRUE, monitored |-> TRUE]
SheetQuestion(v, fl, a, h, l) ==
    [kind |-> "sheet", view |-> v, global |-> "global" \in fl, known |-> "unknown" \notin fl,
     hosts |-> "nohosts" \notin fl, named |-> "named" \in fl, monitoring |-> "nomon" \notin fl,
     filter |-> "filter" \in fl, skipped |-> "skipped" \in fl,
     lost |-> fl \cap {"families", "services", "links"}, state |-> a[1], fails |-> a[2], host |-> h, links |-> l]
Sheeted == {"structure", "services", "segments", "switches"}
Listed  == {"physical", "filters", "hardware", "families", "networks"}
AskSheet ==
    \/ \E v \in Sheeted, a \in Away, h \in AnyHost :
          asked = SheetQuestion(v, {}, a, h, <<"links", "offline">>)
    \/ \E v \in Sheeted \cup Listed, fl \in Flags, a \in {b \in Away : Cardinality(b[2]) <= 1},
          l \in {<<"links", "offline">>, <<"refused">>} :
          asked = SheetQuestion(v, fl, a, FullHost, l)

----------------------------------------------------------------------------
(* Ipam: one net of eight addresses *)

Span(lo, hi) == [lo |-> lo, hi |-> hi]
Signs(p, d, a) == [ping |-> p, dns |-> d, arp |-> a]
Silent   == Signs("silent", FALSE, FALSE)
Evidence == {<<"none", Silent>>, <<"none", Signs("answers", FALSE, FALSE)>>, <<"ci", Silent>>,
             <<"released", Signs("silent", TRUE, FALSE)>>, <<"none", Signs("unavailable", FALSE, FALSE)>>}
AskFree ==
    \E e \in [2..5 -> Evidence], w \in 1..2, g \in {0, 3}, d \in {{}, {Span(4, 4)}}, f \in {0, 2},
       l \in {4, 7} :
        asked = [kind |-> "addresses", net |-> Span(0, 7), first |-> f, last |-> l, want |-> w,
                 gateway |-> g, dhcp |-> d,
                 claim |-> [a \in 0..7 |-> IF a \in 2..5 THEN e[a][1] ELSE "none"],
                 signs |-> [a \in 0..7 |-> IF a \in 2..5 THEN e[a][2] ELSE Silent]]

NestedBlocks == {Span(0, 7), Span(8, 15), Span(0, 3), Span(4, 5), Span(6, 6), Span(12, 15), Span(0, 15)}
AskBlocks ==
    \E n \in {Span(0, 7), Span(0, 3)}, z \in {1, 2, 4, 16}, s \in SUBSET NestedBlocks :
        asked = [kind |-> "blocks", supernet |-> n, size |-> z, subnets |-> s]
AskNets ==
    \E s \in {t \in SUBSET NestedBlocks : Cardinality(t) \in 1..3}, y \in NestedBlocks :
        \E x \in SetToAllKPermutations(s) : asked = [kind |-> "nets", sites |-> <<y>>, subnets |-> x]

Source(ci, status, macs, faz, win, fw) ==
    [ci |-> ci, status |-> status, macs |-> macs, faz |-> faz, win |-> win, firewall |-> fw]
Binding(mac, since, age) == [mac |-> mac, since |-> since, age |-> age]
AddressSources == {Source(FALSE, "none", {}, Never, Never, FALSE), Source(TRUE, "none", {}, Never, Never, FALSE),
            Source(FALSE, "reserved", {}, Never, 4, FALSE),
            Source(FALSE, "allocated", {Binding("a", 9, 2)}, Never, Never, FALSE),
            Source(FALSE, "released", {Binding("a", 9, 0), Binding("b", 0, 0)}, Never, Never, FALSE),
            Source(FALSE, "none", {Binding("a", 9, 1), Binding("b", 0, 0)}, Untimed, 5, FALSE),
            Source(TRUE, "none", {Binding("a", 9, 5)}, 5, 9, FALSE),
            Source(TRUE, "allocated", {}, Untimed, Never, FALSE),
            Source(TRUE, "none", {Binding("a", 9, 9)}, Never, 1, TRUE),
            Source(FALSE, "none", {}, 0, Never, FALSE), Source(FALSE, "none", {}, Never, 1, FALSE)}
AskReconcile ==
    \E o \in {f \in [0..3 -> AddressSources] : f[3] = f[0]} :
        asked = [kind |-> "reconcile", net |-> Span(0, 3), of |-> o]

----------------------------------------------------------------------------

Asked ==
    \/ AskPort \/ AskVlan \/ AskTree
    \/ AskPlan \/ AskServices
    \/ AskStructure \/ AskFamily \/ AskSegments \/ AskVlanSheet \/ AskLogical \/ AskInfra
    \/ AskSheet
    \/ AskFree \/ AskBlocks \/ AskNets \/ AskReconcile

\* Either a path is analysed, or something else is asked and one path waits.
RequestsInit ==
    /\ Init /\ reply = None
    /\ IF path = <<Hop(<<>>, Missing)>> THEN Asked ELSE asked = [kind |-> "path"]

RequestsNext ==
    \/ asked.kind = "path" /\ Next /\ UNCHANGED requestVars
    \/ AnswersNext /\ UNCHANGED vars

RequestsSpec == RequestsInit /\ [][RequestsNext]_<<vars, requestVars>>
================================================================================
