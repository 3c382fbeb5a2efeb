----------------------------- MODULE MC_PathTrace -----------------------------
(* Instances of PathTrace for TLC: three sites a, b and c.  Site a holds the source in
   network 8/2, site b the destination 17 in 16/2 behind its own VDOM link; c reuses the
   transfer address of b. *)
EXTENDS PathTrace

Net(ip, len) == [ip |-> ip, len |-> len]
Intf(d, v, n, kind, up, ips) ==
    [dev |-> d, vdom |-> v, name |-> n, kind |-> kind, up |-> up, ips |-> ips]
Static(d, v, net, n, gw) == [dev |-> d, vdom |-> v, net |-> net, intf |-> n, gw |-> gw]
Default == Net(0, 0)

Twins == [vl0 |-> "vl1", vl1 |-> "vl0"]
Ranks == [lan |-> 1, wan |-> 2, ovl |-> 3, dead |-> 0, vl0 |-> 4, vl1 |-> 5, far |-> 6]
TunnelNames == {"ovl", "dead"}
LinkNames   == {"vl0", "vl1"}
RouterNames == {"router"}

\* The VDOM of b its uplink is in; a device without a router VDOM by name has other signals.
Vdoms(front) == [a |-> <<"root">>, b |-> <<front, "root">>, c |-> <<"root">>]

SiteA == <<Intf("a", "root", "lan", "physical", TRUE, <<Net(8, 3), Net(4, 3)>>),
           Intf("a", "root", "wan", "physical", TRUE, <<Net(24, 3)>>)>>
Tunnels(front, on) ==
    IF on THEN <<Intf("a", "root", "ovl", "tunnel", TRUE, <<>>),
                 Intf("b", front, "ovl", "tunnel", TRUE, <<>>),
                 Intf("b", "root", "dead", "tunnel", FALSE, <<>>)>>
    ELSE <<>>
SiteB(front) == <<Intf("b", front, "wan", "physical", TRUE, <<Net(25, 3)>>),
                  Intf("b", front, "vl0", "vdom-link", TRUE, <<Net(28, 4)>>),
                  Intf("b", "root", "vl1", "vdom-link", TRUE, <<Net(29, 4)>>),
                  Intf("b", "root", "lan", "physical", TRUE, <<Net(16, 3)>>)>>
SiteC(c) == CASE c = "none" -> <<>>
              [] c = "up"   -> <<Intf("c", "root", "far", "physical", TRUE, <<Net(25, 3)>>)>>
              [] c = "down" -> <<Intf("c", "root", "far", "physical", FALSE, <<Net(25, 3), Net(16, 3)>>)>>
              [] c = "near" -> <<Intf("c", "root", "far", "physical", TRUE, <<Net(26, 3)>>)>>

\* Static routes: a's way out, b's way between its VDOMs, a more specific one on c to
\* networks it does not hold.
Routes(front, gw, net) ==
    <<Static("a", "root", net, "wan", gw),
      Static("b", front, Net(16, 3), "vl0", 29), Static("b", "root", Default, "vl1", 28),
      Static("c", "root", Net(9, 5), "far", 24), Static("c", "root", Net(17, 5), "far", 24)>>

Policies(front) ==
    {[dev |-> "a", vdom |-> "root", pid |-> 1, action |-> "accept"],
     [dev |-> "b", vdom |-> front, pid |-> 1, action |-> "deny"],
     [dev |-> "b", vdom |-> front, pid |-> 2, action |-> "accept"],
     [dev |-> "b", vdom |-> "root", pid |-> 2, action |-> "accept"],
     [dev |-> "b", vdom |-> "root", pid |-> 8, action |-> "deny"]}
\* A global policy under its own id, and one listed without the offset of 8.
GlobalPolicies == {[pid |-> 8, action |-> "accept"], [pid |-> 1, action |-> "deny"]}

Site(net, d, v) == [net |-> net, dev |-> d, vdom |-> v]
SitesOf(s) == CASE s = "none"  -> <<>>
                [] s = "moved" -> <<Site(Net(16, 3), "c", "root")>>
                [] s = "new"   -> <<Site(Net(8, 3), "a", "root"), Site(Net(16, 4), "new", "root")>>
                [] s = "front" -> <<Site(Net(16, 3), "b", "router")>>
                [] s = "blind" -> <<Site(Net(3, 5), "c", "root")>>

Says(d, v, n, gw, dflt) == [dev |-> d, vdom |-> v, route |-> Route(n, gw, dflt, TRUE)]

\* Firewalls that answer otherwise than the inventory says, in a circle too.
Answers ==
    {Says("a", "root", "wan", gw, dflt) : gw \in {25, 26, NoAddr}, dflt \in BOOLEAN}
    \cup {Says("a", "root", "ovl", NoAddr, FALSE),
          Says("b", "router", "vl0", 29, FALSE), Says("b", "router", "wan", 24, TRUE),
          Says("b", "root", "lan", NoAddr, FALSE), Says("b", "root", "vl1", 28, TRUE),
          Says("c", "root", "far", 25, FALSE), Says("c", "root", "lan", NoAddr, FALSE)}

Setup(src, dst, front, c, tun, gw, len, site, live, pids) ==
    [src |-> src, dst |-> dst, front |-> front, c |-> c, tun |-> tun, gw |-> gw, len |-> len,
     site |-> site, live |-> live, pids |-> pids]

\* Routing by the inventory alone: what each gateway, reused or not, leads to.  21 is an
\* address no firewall has a network for.
ByInventory ==
    {Setup(9, 17, front, c, tun, gw, len, site, FALSE, {}) :
        front \in {"router", "edge"}, c \in {"none", "up", "down", "near"}, tun \in BOOLEAN,
        gw \in {25, 26, 27, NoAddr}, len \in {0, 3}, site \in {"none", "moved", "new"}}
    \cup {Setup(9, 21, "router", c, FALSE, gw, 0, "none", FALSE, {}) :
            c \in {"none", "up", "down"}, gw \in {25, 27}}
ByAnswer ==
    {Setup(9, 17, "router", c, TRUE, 25, 0, site, TRUE, {1, 2}) :
        c \in {"up", "near"}, site \in {"none", "moved", "new", "front"}}
\* The verdict: policies known, global, reserved without one, and unknown.
ByPolicy == {Setup(9, 17, "router", "none", FALSE, 25, 3, "none", FALSE, {0, 1, 2, 7, 8, 9, 10})}
\* Sources that are nowhere, or at an override whose device has no network for them.
Nowhere == {Setup(31, 17, "router", "none", FALSE, 25, 0, "none", FALSE, {}),
            Setup(3, 17, "router", "none", FALSE, 25, 0, "none", FALSE, {}),
            Setup(3, 17, "router", "none", FALSE, 25, 0, "blind", FALSE, {})}

Synced(s) ==
    Rebuilt([devices |-> <<"a", "b", "c">>, vdoms |-> Vdoms(s.front),
             intfs |-> SiteA \o SiteB(s.front) \o SiteC(s.c) \o Tunnels(s.front, s.tun),
             routes |-> Routes(s.front, s.gw, Net(IF s.len = 0 THEN 0 ELSE 16, s.len)),
             sites |-> SitesOf(s.site), policies |-> Policies(s.front),
             globals |-> GlobalPolicies])
World(s) == [src |-> s.src, dst |-> s.dst, pids |-> s.pids, inv |-> Synced(s),
             live |-> IF s.live THEN Answers ELSE {}]
AllWorlds   == {World(s) : s \in ByInventory \cup ByAnswer \cup ByPolicy \cup Nowhere}
===============================================================================
