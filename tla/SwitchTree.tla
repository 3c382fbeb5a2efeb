------------------------------ MODULE SwitchTree ------------------------------
(***************************************************************************)
(* The switches that carry one VLAN of one site (diagram/segments.py,      *)
(* vlan_switches) and the tree they form under the firewall, with each     *)
(* host at the port where it is at home (diagram/vlanphys.py, build).      *)
(*                                                                         *)
(* A question holds: links, the LLDP links [l, port, r, names]: the device *)
(* and port that reports, the device it names if LibreNMS knows it, and    *)
(* what the name is: "me" (the firewall), "switch", "other" or "none";     *)
(* me, devices that are the firewall; fw, devices known as firewalls; mgmt,*)
(* devices managed in a net of the firewall; carry, devices with a row of  *)
(* the VLAN; tagged; fdb, rows [port, mac, vlan]; mute, devices whose FDB  *)
(* cannot be read; lag; count, MACs of a port; wide, ports of many VLANs;  *)
(* mac and hv of every host: the hypervisors a VM may run on; server, the  *)
(* MAC of a hypervisor.                                                    *)
(***************************************************************************)
EXTENDS Requests, Integers, FiniteSets, FiniteSetsExt

CONSTANTS
    Monitored,           \* devices LibreNMS knows
    MaxHops, MaxSwitches, AccessMaxMacs,
    NoMac, NoDevice
ASSUME MonitoredAssumption == IsFiniteSet(Monitored) /\ NoDevice \notin Monitored

----------------------------------------------------------------------------
(* vlan_switches *)

\* Devices beside the firewall, seen from either end.
Start(q) == {ln.l : ln \in {k \in q.links : k.l \in Monitored \ q.fw /\ (k.names = "me" \/ k.r \in q.me)}}
            \cup {ln.r : ln \in {k \in q.links : k.l \in q.me /\ k.r \in Monitored \ q.fw}}

Beside(q, ds) ==
    {d \in Monitored : \E ln \in q.links, e \in ds : <<ln.l, ln.r>> \in {<<d, e>>, <<e, d>>}}

\* Not across firewalls, and not further than MAX_LLDP_HOPS.
ByLldp(q) ==
    LET within[k \in 0..MaxHops] ==
          IF k = 0 THEN Start(q)
          ELSE LET near == within[k - 1] IN near \cup (Beside(q, near) \ q.fw)
    IN  within[MaxHops]

VlanSwitches(q) == IF q.tagged THEN (ByLldp(q) \cup (q.mgmt \ q.fw)) \cap q.carry ELSE Start(q)

\* build: at most MAX_SWITCHES are asked, those found by LLDP first.
Candidates(q) ==
    LET all == VlanSwitches(q)
    IN  IF Cardinality(all) <= MaxSwitches THEN {all}
        ELSE {s \in kSubset(MaxSwitches, all) : all \cap ByLldp(q) \subseteq s \/ s \subseteq ByLldp(q)}

----------------------------------------------------------------------------
(* Ports and hosts *)

\* port_nb: a monitored device, a known name or the firewall make an uplink.
LinksAt(q, p) == {ln \in q.links : <<ln.l, ln.port>> = p}
IsUplink(ln) == ln.r \in Monitored \/ ln.names \in {"me", "switch"}

KindM(q, p) == IF p \in q.lag THEN "uplink"
               ELSE IF \E ln \in LinksAt(q, p) : ln.names = "other" THEN "edge"
               ELSE IF q.count[p] <= AccessMaxMacs /\ p \notin q.wide THEN "access" ELSE "trunk"
Kind(q, p) == IF \E ln \in LinksAt(q, p) : IsUplink(ln) THEN "uplink"
              ELSE IF \E ln \in LinksAt(q, p) : ln.names = "other" THEN "edge"
              ELSE IF p \in q.lag THEN "uplink"
              ELSE IF q.count[p] <= AccessMaxMacs /\ p \notin q.wide THEN "access" ELSE "trunk"
DeviceRank(k) == CASE k = "access" -> 0 [] k = "edge" -> 1 [] OTHER -> 2

\* The FDB rows of the switches that were asked and answered.
Rows(q, cands) == {r \in q.fdb : r.port[1] \in cands \ q.mute}

\* Two hosts with one MAC: the table keeps the last of them.
HostOf(q, m) == CHOOSE h \in DOMAIN q.mac : q.mac[h] = m

ServerPorts(q, rows, v) ==
    {r.port : r \in {k \in rows : k.mac = q.server[v] /\ Kind(q, k.port) # "uplink"}}

Rank(q, rows, h, p) ==
    <<IF \E v \in q.hv[h] : p \in ServerPorts(q, rows, v) THEN -1 ELSE DeviceRank(Kind(q, p)), q.count[p]>>
Less(a, b) == a[1] < b[1] \/ (a[1] = b[1] /\ a[2] < b[2])

\* best: the port of the MAC in this VLAN that is not an uplink.
Homes(q, rows, h) ==
    LET ps == {r.port : r \in {k \in rows : k.mac = q.mac[h] /\ k.vlan /\ Kind(q, k.port) # "uplink"}}
    IN  {p \in ps : \A o \in ps : ~Less(Rank(q, rows, h, o), Rank(q, rows, h, p))}

\* A VM no FDB shows stands at the port of its server, if there is one hypervisor only.
ServerHomes(q, rows, h) ==
    IF Cardinality(q.hv[h]) # 1 THEN {}
    ELSE LET ps == UNION {ServerPorts(q, rows, v) : v \in q.hv[h]}
             key(p) == <<DeviceRank(Kind(q, p)), q.count[p]>>
         IN  {p \in ps : \A o \in ps : ~Less(key(o), key(p))}

\* attach: where each host stands; no port: it is listed beside the drawing.
Places(q, rows, h) ==
    LET own == IF q.mac[h] # NoMac /\ HostOf(q, q.mac[h]) = h THEN Homes(q, rows, h) ELSE {}
    IN  IF own # {} THEN own ELSE ServerHomes(q, rows, h)

----------------------------------------------------------------------------
(* The tree *)

Roots(q) == ({ln.l : ln \in {k \in q.links : k.l \in Monitored /\ (k.names = "me" \/ k.r \in q.me)}}
             \cup {ln.r : ln \in {k \in q.links : k.l \in q.me /\ k.r \in Monitored}}) \ q.me

\* Breadth first from the roots; NoDevice stands for the firewall.
Levels(q) ==
    LET n == Cardinality(Monitored)
        upto[k \in 0..n] ==
          IF k = 0 THEN [d \in Roots(q) |-> 1]
          ELSE LET near == upto[k - 1]
                   next == Beside(q, DOMAIN near) \ (q.me \cup q.fw)
               IN  [d \in DOMAIN near \cup next |-> IF d \in DOMAIN near THEN near[d] ELSE k + 1]
    IN  upto[n]
Parents(q, lv, d) ==
    IF lv[d] = 1 THEN {NoDevice} ELSE {e \in DOMAIN lv : lv[e] = lv[d] - 1 /\ d \in Beside(q, {e})}

\* keep: the switches with hosts and those on their way to the firewall.
Keep(parent, withHosts) ==
    LET up[k \in 0..Cardinality(Monitored)] ==
          IF k = 0 THEN withHosts
          ELSE LET kept == up[k - 1]
               IN  kept \cup ({parent[d] : d \in kept \cap DOMAIN parent} \ {NoDevice})
    IN  up[Cardinality(Monitored)]

\* out["links"], out["fw_links"]: one line for each pair, one for each switch at the
\* firewall, and a dashed one for a switch without a way.
SwitchLines(q, keep) == {{ln.l, ln.r} : ln \in {k \in q.links : k.l # k.r /\ {k.l, k.r} \subseteq keep}}
Between(keep, ln) == ln.l # ln.r /\ {ln.l, ln.r} \subseteq keep
FirewallLines(q, keep) ==
    {ln.l : ln \in {k \in q.links : k.l \in keep /\ ~Between(keep, k) /\ (k.names = "me" \/ k.r \in q.me)}}
    \cup {ln.r : ln \in {k \in q.links : k.l \in q.me /\ k.r \in keep /\ ~Between(keep, k)
                                        /\ ~(k.l \in keep /\ (k.names = "me" \/ k.r \in q.me))}}
DashedM(q, keep, levels, solid) == {}
Dashed(q, keep, levels, solid) == keep \ (levels \cup solid)

\* Ties are broken by the order of names.
Draw ==
    /\ Pending("tree")
    /\ \E cands \in Candidates(asked) :
       LET rows == Rows(asked, cands)
           lv   == Levels(asked)
           at   == [h \in DOMAIN asked.mac |->
                      LET ps == Places(asked, rows, h)
                      IN  IF ps = {} THEN NoDevice ELSE CHOOSE p \in ps : TRUE]
           parent == [d \in DOMAIN lv |-> CHOOSE e \in Parents(asked, lv, d) : TRUE]
           keep   == Keep(parent, {at[h][1] : h \in {g \in DOMAIN at : at[g] # NoDevice}})
           solid  == FirewallLines(asked, keep)
       IN  Give([kind |-> "tree", asked |-> cands, at |-> at, keep |-> keep,
                 lines |-> SwitchLines(asked, keep), solid |-> solid,
                 dashed |-> Dashed(asked, keep, DOMAIN lv, solid)])

----------------------------------------------------------------------------
(* Properties *)

\* A host stands only where it is at home: never at a port that leads to a switch or
\* a firewall, at an aggregate only if a device that is neither is known behind it, and
\* at no trunk while one of the switches asked
\* has its MAC at an access port, unless its hypervisor is behind the trunk
\* (vlanphys.build: kind, best, attach). The head of that
\* file (:23-25) says more, that no host is drawn at a trunk; the code draws one that has
\* nothing but a trunk there.
HostsAtHome ==
    reply.kind = "tree" =>
      \A h \in DOMAIN reply.at : reply.at[h] # NoDevice =>
        LET p == reply.at[h]
            rows == Rows(asked, reply.asked)
        IN  /\ \A ln \in asked.links : <<ln.l, ln.port>> = p =>
                   ln.names \notin {"me", "switch"} /\ ln.r \notin Monitored
            /\ p \in asked.lag => \E ln \in asked.links : <<ln.l, ln.port>> = p /\ ln.names = "other"
            /\ \A r \in rows : r.mac = asked.mac[h] /\ r.vlan /\ Kind(asked, r.port) = "access" =>
                 \/ Kind(asked, p) = "access"
                 \/ asked.mac[h] # NoMac /\ HostOf(asked, asked.mac[h]) # h
                 \/ \E v \in asked.hv[h], s \in rows : s.mac = asked.server[v] /\ s.port = p

\* What lines of a drawing join to the firewall.
Joined(drawn) ==
    LET joined[k \in 0..Cardinality(Monitored)] ==
          IF k = 0 THEN (drawn.solid \cup drawn.dashed) \cap drawn.keep
          ELSE LET near == joined[k - 1]
               IN  near \cup {d \in drawn.keep : \E e \in near : {d, e} \in drawn.lines}
    IN  joined[Cardinality(Monitored)]

\* The drawing hangs together: from every switch that is drawn, lines of the drawing
\* lead to the firewall (vlanphys.build: keep, links, fw_links).
TreeHangsTogether == reply.kind = "tree" => reply.keep \subseteq Joined(reply)
=============================================================================
