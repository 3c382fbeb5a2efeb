------------------------------ MODULE Inventory ------------------------------
(***************************************************************************)
(* The read models of one synchronized inventory (inventory/store.py) and  *)
(* the prefix table built from it (inventory/prefixes.py), as far as a     *)
(* path is derived from them.  An inventory is a record                    *)
(*   devices : the devices in the order of the snapshot                    *)
(*   vdoms   : vdoms[d], the VDOMs of device d in order                    *)
(*   intfs   : the interface records [dev, vdom, name, kind, up, ips],     *)
(*             ips the primary address first; an address is [ip, len]      *)
(*   routes  : the static routes [dev, vdom, net, intf, gw]                *)
(*   sites   : the site overrides [net, dev, vdom]                         *)
(*   prefixes: the prefix table, built when the inventory is loaded        *)
(* What the code reads off names (patterns for overlays, VDOM links,       *)
(* router VDOMs, the <base>0/<base>1 convention) are constants.            *)
(***************************************************************************)
EXTENDS Integers, Sequences, SequencesExt, FiniteSets, FiniteSetsExt, TLC

CONSTANTS
    Bits,           \* addresses have this many bits
    OverlayName,    \* interface names overlay_pattern finds
    LinkName,       \* interface names that look like the end of a VDOM link
    Twin,           \* Twin[n]: the name of the other end, for names <base>0 and <base>1
    RouterName,     \* VDOM names router_vdom_pattern finds
    NoIntf, NoAddr, \* an override without interface; a route without gateway
    NoEntry         \* no entry of the prefix table

ASSUME BitsAssumption == Bits \in Nat

Addr == 0..2^Bits - 1

\* Network and address records: the first len bits of ip count.
Prefix(a, len) == a \div 2^(Bits - len)
InNet(a, net) == Prefix(a, net.len) = Prefix(net.ip, net.len)

\* Lists one after the other; what is first in a list at one of some positions.
Concat(s) ==
    LET upTo[k \in 0..Len(s)] == IF k = 0 THEN <<>> ELSE upTo[k - 1] \o s[k]
    IN upTo[Len(s)]
First(s, positions) == s[Min(positions)]

(* --------------------------- interfaces --------------------------- *)

\* interface(): the record of a name on a device, if the snapshot has one.
Records(inv, d, n) == {i \in ToSet(inv.intfs) : i.dev = d /\ i.name = n}
Listed(inv, d, n) == Records(inv, d, n) # {}
Interface(inv, d, n) == CHOOSE i \in Records(inv, d, n) : TRUE

\* connected_networks(): <<network, interface name>>, only of interfaces that are up.
ConnectedNetworks(inv, d, v) ==
    Concat([k \in DOMAIN inv.intfs |->
        LET i == inv.intfs[k]
        IN IF i.dev = d /\ i.vdom = v /\ i.up THEN [m \in DOMAIN i.ips |-> <<i.ips[m], i.name>>]
           ELSE <<>>])

StaticRoutes(inv, d, v) ==
    Concat([k \in DOMAIN inv.routes |->
        LET r == inv.routes[k] IN IF r.dev = d /\ r.vdom = v THEN <<r>> ELSE <<>>])

\* interfaces_by_ip(): every interface that is up and has exactly this address, by its
\* position in the list.
Bearers(inv, a) ==
    {k \in DOMAIN inv.intfs : LET i == inv.intfs[k]
                              IN i.up /\ \E m \in DOMAIN i.ips : i.ips[m].ip = a}

\* interfaces_in_network(): by the primary address alone.
InNetwork(inv, net) ==
    {k \in DOMAIN inv.intfs : LET i == inv.intfs[k]
                              IN i.up /\ i.ips # <<>> /\ InNet(i.ips[1].ip, net)}

\* vdom_link_peer(): the other end of a link, in another VDOM of the device.
HasPeer(inv, d, n) ==
    /\ Listed(inv, d, n) /\ n \in DOMAIN Twin /\ Listed(inv, d, Twin[n])
    /\ Interface(inv, d, Twin[n]).vdom # Interface(inv, d, n).vdom

IsVdomLink(inv, d, n) ==
    Listed(inv, d, n) /\ (Interface(inv, d, n).kind = "vdom-link" \/ n \in LinkName)

(* ------------------------ the prefix table ------------------------ *)

Entry(net, source, d, v, n) == [net |-> net, source |-> source, dev |-> d, vdom |-> v, intf |-> n]

\* PrefixTable.add: default routes are left out.
Added(entries) == Concat([k \in DOMAIN entries |-> IF entries[k].net.len > 0 THEN <<entries[k]>> ELSE <<>>])

\* build_prefix_table(): overrides, then per VDOM the connected networks and the static
\* routes.
Overrides(inv) ==
    [k \in DOMAIN inv.sites |->
        Entry(inv.sites[k].net, "override", inv.sites[k].dev, inv.sites[k].vdom, NoIntf)]
OfVdom(inv, d, v) ==
    LET nets   == ConnectedNetworks(inv, d, v)
        routes == StaticRoutes(inv, d, v)
    IN [k \in DOMAIN nets |-> Entry(nets[k][1], "connected", d, v, nets[k][2])]
       \o [k \in DOMAIN routes |-> Entry(routes[k].net, "static", d, v, routes[k].intf)]
EntriesOf(inv, d) == Concat([k \in DOMAIN inv.vdoms[d] |-> OfVdom(inv, d, inv.vdoms[d][k])])
PrefixTable(inv) ==
    Added(Overrides(inv) \o Concat([k \in DOMAIN inv.devices |-> EntriesOf(inv, inv.devices[k])]))

\* _rebuild_state(): the two are built together and exchanged together.
Rebuilt(inv) == [prefixes |-> PrefixTable(inv)] @@ inv

Priority == [override |-> 0, connected |-> 1, static |-> 2]
Before(e, f) == \/ e.net.len > f.net.len
                \/ e.net.len = f.net.len /\ Priority[e.source] < Priority[f.source]

\* The first entry of the stable sort by length and source.
Foremost(entries, positions) ==
    IF positions = {} THEN NoEntry
    ELSE entries[CHOOSE k \in positions : \A j \in positions :
            Before(entries[k], entries[j]) \/ (~Before(entries[j], entries[k]) /\ k <= j)]

\* Mutant: the longest prefix, whatever its source.
OwnedM(e) == TRUE
Owned(e) == e.source \in {"override", "connected"}

\* lookup_owner(): where an address is at home, whatever the mask of static routes.
LookupOwner(inv, a) ==
    LET matches == {k \in DOMAIN inv.prefixes : InNet(a, inv.prefixes[k].net)}
        owned == {k \in matches : Owned(inv.prefixes[k])}
    IN Foremost(inv.prefixes, IF owned = {} THEN matches ELSE owned)

(* --------------------------- cached routes --------------------------- *)

NoRoute == [found |-> FALSE]
Route(n, gw, dflt, live) == [found |-> TRUE, intf |-> n, gw |-> gw, dflt |-> dflt, live |-> live]

\* cached_route(): the longest prefix; of connected ones the last, and a static route
\* only if it is longer than every connected one.
Longest(ks, net) == {k \in ks : \A j \in ks : net[j].len <= net[k].len}
CachedRoute(inv, d, v, a) ==
    LET nets == ConnectedNetworks(inv, d, v)
        routes == StaticRoutes(inv, d, v)
        connected == {k \in DOMAIN nets : InNet(a, nets[k][1])}
        static == {k \in DOMAIN routes : /\ InNet(a, routes[k].net) /\ routes[k].intf # NoIntf
                                         /\ \A j \in connected : routes[k].net.len > nets[j][1].len}
        net == nets[Max(Longest(connected, [k \in DOMAIN nets |-> nets[k][1]]))]
        route == First(routes, Longest(static, [k \in DOMAIN routes |-> routes[k].net]))
    IN IF static # {} THEN Route(route.intf, route.gw, route.net.len = 0, FALSE)
       ELSE IF connected # {} THEN Route(net[2], NoAddr, net[1].len = 0, FALSE)
       ELSE NoRoute
===============================================================================
