-------------------------------- MODULE Egress --------------------------------
(***************************************************************************)
(* Where a path goes on after a hop: classify_egress of engine/classify.py *)
(* and the choice of the VDOM and interface by which a device is entered   *)
(* (_resolve_ingress of engine/path.py).                                   *)
(***************************************************************************)
EXTENDS Inventory

CONSTANTS Rank,             \* Rank[n]: interface names in alphabetical order
          NoDev, NoVdom     \* no next device; a VDOM that is still to be found

(* ----------------------- classification of an egress ----------------------- *)

Going(class, d, v, n, by) == [class |-> class, dev |-> d, vdom |-> v, intf |-> n, by |-> by]
Ending(class) == Going(class, NoDev, NoVdom, NoIntf, "none")

IsOverlay(inv, d, n) ==
    n \in OverlayName \/ (Listed(inv, d, n) /\ Interface(inv, d, n).kind = "tunnel")

IsLocal(inv, d, n, dst) ==
    Listed(inv, d, n) /\ \E m \in DOMAIN Interface(inv, d, n).ips : InNet(dst, Interface(inv, d, n).ips[m])

IsLink(inv, d, n) ==
    HasPeer(inv, d, n) /\ (Interface(inv, d, n).kind = "vdom-link" \/ n \in LinkName)

\* _remote_overlay_intf(): the alphabetically first overlay interface of the VDOM.
RemoteOverlay(inv, d, v) ==
    LET names == {i.name : i \in {j \in ToSet(inv.intfs) :
                                    j.dev = d /\ j.vdom = v /\ IsOverlay(inv, d, j.name)}}
    IN IF names = {} THEN NoIntf ELSE CHOOSE n \in names : \A m \in names : Rank[n] <= Rank[m]

Elsewhere(i, d, v) == i.dev # d \/ i.vdom # v

\* What the gateway of the route says about the next hop: the interface that bears it, or
\* why that is no proof.
ByGateway(inv, d, v, gw, dflt) ==
    LET own == {k \in Bearers(inv, gw) : inv.intfs[k].dev = d}
        others == {k \in Bearers(inv, gw) : Elsewhere(inv.intfs[k], d, v)}
        skip(why) == [hit |-> <<>>, why |-> why]
        hit(ks, by) == [hit |-> <<First(inv.intfs, ks)>>, why |-> by]
    IN CASE gw = NoAddr -> skip("no_gateway")
         [] gw # NoAddr /\ own # {} /\ First(inv.intfs, own).vdom # v -> hit(own, "gateway_local")
         [] OTHER ->
              IF \E k, j \in others : inv.intfs[k].dev # inv.intfs[j].dev THEN skip("ambiguous")
              ELSE IF others # {}
                   THEN IF dflt THEN skip("default") ELSE hit(others, "gateway_global")
              ELSE IF Bearers(inv, gw) = {} THEN skip("unresolved")
              ELSE skip("own_address")

\* Mutant: a bearer over the default route is dropped, its neighbours are not.
UnprovenM == {"ambiguous", "unresolved"}
Unproven == {"ambiguous", "default", "unresolved"}

\* A neighbour in the network of the egress, on this device first.
BySegment(inv, d, v, n) ==
    LET there == Listed(inv, d, n) /\ Interface(inv, d, n).ips # <<>>
        members == IF there THEN InNetwork(inv, Interface(inv, d, n).ips[1]) ELSE {}
        near == {k \in members : inv.intfs[k].dev = d /\ inv.intfs[k].vdom # v}
        far == {k \in members : Elsewhere(inv.intfs[k], d, v)}
    IN IF near # {} THEN <<First(inv.intfs, near)>>
       ELSE IF far # {} THEN <<First(inv.intfs, far)>> ELSE <<>>

\* _next_hop_via_routing()
NextHopViaRouting(inv, d, v, n, gw, dflt) ==
    LET gateway == ByGateway(inv, d, v, gw, dflt)
    IN IF gateway.hit # <<>> THEN gateway
       ELSE IF gateway.why \in Unproven THEN [hit |-> <<>>, why |-> gateway.why]
       ELSE [hit |-> BySegment(inv, d, v, n), why |-> "segment"]

BehindAnother(owner, d) == owner # NoEntry /\ owner.dev # d

ClassifyEgress(inv, d, v, n, gw, dflt, dst) ==
    LET owner == LookupOwner(inv, dst)
        next == NextHopViaRouting(inv, d, v, n, gw, dflt)
    IN CASE IsLocal(inv, d, n, dst) -> Ending("LOCAL")
         [] ~IsLocal(inv, d, n, dst) /\ IsLink(inv, d, n) ->
              Going("VDOM_LINK", d, Interface(inv, d, Twin[n]).vdom, Twin[n], "peer")
         [] OTHER ->
              CASE IsOverlay(inv, d, n) ->
                     IF owner = NoEntry \/ (owner.dev = d /\ owner.vdom = v) THEN Ending("DEFAULT")
                     ELSE Going("OVERLAY", owner.dev, owner.vdom,
                                RemoteOverlay(inv, owner.dev, owner.vdom), "owner")
                [] ~IsOverlay(inv, d, n) /\ next.hit # <<>> ->
                     Going(IF next.hit[1].dev = d THEN "VDOM_LINK" ELSE "ROUTED",
                           next.hit[1].dev, next.hit[1].vdom, next.hit[1].name, next.why)
                [] OTHER -> IF BehindAnother(owner, d)
                            THEN Going("ROUTED", owner.dev, NoVdom, NoIntf, "owner")
                            ELSE Ending("DEFAULT")

(* ------------------------- entering a device ------------------------- *)

VdomsOf(inv, d) == IF d \in ToSet(inv.devices) THEN inv.vdoms[d] ELSE <<>>
FirstOf(s, positions) == IF positions = {} THEN NoVdom ELSE First(s, positions)

\* _router_vdom(), _edge_vdom(), _overlay_vdom(): signals for the VDOM traffic from other
\* sites comes in by.
RouterVdom(inv, d) ==
    FirstOf(VdomsOf(inv, d), {k \in DOMAIN VdomsOf(inv, d) : VdomsOf(inv, d)[k] \in RouterName})

EdgeVdom(inv, d) ==
    LET edges == {k \in DOMAIN VdomsOf(inv, d) :
            \E r \in ToSet(StaticRoutes(inv, d, VdomsOf(inv, d)[k])) :
                r.net.len = 0 /\ r.intf # NoIntf /\ ~IsVdomLink(inv, d, r.intf)}
    IN IF Cardinality(edges) = 1 THEN First(VdomsOf(inv, d), edges) ELSE NoVdom

OverlayVdom(inv, d) ==
    LET vdoms == {i.vdom : i \in {j \in ToSet(inv.intfs) : j.dev = d /\ IsOverlay(inv, d, j.name)}}
    IN IF Cardinality(vdoms) = 1 THEN CHOOSE v \in vdoms : TRUE ELSE NoVdom

Signal(inv, d) ==
    CASE RouterVdom(inv, d) # NoVdom -> RouterVdom(inv, d)
      [] RouterVdom(inv, d) = NoVdom /\ EdgeVdom(inv, d) # NoVdom -> EdgeVdom(inv, d)
      [] OTHER -> OverlayVdom(inv, d)

\* The VDOMs whose route back to the source is looked up.
Tried(inv, d, root) ==
    IF Signal(inv, d) # NoVdom THEN <<Signal(inv, d)>>
    ELSE IF VdomsOf(inv, d) # <<>> THEN VdomsOf(inv, d) ELSE <<root>>

\* _resolve_ingress(): the first VDOM whose route back leaves by a real interface, else
\* the first with any route.  back[v] is the route found on v, live or cached.
ResolveIngress(inv, d, root, back) ==
    LET tried == Tried(inv, d, root)
        routed == {k \in DOMAIN tried : back[tried[k]].found}
        real == {k \in routed : ~IsVdomLink(inv, d, back[tried[k]].intf)}
        by(v) == [vdom |-> v, intf |-> back[v].intf]
    IN CASE real # {} -> by(First(tried, real))
         [] real = {} /\ routed # {} -> by(First(tried, routed))
         [] OTHER -> [vdom |-> Signal(inv, d), intf |-> NoIntf]
===============================================================================
