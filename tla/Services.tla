------------------------------ MODULE Services ------------------------------
(***************************************************************************)
(* From a service to its hosts (diagram/services.py and segments.py, the   *)
(* parts that build the model): the CIs of a service lie by their address  *)
(* in nets at firewall interfaces, and each of these nets is drawn whole.  *)
(*                                                                         *)
(* A question holds what NetPlan asks of, and: families, the families iTop *)
(* knows; services, a function from services to families; links            *)
(* [svc, ci, name, shell]: shell, a hypervisor or a farm; names, a function*)
(* from addresses of CIs to their names; of, what is wanted: [family],     *)
(* [service] or all; hideItop, hideService; chains, what FortiManager says *)
(* of a device with several VDOMs: [dev, named, edge, overlay].            *)
(***************************************************************************)
EXTENDS NetPlan

CONSTANTS NoFamily, NoVdom

----------------------------------------------------------------------------
(* Families and services *)

\* _wanted: a service whose family is unknown gets one of its own.
FamilyOf(q, s) == IF q.services[s] \in q.families THEN q.services[s] ELSE NoFamily
Families(q)    == q.families \cup {FamilyOf(q, s) : s \in DOMAIN q.services}
Members(q, f)  == {s \in DOMAIN q.services : FamilyOf(q, s) = f}

\* find_service: an unknown service, an unknown or an empty family is refused.
WantedServices(q) ==
    CASE q.of.kind = "service" -> {q.of.id} \cap DOMAIN q.services
      [] q.of.kind = "family"  -> Members(q, q.of.id)
      [] OTHER                 -> DOMAIN q.services

----------------------------------------------------------------------------
(* From a CI to a net *)

\* _network_index: /31 and /32 are no VLAN.
Index(q) == {n \in q.nets : n.size > 2}
IsGateway(n) == n.gw # -1 /\ n.ip = n.gw

\* _place: the narrowest net; of these, the one whose interface is the gateway of iTop,
\* then one that is switched on.
Narrowest(q, a) ==
    {n \in Index(q) : Within(a, n) /\ \A k \in Index(q) : Within(a, k) => k.size >= n.size}
Better(n, k) == \/ IsGateway(n) /\ ~IsGateway(k)
                \/ IsGateway(n) = IsGateway(k) /\ n.on /\ ~k.on
NetFor(q, a) ==
    LET top == Narrowest(q, a)
    IN  CHOOSE n \in top : \A k \in top : ~Better(k, n)
\* The others, for the warning; none beside a gateway.
Elsewhere(q, a) ==
    LET n == NetFor(q, a)
    IN  IF IsGateway(n) THEN {} ELSE {k \in Narrowest(q, a) : VdomOf(k) # VdomOf(n)}

\* The address of a CI: by its id, else by its name.
CisOf(q, s) == {ln \in q.links : ln.svc = s /\ ~ln.shell}
HostsOf(q, ln) == LET own == {c \in q.cis : c.id = ln.ci}
                  IN  IF own # {} THEN own ELSE {c \in q.cis : q.names[c.ip] = ln.name}

\* place: what one link adds to its service.
PlacedM(q, ln) ==
    IF HostsOf(q, ln) = {} THEN [why |-> "no address"]
    ELSE LET c == CHOOSE h \in HostsOf(q, ln) : TRUE
         IN  IF {n \in q.nets : Within(c.ip, n)} = {} THEN [why |-> "no net"]
             ELSE IF Narrowest(q, c.ip) = {} THEN [why |-> "skipped", ip |-> c.ip]
             ELSE [why |-> "placed", ip |-> c.ip, net |-> NetFor(q, c.ip), warn |-> Elsewhere(q, c.ip) # {}]
Placed(q, ln) ==
    IF HostsOf(q, ln) = {} THEN [why |-> "no address"]
    ELSE LET c == CHOOSE h \in HostsOf(q, ln) : TRUE
         IN  IF Narrowest(q, c.ip) = {} THEN [why |-> "no net"]
             ELSE [why |-> "placed", ip |-> c.ip, net |-> NetFor(q, c.ip), warn |-> Elsewhere(q, c.ip) # {}]

\* One service, or all services of a family in one (merge_family).
PlacedIn(q, ss) == {[svc |-> ln.svc, ci |-> ln.ci, at |-> Placed(q, ln)] : ln \in UNION {CisOf(q, s) : s \in ss}}
NetsOf(placed) == {p.at.net : p \in {k \in placed : k.at.why = "placed"}}
IpsOf(placed)  == {p.at.ip : p \in {k \in placed : k.at.why = "placed"}}
UnplacedIn(placed) == {<<p.svc, p.ci>> : p \in {k \in placed : k.at.why \in {"no address", "no net"}}}

----------------------------------------------------------------------------
(* The hosts of a net, as one service shows them *)

\* _foreign; _visible, _visible_hosts
Foreign(q, a, ips) == InItop(q, a) /\ a \notin ips
Visible(q, n, ips) ==
    {a \in Collect(q, n) : (q.hideItop => InItop(q, a)) /\ (q.hideService => ~Foreign(q, a, ips))}

\* build of services.py: each service by itself, all families or the one that is wanted.
ServiceView ==
    /\ Pending("services")
    /\ LET ss == WantedServices(asked)
           of(s) == PlacedIn(asked, {s})
           all == UNION {NetsOf(of(s)) : s \in ss}
       IN  IF asked.of.kind = "family" /\ asked.of.id \notin Families(asked)
           THEN Give([kind |-> "services", error |-> TRUE])
           ELSE Give([kind |-> "services", error |-> FALSE,
                      shown |-> [s \in ss |-> [n \in NetsOf(of(s)) |-> Visible(asked, n, IpsOf(of(s)))]],
                      ips |-> [s \in ss |-> IpsOf(of(s))],
                      unplaced |-> [s \in ss |-> UnplacedIn(of(s))],
                      nets |-> all])

----------------------------------------------------------------------------
(* The plan of the segments of one service *)

\* _router_of: the way out of a device with several VDOMs - by name, else by its default
\* route, else by its overlays.
RouterOf(q, d) ==
    LET c == CHOOSE k \in q.chains : k.dev = d
    IN  IF Cardinality(VdomsOf(q, d)) <= 1 THEN NoVdom
        ELSE IF c.named # NoVdom THEN c.named
        ELSE IF c.edge # NoVdom THEN c.edge ELSE c.overlay

\* build of segments.py: site, firewalls, and for each of them the VDOMs with segments,
\* their links to the router VDOM and the VDOMs that reach the cloud.
SegmentsOf(q, chosen) ==
    LET siteOf(n) == SiteOfDevice(q, n.dev)
        chain(d) ==
          LET router == RouterOf(q, d)
              vs     == {n.vdom : n \in {k \in chosen : k.dev = d}}
          IN  [dev |-> d, vdoms |-> vs, router |-> router,
               links |-> IF router = NoVdom THEN {} ELSE vs \ {router},
               uplinks |-> IF router = NoVdom THEN vs ELSE {router}]
    IN  {[name |-> s, segments |-> {n \in chosen : siteOf(n) = s},
          firewalls |-> {chain(n.dev) : n \in {k \in chosen : siteOf(k) = s}}] : s \in {siteOf(n) : n \in chosen}}

\* A net that is no longer one of the service's is refused, and so is a service without nets.
SegmentPlan ==
    /\ Pending("segments")
    /\ LET ss     == WantedServices(asked)
           placed == PlacedIn(asked, ss)
           chosen == IF asked.selected = {} THEN NetsOf(placed) ELSE asked.selected
       IN  IF ss = {} \/ ~(asked.selected \subseteq NetsOf(placed)) \/ chosen = {}
           THEN Give([kind |-> "segments", error |-> TRUE])
           ELSE Give([kind |-> "segments", error |-> FALSE, sites |-> SegmentsOf(asked, chosen),
                      shown |-> [n \in chosen |-> Visible(asked, n, IpsOf(placed))],
                      ips |-> IpsOf(placed)])

\* network_choices: the nets to choose from, and only here the CIs in none of them.
NetworkChoice ==
    /\ Pending("choice")
    /\ LET ss     == WantedServices(asked)
           placed == PlacedIn(asked, ss)
       IN  IF ss = {}
           THEN Give([kind |-> "choice", error |-> TRUE])
           ELSE Give([kind |-> "choice", error |-> FALSE,
                      offered |-> NetsOf(placed), unplaced |-> UnplacedIn(placed)])

ServicesNext == Plan \/ ServiceView \/ SegmentPlan \/ NetworkChoice

----------------------------------------------------------------------------
(* Properties *)

\* A CI in a net; an address that is no host by itself, the firewall's own or the first or
\* last of the net, is not drawn.
DrawnIn(q, ln, shown) ==
    \E c \in HostsOf(q, ln), n \in DOMAIN shown :
        \/ c.ip \in shown[n]
        \/ Within(c.ip, n) /\ c.ip \in {n.ip, n.lo, n.lo + n.size - 1}

\* No CI gets lost on the way from iTop to a sheet, whatever is hidden.  A CI that is linked
\* to a service, other than the shells (hypervisor, farm), is drawn in a net of that very
\* service or stands in its list of CIs without a net; for the plan of the segments, whose
\* sheet has no such list, the choice of its nets names it, and the plan of all these nets
\* draws every CI that has a net.  The exceptions are those of DrawnIn (services.place,
\* _place, model._collect_hosts, services._visible, segments.network_choices).
CisAccounted ==
    /\ reply.kind = "services" /\ ~reply.error =>
         \A ln \in asked.links : ln.svc \in DOMAIN reply.shown /\ ~ln.shell =>
           <<ln.svc, ln.ci>> \in reply.unplaced[ln.svc] \/ DrawnIn(asked, ln, reply.shown[ln.svc])
    /\ reply.kind = "choice" /\ ~reply.error =>
         \A ln \in asked.links : ln.svc \in WantedServices(asked) /\ ~ln.shell =>
           \/ <<ln.svc, ln.ci>> \in reply.unplaced
           \/ \E c \in HostsOf(asked, ln), n \in reply.offered : Within(c.ip, n)
    /\ reply.kind = "segments" /\ ~reply.error /\ asked.selected = {} =>
         \A ln \in asked.links :
           ln.svc \in WantedServices(asked) /\ ~ln.shell /\ HostsOf(asked, ln) # {}
             /\ (\A c \in HostsOf(asked, ln) : Narrowest(asked, c.ip) # {})
             => DrawnIn(asked, ln, reply.shown)
=============================================================================
