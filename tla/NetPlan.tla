------------------------------- MODULE NetPlan -------------------------------
(***************************************************************************)
(* What is drawn for a scope (diagram/model.py): its VDOMs and nets, their *)
(* neighbours, the site of every firewall and the hosts that iTop, LibreNMS*)
(* the ARP history and the FortiAnalyzer know in a net.  Addresses are     *)
(* numbers, a net is a range [lo, size].                                   *)
(*                                                                         *)
(* A question holds: nets, the nets at firewall interfaces [dev, vdom, lo, *)
(* size, ip, on, gw]: gw is the gateway iTop has for the net; supernets    *)
(* [site, lo, size]; override, a function from VDOMs to sites; vlinks,     *)
(* routes; cis [id, ip, netdev], addr [ip, used], libre, arp [ip, old] and *)
(* faz, what the sources know.                                             *)
(***************************************************************************)
EXTENDS Requests, Integers, FiniteSets, FiniteSetsExt

CONSTANTS
    MaxHosts,            \* MAX_HOSTS: above, only network devices are drawn
    DnsMax,              \* DNS_MAX: names asked for one drawing
    NoSite

Internet == <<"internet">>

Within(a, n) == a \in n.lo..(n.lo + n.size - 1)
Inside(n, s) == n.lo >= s.lo /\ n.lo + n.size <= s.lo + s.size
VdomOf(n)    == <<n.dev, n.vdom>>

----------------------------------------------------------------------------
(* Sites *)

\* site_scores: each connected net votes once, for the site of the narrowest supernet
\* around it; a site may have several, no two sites have the same.
VoteM(q, n, s) == Inside(n, s)
Vote(q, n, s) == Inside(n, s) /\ \A t \in q.supernets : Inside(n, t) => t.size >= s.size
Supernets(q, site) == {s \in q.supernets : s.site = site}
Score(q, vs, site) ==
    Cardinality({n \in q.nets : n.on /\ VdomOf(n) \in vs /\ \E s \in Supernets(q, site) : Vote(q, n, s)})
Depth(q, site) == Min({s.size : s \in Supernets(q, site)})

\* _override, _best_site; of equals, the one with the narrower supernet.
SiteOf(q, vs) ==
    LET voted == {s \in {t.site : t \in q.supernets} : Score(q, vs, s) > 0}
        best  == {s \in voted : \A t \in voted :
                    \/ Score(q, vs, s) > Score(q, vs, t)
                    \/ Score(q, vs, s) = Score(q, vs, t) /\ Depth(q, s) <= Depth(q, t)}
        named == {v \in vs : v \in DOMAIN q.override}
    IN  IF named # {} THEN q.override[CHOOSE v \in named : TRUE]
        ELSE IF best = {} THEN NoSite ELSE CHOOSE s \in best : TRUE

VdomsOf(q, d)     == {v \in q.vdoms : v[1] = d}
SiteOfDevice(q, d) == SiteOf(q, VdomsOf(q, d))

\* scope_vdoms: nothing for a site without a VDOM is an error, not an empty plan.
ScopeVdoms(q) ==
    CASE q.scope = "global"   -> q.vdoms
      [] q.scope = "site"     -> {v \in q.vdoms : SiteOf(q, {v}) = q.of}
      [] q.scope = "firewall" -> VdomsOf(q, q.of)
      [] OTHER                -> q.vdoms \cap {q.of}

----------------------------------------------------------------------------
(* Neighbours *)

\* _neighbors: VDOM links, the default route, and the VDOMs behind the other routes:
\* the owner of the gateway's address, else all that hold nets of the destination.
RouteTargets(q, v, r) ==
    IF r.default THEN {IF r.peer \in q.vdoms THEN r.peer ELSE Internet}
    ELSE LET owner == {VdomOf(n) : n \in {k \in q.nets : k.on /\ k.ip = r.gw}} \ {v}
         IN  IF owner # {} THEN owner
             ELSE {VdomOf(n) : n \in {k \in q.nets : k.on /\ (Inside(k, r) \/ Inside(r, k))}} \ {v}
Edges(q, vs) ==
    {e \in vs \X q.vdoms : {e[1], e[2]} \in q.vlinks}
    \cup UNION {UNION {{<<r.of, t>> : t \in RouteTargets(q, r.of, r)} : r \in {k \in q.routes : k.of = v}} : v \in vs}
Neighbors(q, vs) == {e[2] : e \in Edges(q, vs)} \ vs

----------------------------------------------------------------------------
(* Hosts *)

\* What each source says of an address; addresses that iTop has released do not count.
Sources(q, a) ==
    {s \in {"itop-ci", "itop-ip", "librenms", "arp", "faz"} :
       CASE s = "itop-ci"  -> \E c \in q.cis : c.ip = a
         [] s = "itop-ip"  -> \E r \in q.addr : r.ip = a /\ r.used
         [] s = "librenms" -> a \in q.libre
         [] s = "arp"      -> \E b \in q.arp : b.ip = a /\ ~(q.maxAge /\ b.old)
         [] OTHER          -> a \in q.faz}

\* _collect_hosts: the firewall is no host, nor are the first and the last address of
\* a net that has them (size 4 and more: /30).
Collect(q, n) ==
    {a \in n.lo..(n.lo + n.size - 1) :
       /\ Sources(q, a) # {} /\ a # n.ip
       /\ n.size >= 4 => a \notin {n.lo, n.lo + n.size - 1}}

IsNetdev(q, a) == a \in q.libre \/ \E c \in q.cis : c.ip = a /\ c.netdev
InItop(q, a)   == Sources(q, a) \cap {"itop-ci", "itop-ip"} # {}
HasName(q, a)  == \E c \in q.cis : c.ip = a

\* build: how many hosts there are, and which remain.  Each net has its own.
Found(q, nets) == FoldSet(LAMBDA n, acc : acc + Cardinality(Collect(q, n)), 0, nets)
Mode(q, nets) ==
    IF q.scope = "global" THEN "none"
    ELSE IF q.hosts = "auto" THEN IF Found(q, nets) > MaxHosts THEN "netdev" ELSE "all"
    ELSE q.hosts
Shown(q, nets) ==
    [n \in nets |-> CASE Mode(q, nets) = "none"   -> {}
                      [] Mode(q, nets) = "netdev" -> {a \in Collect(q, n) : IsNetdev(q, a)}
                      [] OTHER                    -> Collect(q, n)]
\* _resolve_names: what is left without a name, up to DNS_MAX for the whole drawing.
NamesAsked(q, shown) ==
    LET todo == Cardinality(UNION {{<<n, a>> : a \in {b \in shown[n] : ~HasName(q, b)}} : n \in DOMAIN shown})
    IN  IF todo < DnsMax THEN todo ELSE DnsMax

Plan ==
    /\ Pending("plan")
    /\ LET vs    == ScopeVdoms(asked)
           nets  == IF asked.scope = "global" THEN {} ELSE {n \in asked.nets : VdomOf(n) \in vs}
           shown == Shown(asked, nets)
           devs  == {v[1] : v \in vs}
       IN  IF vs = {} THEN Give([kind |-> "plan", error |-> TRUE])
           ELSE Give([kind |-> "plan", error |-> FALSE, shown |-> shown,
                      sites |-> [d \in devs |-> SiteOfDevice(asked, d)],
                      neighbors |-> Neighbors(asked, vs), edges |-> Edges(asked, vs),
                      found |-> IF Mode(asked, nets) = "none" THEN 0 ELSE Found(asked, nets),
                      names |-> NamesAsked(asked, shown),
                      reduced |-> asked.hosts = "auto" /\ Mode(asked, nets) = "netdev"])

----------------------------------------------------------------------------
(* Properties *)

\* The narrowest supernets around a net.
House(q, n) ==
    LET around == {s \in q.supernets : Inside(n, s)}
    IN  {s \in around : \A t \in around : t.size >= s.size}

\* The nets of some VDOMs are at home on a site: it is the one the settings name for one of
\* these VDOMs; else it is in as many houses of them as any other site is, and of those in
\* as many it has the narrowest supernet; none only if no net has a house.
AtHome(q, vs, nets, site) ==
    LET houses(s) == Cardinality({n \in nets : \E h \in House(q, n) : h.site = s})
        named == vs \cap DOMAIN q.override
    IN  IF named # {} THEN \E v \in named : site = q.override[v]
        ELSE \/ site = NoSite /\ \A n \in nets : House(q, n) = {}
             \/ \E home \in Supernets(q, site) : \A s \in q.supernets :
                   \/ houses(site) > houses(s.site)
                   \/ houses(site) = houses(s.site) /\ home.size <= s.size

\* A firewall is drawn in the house where most of its nets are, counting a net for the
\* narrowest site around it only - however the sites are nested; of two with as many, in
\* the one with the narrower supernet.  The plan of a site holds the nets of those VDOMs
\* that are at home there by themselves (model.site_scores, _best_site, site_of,
\* site_of_device, scope_vdoms).
AtHomeByMajority ==
    reply.kind = "plan" /\ ~reply.error =>
      /\ \A d \in DOMAIN reply.sites :
           AtHome(asked, VdomsOf(asked, d), {n \in asked.nets : n.on /\ n.dev = d}, reply.sites[d])
      /\ asked.scope = "site" =>
           \A k \in DOMAIN reply.shown :
             AtHome(asked, {VdomOf(k)}, {n \in asked.nets : n.on /\ VdomOf(n) = VdomOf(k)}, asked.of)
=============================================================================
