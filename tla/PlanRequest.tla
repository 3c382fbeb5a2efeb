----------------------------- MODULE PlanRequest -----------------------------
(***************************************************************************)
(* POST /diagram and the lists beside it (routers/diagram.py): which calls *)
(* a drawing makes, in which order, which failure ends the request, which  *)
(* is a warning - and what the drawing says of a host after that.          *)
(*                                                                         *)
(* A question holds: view; global, hosts (wanted), monitoring, named (one  *)
(* family is asked for), known (the scope, service or family exists),      *)
(* filter; state, for each of Systems: "off" (not configured), "disabled"  *)
(* (iTop and Zabbix only) or "on"; fails, the calls that fail; lost, what  *)
(* of the services cannot be read: "families", "services", "links";        *)
(* skipped, the class of the host's CI cannot be read                      *)
(* (ItopSource._index goes on without it);                                 *)
(* host, the truth about one host that was seen in a net of the drawing:   *)
(* [ci, address, linked, monitored]; links, what each device says of its   *)
(* interfaces: "links", "offline" or "refused".                            *)
(***************************************************************************)
EXTENDS Requests, Integers, Sequences, FiniteSets, SequencesExt

Systems == {"itop", "librenms", "faz", "zabbix", "fmg"}

Configured(q, s) == q.state[s] # "off"
On(q, s)         == q.state[s] = "on"

\* Calls inside one try: what was read before the first that fails.
Attempt(q, calls) ==
    LET good == {k \in 0..Len(calls) : \A i \in 1..k : calls[i] \notin q.fails}
        n    == CHOOSE k \in good : \A j \in good : j <= k
    IN  [got |-> ToSet(SubSeq(calls, 1, n)), ok |-> n = Len(calls)]
Warned(try, name) == IF try.ok THEN {} ELSE {name}
NotAsked == [got |-> {}, ok |-> TRUE]

\* _live_hosts
LiveHosts(q) == IF On(q, "faz") THEN Attempt(q, <<"endpoints">>) ELSE NotAsked
\* _windows: always asked, the inventory is in the database.
Windows(q) == Attempt(q, <<"wininv">>)
\* _zabbix: the hosts are of no use without the problems.
Zabbix(q) == IF q.monitoring /\ On(q, "zabbix") THEN Attempt(q, <<"monitored", "triggers">>) ELSE NotAsked
ZabbixKnowsM(q) == q.monitoring /\ On(q, "zabbix")
\* zabbix_status.index, annotate: only with an index is a host without an entry counted.
ZabbixKnows(q) == q.monitoring /\ On(q, "zabbix") /\ Zabbix(q).ok
InZabbix(q)    == q.host.monitored /\ "monitored" \in Zabbix(q).got
\* _lldp
LldpM(q) == IF Configured(q, "librenms") THEN [Attempt(q, <<"lldp", "index", "vlans">>) EXCEPT !.ok = TRUE]
            ELSE NotAsked
Lldp(q) == IF Configured(q, "librenms") THEN Attempt(q, <<"lldp", "index", "vlans">>) ELSE NotAsked
\* addresses, inside _services and _segments: without them the drawing goes on.
ItopAddresses(q) == Attempt(q, <<"addresses">>)
Common(q) == {Warned(LiveHosts(q), "faz"), Warned(Windows(q), "wininv"), Warned(Zabbix(q), "zabbix")}

----------------------------------------------------------------------------
(* What the drawing says of the host *)

\* _collect_hosts, in_itop: a CI with this address, or an address in use.
DrawnInItop(q, got) == (q.host.ci /\ ~q.skipped /\ "hosts" \in got) \/ (q.host.address /\ "addresses" \in got)
\* ips of a service: the addresses of its CIs (place).
OfService(q, got) == q.host.ci /\ q.host.linked /\ ~q.skipped /\ "hosts" \in got
Marks(q, got) ==
    (IF DrawnInItop(q, got) THEN {} ELSE {"not in iTop"})
    \cup (IF DrawnInItop(q, got) /\ ~OfService(q, got) THEN {"not in service"} ELSE {})
    \cup (IF ZabbixKnows(q) /\ ~InZabbix(q) THEN {"not monitored"} ELSE {})

Refused(code) == Give([kind |-> "sheet", code |-> code, warned |-> {}, marks |-> {}])
Sheet(warned, marks) == Give([kind |-> "sheet", code |-> 200, warned |-> warned, marks |-> marks])

----------------------------------------------------------------------------
(* The handlers *)

\* linkstatus.collect: a device that is offline is named, one that refuses is not; if no
\* device has links to tell, that is named.
LinkStatus(q) ==
    IF q.global THEN {}
    ELSE (IF Configured(q, "fmg") /\ "offline" \in ToSet(q.links) THEN {"links"} ELSE {})
         \cup (IF ~Configured(q, "fmg") \/ "links" \notin ToSet(q.links) THEN {"links"} ELSE {})

\* build: structure and logical plan.
StructureRequest(q) ==
    LET wants == q.hosts /\ ~q.global
        itop  == IF ~On(q, "itop") THEN NotAsked
                 ELSE Attempt(q, IF wants THEN <<"ipam", "hosts", "addresses">> ELSE <<"ipam">>)
        libre == IF wants /\ Configured(q, "librenms") THEN Attempt(q, <<"index">>) ELSE NotAsked
    IN  IF ~q.known THEN Refused(422)
        ELSE Sheet(Warned(itop, "itop") \cup Warned(libre, "librenms") \cup LinkStatus(q)
                     \cup (IF wants THEN UNION Common(q) ELSE {})
                     \cup (IF q.global THEN {"global"} ELSE {}),
                   IF wants THEN Marks(q, itop.got) \cap {"not monitored"} ELSE {})

\* _itop_service_data: without iTop there is nothing to draw; an iTop that is switched
\* off has no services.
ServiceData(q) == Attempt(q, <<"services", "hosts", "ipam">>)
\* ItopSource.services: each class by itself; without its class a family is not found, and
\* without services or links no CI leads to a net.
FamilyFound(q) == q.known /\ ~(q.named /\ "families" \in q.lost)
HasNets(q)     == q.lost \cap {"services", "links"} = {}

\* _services: a family that is asked for and not found is refused after everything was read.
ServicesRequest(q) ==
    LET libre == IF Configured(q, "librenms") THEN Attempt(q, <<"index">>) ELSE NotAsked
        got   == ServiceData(q).got \cup ItopAddresses(q).got
    IN  IF ~Configured(q, "itop") THEN Refused(400)
        ELSE IF ~On(q, "itop")
             THEN IF q.named THEN Refused(422)
                  ELSE Sheet((UNION Common(q)) \cup Warned(libre, "librenms") \cup {"no services"}, {})
        ELSE IF ~ServiceData(q).ok THEN Refused(502)
        ELSE IF q.named /\ ~FamilyFound(q) THEN Refused(422)
        ELSE Sheet((UNION Common(q)) \cup Warned(libre, "librenms") \cup Warned(ItopAddresses(q), "itop")
                              \cup (IF q.lost # {} THEN {"itop"} ELSE {}),
                            IF HasNets(q) THEN Marks(q, got) ELSE {})

\* find_service: the service, or all of a family; without the services there is neither.
ServiceFound(q) == On(q, "itop") /\ FamilyFound(q) /\ "services" \notin q.lost

\* _segments: what of the services could not be read is not told; a service without nets
\* is refused.
Segments(q) ==
    LET got == ServiceData(q).got \cup ItopAddresses(q).got
    IN  IF ~Configured(q, "itop") THEN Refused(400)
        ELSE IF On(q, "itop") /\ ~ServiceData(q).ok THEN Refused(502)
        ELSE IF ~ServiceFound(q) THEN Refused(404)
        ELSE IF ~HasNets(q) THEN Refused(422)
        ELSE LET warned == (UNION Common(q)) \cup Warned(Lldp(q), "librenms") \cup Warned(ItopAddresses(q), "itop")
                   virt   == Attempt(q, <<"virtualization">>)
                   \* vlanphys.build: without LLDP no physics at all; each switch by itself.
                   known  == Configured(q, "librenms") /\ Lldp(q).ok
                   fdb    == IF known THEN Attempt(q, <<"fdb">>) ELSE NotAsked
               IN  IF q.view = "segments" THEN Sheet(warned, Marks(q, got))
                   ELSE Sheet(warned \cup Warned(virt, "itop") \cup Warned(fdb, "librenms")
                                \cup (IF known THEN {} ELSE {"librenms"}), Marks(q, got))

\* _physical: a filter that cannot be read is passed over, with a warning.
Physical(q) ==
    LET filter == IF q.filter THEN Attempt(q, <<"filter">>) ELSE NotAsked
    IN  IF ~Configured(q, "librenms") THEN Refused(400)
        ELSE Sheet(Warned(filter, "librenms") \cup Warned(Attempt(q, <<"lldp", "index">>), "librenms"), {})

\* physical_filters, hardware, device_ports: lists to choose from.
LibreList(q) ==
    IF ~Configured(q, "librenms") THEN Refused(400)
    ELSE IF q.view = "filters"
         THEN Sheet(Warned(Attempt(q, <<"locations">>), "locations")
                      \cup Warned(Attempt(q, <<"groups">>), "groups"), {})
    ELSE IF Attempt(q, <<"index">>).ok THEN Sheet({}, {}) ELSE Refused(502)

\* service_families, service_networks
ServiceList(q) ==
    IF q.view = "families"
    THEN Sheet(IF ~Configured(q, "itop") \/ (On(q, "itop") /\ q.lost # {}) THEN {"itop"} ELSE {}, {})
    ELSE IF ~Configured(q, "itop") THEN Refused(400)
    ELSE IF On(q, "itop") /\ ~ServiceData(q).ok THEN Refused(502)
    ELSE IF ~ServiceFound(q) THEN Refused(404) ELSE Sheet({}, {})

PlanStructure == Pending("sheet") /\ asked.view = "structure" /\ StructureRequest(asked)
PlanServices  == Pending("sheet") /\ asked.view = "services" /\ ServicesRequest(asked)
PlanSegments  == Pending("sheet") /\ asked.view \in {"segments", "switches"} /\ Segments(asked)
PlanPhysical  == Pending("sheet") /\ asked.view = "physical" /\ Physical(asked)
PlanLists     == /\ Pending("sheet")
                 /\ \/ asked.view \in {"filters", "hardware"} /\ LibreList(asked)
                    \/ asked.view \in {"families", "networks"} /\ ServiceList(asked)

PlanRequestNext == PlanStructure \/ PlanServices \/ PlanSegments \/ PlanPhysical \/ PlanLists

----------------------------------------------------------------------------
(* Properties *)

\* The system that has to answer each call.
SystemOf(call) ==
    CASE call \in {"ipam", "hosts", "addresses", "virtualization"} -> "itop"
      [] call \in {"index", "lldp", "vlans", "fdb"} -> "librenms"
      [] call = "endpoints" -> "faz"
      [] call = "wininv"    -> "wininv"
      [] OTHER              -> "zabbix"
\* The calls whose answer shows in a drawing.
Shows(q) ==
    LET seen == {"endpoints", "wininv"} \cup (IF q.monitoring THEN {"monitored", "triggers"} ELSE {})
    IN  CASE q.view = "structure" -> {"ipam"} \cup (IF q.hosts /\ ~q.global THEN {"hosts", "addresses", "index"} \cup seen ELSE {})
          [] q.view = "services"  -> {"ipam", "hosts", "addresses", "index"} \cup seen
          [] q.view = "segments"  -> {"ipam", "hosts", "addresses", "lldp", "index", "vlans"} \cup seen
          [] q.view = "switches"  -> {"ipam", "hosts", "addresses", "virtualization", "lldp", "index", "vlans", "fdb"} \cup seen
          [] q.view = "physical"  -> {"lldp", "index"}
          [] OTHER -> {}

\* No gap goes unsaid: when a configured system did not answer a call whose answer shows
\* in the drawing, the request is refused or the reply names that system - in every view,
\* at every place of the order of the calls, whatever else fails (routers.diagram.build,
\* _services, _segments, _switch_physics, _physical).  Out of this: devices that refuse
\* their link status, MACs of servers, switches beside a firewall, reverse DNS, and the
\* families in the plan of the segments of a service.
GapsAreNamed ==
    reply.kind = "sheet" /\ reply.code = 200 =>
       \A call \in Shows(asked) \cap asked.fails :
          LET s == SystemOf(call)
          IN  (s \in Systems => On(asked, s)) => s \in reply.warned

\* What the drawing says of a host is so, or the system it has this from is named as not
\* answering: missing in iTop, not of this service, not monitored.  A class of CIs that
\* iTop did not deliver is the exception (see the README).
MarksAreTrue ==
    reply.kind = "sheet" =>
       /\ "not in iTop" \in reply.marks =>
            \/ ~asked.host.ci /\ ~asked.host.address
            \/ "itop" \in reply.warned \/ asked.skipped
       /\ "not in service" \in reply.marks =>
            \/ ~asked.host.linked \/ ~asked.host.ci
            \/ "itop" \in reply.warned \/ asked.skipped
       /\ "not monitored" \in reply.marks =>
            ~asked.host.monitored /\ "zabbix" \notin reply.warned
=============================================================================
