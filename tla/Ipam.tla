--------------------------------- MODULE Ipam ---------------------------------
(***************************************************************************)
(* The address plan's tools (routers/itop_admin.py, ipam/): free blocks of *)
(* a supernet, free addresses of a net, the tree of nets to choose from,   *)
(* and the comparison of iTop with what lives in a net.  Addresses are     *)
(* numbers; a net is [lo, hi], its first and last address, and nets of     *)
(* different size lie in each other or apart.                              *)
(***************************************************************************)
EXTENDS Requests, Integers, Sequences, FiniteSets, SequencesExt, FiniteSetsExt

CONSTANTS
    MaxScan, MaxBlocks,       \* MAX_SCAN, MAX_FREE: blocks looked at, blocks listed
    MaxProbe, Concurrency,    \* addresses probed in all, and at a time
    ActiveDays, StaleDays     \* reconcile: seen lately; not seen for long

ASSUME SearchAssumption == {MaxScan, MaxBlocks, MaxProbe, Concurrency} \subseteq Nat /\ Concurrency > 0

NetIn(n, m)    == m.lo <= n.lo /\ n.hi <= m.hi
Overlaps(n, m)  == n.lo <= m.hi /\ m.lo <= n.hi
AddressesOf(n)      == n.lo .. n.hi
Size(n)         == n.hi - n.lo + 1

----------------------------------------------------------------------------
(* free_subnets: q = [kind, supernet, size, subnets: a set of nets] *)

\* The n smallest of a set of numbers: a search in ascending order that ends after n.
Lowest(set, n) == {a \in set : Cardinality({b \in set : b < a}) < n}

BlockCount(q) == Size(q.supernet) \div q.size
Block(q, k) == [lo |-> q.supernet.lo + (k - 1) * q.size, hi |-> q.supernet.lo + k * q.size - 1]
Unallocated(q, b) == \A n \in q.subnets : ~Overlaps(b, n)

FreeSubnets ==
    /\ Pending("blocks")
    /\ LET all == {k \in 1 .. Min({BlockCount(asked), MaxScan}) : Unallocated(asked, Block(asked, k))}
       IN  IF asked.size > Size(asked.supernet)
           THEN Give([kind |-> "refused"])
           ELSE Give([kind |-> "blocks", free |-> {Block(asked, k) : k \in Lowest(all, MaxBlocks)},
                      capped |-> Cardinality(all) >= MaxBlocks \/ BlockCount(asked) > MaxScan])

----------------------------------------------------------------------------
(* free_ips, find_free: q = [kind, net, first, last, want, gateway, dhcp: a set of ranges,  *)
(* claim: who has an address, signs: what a probe of it says]                              *)

\* host_addresses: a net of more than two addresses has a first and a last one of its own.
Hosts(q) == (q.first .. q.last) \ (IF Size(q.net) > 2 THEN {q.net.lo, q.net.hi} ELSE {})

\* What iTop, the firewalls or a DHCP range hold is not probed.
Held(q, a) == \/ a = q.gateway
              \/ q.claim[a] \in {"allocated", "reserved", "ci", "firewall"}
              \/ \E r \in q.dhcp : a \in AddressesOf(r)
FreeCandidates(q) == {a \in Hosts(q) : ~Held(q, a)}

\* verdict
Verdict(s) == IF s.ping = "answers" THEN "in_use"
              ELSE IF s.dns \/ s.arp THEN "suspect"
              ELSE IF s.ping = "unavailable" THEN "unknown" ELSE "free"
FreeAmong(q, set) == {a \in set : Verdict(q.signs[a]) = "free"}

\* Waves of Concurrency, the last one cut to MaxProbe: how many candidates have been probed
\* at the end of the first wave after which the loop ends.
Enough(q, n) ==
    \/ n >= Cardinality(FreeCandidates(q)) \/ n >= MaxProbe
    \/ Cardinality(FreeAmong(q, Lowest(FreeCandidates(q), n))) >= q.want
ProbedM(q) ==
    LET all == Cardinality(FreeCandidates(q))
    IN  Min({n \in {Min({k * Concurrency, all}) : k \in 0..all} : Enough(q, n)})
Probed(q) ==
    LET all == Cardinality(FreeCandidates(q))
    IN  Min({n \in {Min({k * Concurrency, all, MaxProbe}) : k \in 0..all} : Enough(q, n)})

FreeAddresses ==
    /\ Pending("addresses")
    /\ IF ~(asked.net.lo <= asked.first /\ asked.first <= asked.last /\ asked.last <= asked.net.hi)
       THEN Give([kind |-> "refused"])
       ELSE LET n    == Probed(asked)
                seen == Lowest(FreeCandidates(asked), n)
            IN  Give([kind |-> "addresses", probed |-> seen, free |-> FreeAmong(asked, seen),
                      exhausted |-> n >= Cardinality(FreeCandidates(asked))])

----------------------------------------------------------------------------
(* build_tree: q = [kind, sites, subnets: sequences of nets].  Sites are hung up as they   *)
(* come, subnets the largest first.                                                        *)

\* sorted keeps the order of those of equal size.
LargerFirst(subnets, i, j) ==
    Size(subnets[i]) > Size(subnets[j]) \/ (Size(subnets[i]) = Size(subnets[j]) /\ i < j)
BySize(subnets) ==
    LET n     == Len(subnets)
        order == CHOOSE p \in [1..n -> 1..n] : \A i, j \in 1..n : i < j => LargerFirst(subnets, p[i], p[j])
    IN  [i \in 1..n |-> subnets[order[i]]]
HungM(q) == q.sites \o q.subnets
Hung(q) == q.sites \o BySize(q.subnets)

Above(q, i) == {j \in 1 .. (i - 1) : Hung(q)[j] # Hung(q)[i] /\ NetIn(Hung(q)[i], Hung(q)[j])}
\* The smallest net so far that holds it, of two equal ones the earlier; 0: a root, or one
\* of the "Weitere Netze".
Parent(q, i) ==
    IF Above(q, i) = {} THEN 0
    ELSE CHOOSE j \in Above(q, i) : \A k \in Above(q, i) :
            Size(Hung(q)[j]) < Size(Hung(q)[k]) \/ (Size(Hung(q)[j]) = Size(Hung(q)[k]) /\ j <= k)

Tree ==
    /\ Pending("nets")
    /\ Give([kind |-> "nets", nodes |-> Hung(asked), sites |-> Len(asked.sites),
             parent |-> [i \in DOMAIN Hung(asked) |-> Parent(asked, i)]])

----------------------------------------------------------------------------
(* reconcile: q = [kind, net, of: for each address what the sources say of it]:             *)
(* [ci, status: of the IPv4Address object, macs: ARP's and the FortiAnalyzer's, each [mac,  *)
(* since, age], faz: age, Untimed or Never, win: age or Never, firewall].  Ages in days.    *)

Never == 99999
Untimed == 99998
ASSUME DaysAssumption == {ActiveDays, StaleDays} \subseteq Nat /\ ActiveDays < Untimed /\ StaleDays < Untimed

Sightings(s) == {m.age : m \in s.macs} \cup (IF s.win = Never THEN {} ELSE {s.win})
                \cup (CASE s.faz = Never -> {} [] s.faz = Untimed -> {0} [] OTHER -> {s.faz})
Age(s) == Min(Sightings(s) \cup {Never})

Mentioned(s) == s.ci \/ s.status # "none" \/ s.macs # {} \/ s.faz # Never \/ s.win # Never
\* A firewall's own interface is a row even at an address that is dropped otherwise.
ReconcileRows(q) == {a \in AddressesOf(q.net) :
              \/ q.of[a].firewall
              \/ Mentioned(q.of[a]) /\ (Size(q.net) > 2 => a \notin {q.net.lo, q.net.hi})}
Observed(q) == \E a \in ReconcileRows(q) : q.of[a].macs # {}

ItopSays(s)   == s.ci \/ s.status \in {"allocated", "reserved"}
Recent(s)   == {m \in s.macs : m.age <= ActiveDays}
AtOnce(m, n) == m.mac # n.mac /\ m.age <= n.since /\ n.age <= m.since

FindingsM(q, s) ==
    IF s.firewall THEN {}
    ELSE (IF Age(s) <= ActiveDays /\ ~ItopSays(s)
          THEN {IF s.status = "none" THEN "not_in_itop" ELSE "itop_released"} ELSE {})
         \cup (IF ItopSays(s) /\ ~(~s.ci /\ s.status = "reserved") /\ Age(s) > StaleDays
               THEN {"stale_in_itop"} ELSE {})
\* _findings; names are left out.
Findings(q, s) ==
    IF s.firewall THEN {}
    ELSE (IF Age(s) <= ActiveDays /\ ~ItopSays(s)
          THEN {IF s.status = "none" THEN "not_in_itop" ELSE "itop_released"} ELSE {})
         \cup (IF Observed(q) /\ ItopSays(s) /\ ~(~s.ci /\ s.status = "reserved") /\ Age(s) > StaleDays
               THEN {"stale_in_itop"} ELSE {})
         \cup (IF Cardinality({m.mac : m \in Recent(s)}) < 2 THEN {}
               ELSE {IF \E m, n \in Recent(s) : AtOnce(m, n) THEN "ip_conflict" ELSE "mac_changed"})

Reconcile ==
    /\ Pending("reconcile")
    /\ Give([kind |-> "reconcile",
             rows |-> [a \in ReconcileRows(asked) |-> Findings(asked, asked.of[a])]])

IpamNext == FreeSubnets \/ FreeAddresses \/ Tree \/ Reconcile

----------------------------------------------------------------------------
(* Properties *)

\* An answer that does not say it was cut short is complete, and nothing in it is taken:
\* with exhausted or uncapped every free block or address is in it; a search that stopped
\* has what was wanted, or has probed MaxProbe addresses and not one more (free_subnets,
\* find_free: waves cut by three bounds).
SearchIsComplete ==
    /\ reply.kind = "blocks" =>
         LET true == {b \in {Block(asked, k) : k \in 1 .. BlockCount(asked)} : Unallocated(asked, b)}
         IN  reply.free \subseteq true /\ (~reply.capped => reply.free = true)
    /\ reply.kind = "addresses" =>
         LET true == FreeAmong(asked, FreeCandidates(asked))
         IN  /\ reply.free \subseteq true /\ Cardinality(reply.probed) <= MaxProbe
             /\ \/ reply.exhausted /\ reply.free = true
                \/ ~reply.exhausted /\ Cardinality(reply.free) >= asked.want
                \/ ~reply.exhausted /\ Cardinality(reply.probed) = MaxProbe

\* A subnet hangs under the smallest other net that holds it, site or subnet, in whatever
\* order iTop lists them (build_tree).
UnderTheSmallest ==
    reply.kind = "nets" =>
       \A i \in DOMAIN reply.nodes, j \in DOMAIN reply.nodes :
          LET n == reply.nodes[i]  m == reply.nodes[j]  p == reply.parent[i]
          IN  i > reply.sites /\ n # m /\ NetIn(n, m) =>
                 p # 0 /\ NetIn(n, reply.nodes[p]) /\ NetIn(reply.nodes[p], m)

\* A host that lives and is not in use in iTop is reported, and so is one iTop holds that
\* has not been seen by any source for StaleDays, in a net somebody watches; a host of
\* which neither is so is not (reconcile: six sources, each with times of its own).
SilenceAndLifeReported ==
    reply.kind = "reconcile" =>
       \A a \in asked.net.lo + 1 .. asked.net.hi - 1 :
          LET s    == asked.of[a]
              told == IF a \in DOMAIN reply.rows THEN reply.rows[a] ELSE {}
              seen(days) == \/ \E m \in s.macs : m.age <= days
                            \/ s.win <= days \/ s.faz <= days \/ s.faz = Untimed
              watched == \E b \in DOMAIN reply.rows : asked.of[b].macs # {}
          IN  ~s.firewall =>
                /\ (told \cap {"not_in_itop", "itop_released"} # {}) = (seen(ActiveDays) /\ ~ItopSays(s))
                /\ ("stale_in_itop" \in told) =
                      (watched /\ (s.ci \/ s.status = "allocated") /\ ~seen(StaleDays))
=============================================================================
