--------------------------- MODULE MC_PortAnalysis ---------------------------
(* Instances of PortAnalysis for TLC. *)
EXTENDS PortAnalysis

\* The flow's source is in "host" and, through a group that contains itself, in "net".
Addresses == [host |-> {"src"}, srv |-> {"dst"}, other |-> {}]
AddressGroups == [net |-> <<"loop", "other">>, loop |-> <<"net", "host">>]
\* Overlapping, touching and unordered ranges.
Services == [web   |-> [tcp |-> <<<<2, 2>>, <<1, 1>>>>, udp |-> <<>>],
             dns   |-> [tcp |-> <<<<2, 3>>>>, udp |-> <<<<2, 2>>>>],
             high  |-> [tcp |-> <<<<3, 4>>, <<4, 4>>>>, udp |-> <<<<3, 4>>>>]]
ServiceGroups == [mixed |-> <<"web", "mixed", "high">>]
\* "wan" lies in the device zone "transfer", which the normalized interface "norm" maps.
Defaults == [glob |-> {"wan"}, norm |-> {"lan"}]

Policy(src, dst, from, svc, accept) ==
    [srcintf |-> src, dstintf |-> dst, srcaddr |-> from, dstaddr |-> <<"srv">>,
     service |-> svc, accept |-> accept, enabled |-> TRUE, isdb |-> FALSE, negate |-> FALSE]

Plain == {Policy({"any"}, dst, from, svc, accept) :
            dst \in {{"transfer"}, {"norm", "dmz"}, {"dmz"}, {"glob"}},
            from \in {<<"net">>}, svc \in {<<"mixed">>, <<"dns">>}, accept \in BOOLEAN}
         \cup {Policy({"any"}, {"transfer"}, <<"other">>, <<"ALL">>, accept) : accept \in BOOLEAN}
         \cup {Policy({"norm"}, {"any"}, <<"all">>, <<"ALL">>, FALSE)}
Odd == {[Policy({"lan"}, {}, <<"all">>, <<"ALL_TCP">>, TRUE) EXCEPT !.enabled = FALSE],
        [Policy({}, {"wan"}, <<"all">>, <<"ALL_UDP">>, TRUE) EXCEPT !.isdb = TRUE],
        [Policy({"glob"}, {"any"}, <<"all">>, <<"web", "high">>, FALSE) EXCEPT !.negate = TRUE]}

\* A sync that could not read the device zones leaves them out.
Zones(device) == [device |-> device, local |-> [norm |-> {"transfer"}]]
Known == Zones([transfer |-> {"wan"}])
Missing == Zones(<<>>)

Numbered(ps) == [i \in DOMAIN ps |->
    [id |-> i, srcintf |-> ps[i].srcintf, dstintf |-> ps[i].dstintf, srcaddr |-> ps[i].srcaddr,
     dstaddr |-> ps[i].dstaddr, service |-> ps[i].service, accept |-> ps[i].accept,
     enabled |-> ps[i].enabled, isdb |-> ps[i].isdb, negate |-> ps[i].negate]]
Hop(ps, zones) == [srcintf |-> "lan", egress |-> "wan", policies |-> Numbered(ps),
                   zones |-> zones, real |-> Known, known |-> TRUE]

Lists(S, n) == UNION {[1..k -> S] : k \in 0..n}
Far == {Hop(<<Policy({"any"}, {"any"}, <<"all">>, svc, TRUE)>>, Known) : svc \in {<<"dns">>, <<"mixed">>}}
       \cup {[Hop(<<>>, Known) EXCEPT !.known = FALSE]}

OneHop == {<<Hop(ps, z)>> : ps \in Lists(Plain, 2), z \in {Known, Missing}}
          \cup {<<Hop(<<o, p>>, Known)>> : o \in Odd, p \in Plain}
TwoHops == {<<Hop(ps, Known), far>> : ps \in Lists({p \in Plain : p.dstintf = {"transfer"}}, 2),
                                     far \in Far}
SomePaths == OneHop \cup TwoHops \cup {<<far>> : far \in Far}
===============================================================================
