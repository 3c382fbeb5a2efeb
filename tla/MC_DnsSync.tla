----------------------------- MODULE MC_DnsSync -----------------------------
(* Small instances of DnsSync.  The .cfg files choose the actors and bounds. *)
EXTENDS DnsSync, TLC

CONSTANTS a1, a2, w1, w2, ip1, n1, n2, bare

OneAdmin   == {a1}
TwoAdmins  == {a1, a2}
OneWorker  == {w1}
TwoWorkers == {w1, w2}
NoActor    == {}

\* Each request is served by the one worker there is; admins without a modelled
\* scheduler have no Home and are not crashed.
ServedByOne == [x \in {a1, a2} |-> w1]

OneAddr  == {ip1}
OneName  == {n1}
TwoNames == {n1, n2}
BareNames == {bare}

\* n1 is the only name with a short form in iTop, both have a Domain.
ShortNames == [n \in DnsName |-> IF n = n1 THEN bare ELSE n]
\* The A record of n1 points back to the address, that of n2 to none.
PointsBack == [a \in Addr |-> {n1} \cap DnsName]

\* Admins are interchangeable: used only where the cfg treats them alike.
AdminsAlike == Permutations({a1, a2})
=============================================================================
