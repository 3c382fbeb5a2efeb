------------------------------ MODULE MC_FmgSync ------------------------------
(* Instances of FmgSync for TLC. *)
EXTENDS FmgSync

SomeNames == OwnKinds \cup {"a", "b", "address", "d1", "d2", "p1", "p2", "root", "g", "all"}
TwoAdoms == <<"b", "a">>
OneObj  == <<"address">>

\* At version 1 device d1 of a and the package p1 are gone; b is empty.
SomeKeys(v, a, k) ==
    CASE k = "pkglist"                        -> <<"g">>
      [] k = "global_policy"                  -> IF v = 0 THEN <<"g">> ELSE <<>>
      [] k \in {"device", "package"} /\ a = "b" -> <<>>
      [] k = "device"                         -> IF v = 0 THEN <<"d1", "d2">> ELSE <<"d2">>
      [] k = "package"                        -> IF v = 0 THEN <<"p1", "p2">> ELSE <<"p2">>
      [] OTHER                                -> <<"all">>
SomeVdoms(v, a, d) == <<"root">>
===============================================================================
