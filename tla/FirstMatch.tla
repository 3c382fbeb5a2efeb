------------------------------ MODULE FirstMatch ------------------------------
(***************************************************************************)
(* What the firewalls of a path promise about their ordered rules: the     *)
(* first rule that covers a port decides it, and a port no rule covers is  *)
(* denied.  One firewall after the other, one rule after the other; ports  *)
(* are plain sets.  The analysis of all ports (PortAnalysis) computes this *)
(* with lists of ranges.                                                   *)
(***************************************************************************)
EXTENDS Integers, Sequences

CONSTANT Port     \* the ports of all protocols

Rule == [covers : SUBSET Port, accept : BOOLEAN]

VARIABLES rules,        \* the rules of the firewall at hand, in order
          next,         \* the rule to look at
          allowed,      \* ports an accepting rule has decided
          undecided     \* ports no rule has decided so far

vars == <<rules, next, allowed, undecided>>

\* Rule k is the first one that covers p.
Decides(r, k, p) == p \in r[k].covers /\ \A j \in 1..k - 1 : p \notin r[j].covers
Accepted(r, p) == \E k \in DOMAIN r : Decides(r, k, p) /\ r[k].accept

Init ==
    /\ rules = <<>>
    /\ next = 1
    /\ allowed = {}
    /\ undecided = Port

TakeRule ==
    /\ next <= Len(rules)
    /\ allowed' = IF rules[next].accept
                  THEN allowed \cup (undecided \cap rules[next].covers) ELSE allowed
    /\ undecided' = undecided \ rules[next].covers
    /\ next' = next + 1
    /\ UNCHANGED rules

Through == next > Len(rules) \/ undecided = {}

NextFirewall ==
    /\ Through
    /\ rules' \in Seq(Rule)
    /\ next' = 1
    /\ allowed' = {}
    /\ undecided' = Port

Next == TakeRule \/ NextFirewall
Spec == Init /\ [][Next]_vars

TypeOK ==
    /\ rules \in Seq(Rule)
    /\ next \in 1..Len(rules) + 1
    /\ allowed \subseteq Port
    /\ undecided \subseteq Port

\* What the rules looked at so far say of each port.
SoFar ==
    /\ allowed = {p \in Port : \E k \in 1..next - 1 : Decides(rules, k, p) /\ rules[k].accept}
    /\ undecided = {p \in Port : \A k \in 1..next - 1 : p \notin rules[k].covers}

IInv == TypeOK /\ SoFar

\* When the rules are through, the allowed ports are those whose first covering rule
\* accepts (engine/ports.py, the doc of hop_allowed).
Right == Through => allowed = {p \in Port : Accepted(rules, p)}
===============================================================================
