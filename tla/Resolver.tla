------------------------------- MODULE Resolver -------------------------------
(***************************************************************************)
(* The address of a name (resolver/chain.py): it is looked up among the    *)
(* FortiManager's objects, in the host index of iTop                       *)
(* (resolver/itop_source.py) and in DNS, and what is found is kept.        *)
(***************************************************************************)
EXTENDS Integers, FiniteSets, Sequences

CONSTANTS
    Name, Addr,          \* host names, addresses
    ClassOf,             \* ClassOf[n]: position of n's class in itop_source._CI_CLASSES
    MaxSourceChange, MaxLookupFault,     \* bounds: changed entries; lookups that failed
    NoEntry              \* no entry, no answer

Loader  == {"search", "refresh"}         \* resolve_name; refresh: the button, the daily task
Classes == 3

VARIABLES
    fmg, itop, dns,      \* what each source says of a name, NoEntry when it does not know it
    hosts, fresh,        \* ItopSource._hosts, and whether it is younger than its TTL
    load,                \* ItopSource._index under way: [at: class, hosts: gathered so far]
    lookup,              \* resolve_endpoint under way: [pc, name]
    answers,             \* ResolverChain._cache: [ip, from] of a name
    changed, failures

resolverVars == <<fmg, itop, dns, hosts, fresh, load, lookup, answers, changed, failures>>
sourceVars   == <<fmg, itop, dns, changed>>

NoHosts == [n \in Name |-> NoEntry]
NoLoad  == [at |-> 0, hosts |-> NoHosts]

ResolverInit ==
    /\ fmg \in [Name -> Addr \cup {NoEntry}] /\ itop \in [Name -> Addr \cup {NoEntry}]
    /\ dns \in [Name -> Addr]
    /\ hosts = NoHosts /\ fresh = FALSE
    /\ load = [l \in Loader |-> NoLoad]
    /\ lookup = [pc |-> "idle", name |-> NoEntry]
    /\ answers = [n \in Name |-> NoEntry]
    /\ changed = 0 /\ failures = 0

LookupFails == failures < MaxLookupFault /\ failures' = failures + 1

----------------------------------------------------------------------------
(* ItopSource._index *)

UsableM == hosts # NoHosts
Usable == hosts # NoHosts /\ fresh
Begun  == [at |-> 1, hosts |-> NoHosts]

\* A class that cannot be read is left out, and the rest is the index.
LoadClass(l) ==
    /\ load[l].at \in 1 .. Classes
    /\ \/ /\ load' = [load EXCEPT ![l] =
                [at |-> @.at + 1,
                 hosts |-> [n \in Name |-> IF ClassOf[n] = @.at THEN itop[n] ELSE @.hosts[n]]]]
          /\ UNCHANGED failures
       \/ /\ \E n \in Name : ClassOf[n] = load[l].at
          /\ LookupFails /\ load' = [load EXCEPT ![l].at = @ + 1]
    /\ UNCHANGED <<sourceVars, hosts, fresh, lookup, answers>>

Loaded(l) ==
    /\ load[l].at > Classes
    /\ hosts' = load[l].hosts /\ fresh' = TRUE
    /\ load' = [load EXCEPT ![l] = NoLoad]

\* refresh: what is being loaded already goes on, and is stored when it comes.
RefreshItop ==
    /\ load["refresh"] = NoLoad
    /\ fresh' = FALSE
    /\ load' = [load EXCEPT !["refresh"] = Begun]
    /\ UNCHANGED <<sourceVars, hosts, lookup, answers, failures>>

RefreshLoaded ==
    /\ Loaded("refresh")
    /\ UNCHANGED <<sourceVars, lookup, answers, failures>>

----------------------------------------------------------------------------
(* ResolverChain.resolve_endpoint *)

Rest == lookup' = [pc |-> "idle", name |-> NoEntry]
KeptAnswer(n, ip, from) == answers' = [answers EXCEPT ![n] = [ip |-> ip, from |-> from]] /\ Rest

\* fmg_source.resolve_name
ResolveBegin ==
    /\ lookup.pc = "idle"
    /\ \E n \in {m \in Name : answers[m] = NoEntry} :
          IF fmg[n] # NoEntry
          THEN KeptAnswer(n, fmg[n], "fmg")
          ELSE lookup' = [pc |-> "itop", name |-> n] /\ UNCHANGED answers
    /\ UNCHANGED <<sourceVars, hosts, fresh, load, failures>>

InIndex(index) ==
    LET n == lookup.name
    IN  IF index[n] # NoEntry
        THEN KeptAnswer(n, index[n], "itop")
        ELSE lookup' = [lookup EXCEPT !.pc = "dns"] /\ UNCHANGED answers

\* itop_source.resolve_name
AskItop ==
    /\ lookup.pc = "itop"
    /\ IF Usable
       THEN InIndex(hosts) /\ UNCHANGED load
       ELSE /\ lookup' = [lookup EXCEPT !.pc = "load"]
            /\ load' = [load EXCEPT !["search"] = Begun]
            /\ UNCHANGED answers
    /\ UNCHANGED <<sourceVars, hosts, fresh, failures>>

SearchLoaded ==
    /\ lookup.pc = "load" /\ Loaded("search")
    /\ InIndex(load["search"].hosts)
    /\ UNCHANGED <<sourceVars, failures>>

\* dns_source.resolve_name; nothing found is an error of the request and not kept.
AskDns ==
    /\ lookup.pc = "dns"
    /\ \/ /\ IF dns[lookup.name] # NoEntry
             THEN KeptAnswer(lookup.name, dns[lookup.name], "dns")
             ELSE Rest /\ UNCHANGED answers
          /\ UNCHANGED failures
       \/ LookupFails /\ Rest /\ UNCHANGED answers
    /\ UNCHANGED <<sourceVars, hosts, fresh, load>>

----------------------------------------------------------------------------
(* Time, and the sources *)

AnswerAges(n) ==
    /\ answers[n] # NoEntry /\ answers' = [answers EXCEPT ![n] = NoEntry]
    /\ UNCHANGED <<sourceVars, hosts, fresh, load, lookup, failures>>

IndexAges ==
    /\ fresh /\ fresh' = FALSE
    /\ UNCHANGED <<sourceVars, hosts, load, lookup, answers, failures>>

SourceChanges ==
    /\ changed < MaxSourceChange /\ changed' = changed + 1
    /\ \E n \in Name, x \in Addr \cup {NoEntry} :
          \/ fmg[n] # x /\ fmg' = [fmg EXCEPT ![n] = x] /\ UNCHANGED <<itop, dns>>
          \/ itop[n] # x /\ itop' = [itop EXCEPT ![n] = x] /\ UNCHANGED <<fmg, dns>>
          \/ dns[n] # x /\ dns' = [dns EXCEPT ![n] = x] /\ UNCHANGED <<fmg, itop>>
    /\ UNCHANGED <<hosts, fresh, load, lookup, answers, failures>>

LoadStep == (\E l \in Loader : LoadClass(l)) \/ RefreshLoaded \/ SearchLoaded
AskStep  == AskItop \/ AskDns

ResolverNext ==
    \/ RefreshItop \/ ResolveBegin \/ LoadStep \/ AskStep
    \/ (\E n \in Name : AnswerAges(n)) \/ IndexAges \/ SourceChanges

----------------------------------------------------------------------------
(* Properties *)

First(n) ==
    IF fmg[n] # NoEntry THEN [ip |-> fmg[n], from |-> "fmg"]
    ELSE IF itop[n] # NoEntry THEN [ip |-> itop[n], from |-> "itop"]
    ELSE [ip |-> dns[n], from |-> "dns"]

\* The sources change a bounded number of times here.  Once they stay, what is kept of a
\* name is in the end what the first source that knows it says - although an index with a
\* class missing, or one read before a refresh and stored after it, or an address DNS no
\* longer gives may have been kept meanwhile.
AnswersSettle ==
    <>[](\A n \in Name : answers[n] \in {NoEntry, First(n)})
=============================================================================
