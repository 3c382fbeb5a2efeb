----------------------------- MODULE ReverseNames -----------------------------
(***************************************************************************)
(* The names of addresses (resolver/dns_cache.py): they are kept in the    *)
(* table dns_cache, a missing one too; each request reads the table once,  *)
(* asks DNS for what it lacks and writes back what it learnt.              *)
(***************************************************************************)
EXTENDS Integers, FiniteSets

CONSTANTS
    Host, Label,          \* addresses; what DNS can say of one, NoName among it
    Reader,               \* requests side by side: plans, switch views, free addresses
    NoName,
    MaxRename, MaxDnsFault    \* bounds: changed PTR entries; timeouts and failed writes

ASSUME ReverseNamesAssumption == NoName \in Label

VARIABLES
    ptr,        \* the PTR entry of an address
    table,      \* dns_cache: the set of rows [ip, name, fresh], one of an address at most
    reader,     \* ReverseResolver: [pc, known, new], the names as sets of [ip, name]
    renamed, faulted

reverseVars == <<ptr, table, reader, renamed, faulted>>

NoReader == [pc |-> "idle", known |-> {}, new |-> {}]

ReverseInit ==
    /\ ptr \in [Host -> Label]
    /\ table = {}
    /\ reader = [r \in Reader |-> NoReader]
    /\ renamed = 0 /\ faulted = 0

DnsFails == faulted < MaxDnsFault /\ faulted' = faulted + 1

\* DnsCache.get: what is fresh, each kind of row by its own TTL.
Fresh == {[ip |-> e.ip, name |-> e.name] : e \in {x \in table : x.fresh}}

\* build_reverse, prime; an unreadable table costs the rows only.
Prime(r) ==
    /\ reader[r].pc = "idle"
    /\ \/ reader' = [reader EXCEPT ![r].pc = "asks", ![r].known = Fresh] /\ UNCHANGED faulted
       \/ DnsFails /\ reader' = [reader EXCEPT ![r].pc = "asks"]
    /\ UNCHANGED <<ptr, table, renamed>>

Unknown(r) == {h \in Host : \A e \in reader[r].known : e.ip # h}

Learns(r, h, name) ==
    reader' = [reader EXCEPT ![r].known = @ \cup {[ip |-> h, name |-> name]},
                             ![r].new   = @ \cup {[ip |-> h, name |-> name]}]

\* __call__, dns_source.resolve_ip: a timeout comes back as no name, and is kept as one.
Ask(r) ==
    /\ reader[r].pc = "asks"
    /\ \E h \in Unknown(r) :
          \/ Learns(r, h, ptr[h]) /\ UNCHANGED faulted
          \/ DnsFails /\ Learns(r, h, NoName)
    /\ UNCHANGED <<ptr, table, renamed>>

\* DnsCache.put: an upsert; the rows are as of now.
Put(new) == {e \in table : \A n \in new : n.ip # e.ip} \cup
            {[ip |-> n.ip, name |-> n.name, fresh |-> TRUE] : n \in new}

\* flush: a failure costs what was learnt.
Flush(r) ==
    /\ reader[r].pc = "asks" /\ Unknown(r) = {}
    /\ \/ table' = Put(reader[r].new) /\ UNCHANGED faulted
       \/ DnsFails /\ reader[r].new # {} /\ UNCHANGED table
    /\ reader' = [reader EXCEPT ![r] = NoReader]
    /\ UNCHANGED <<ptr, renamed>>

AgedM(e) == [e EXCEPT !.fresh = e.name = NoName]
\* HIT_TTL_S, MISS_TTL_S
Aged(e) == [e EXCEPT !.fresh = FALSE]

RowAges(h) ==
    /\ \E e \in table : e.ip = h /\ e.fresh /\ table' = (table \ {e}) \cup {Aged(e)}
    /\ UNCHANGED <<ptr, reader, renamed, faulted>>

\* purge, every six hours (main._periodic_dns_purge): rows of long ago.
PurgeNames ==
    /\ \E e \in table : ~e.fresh /\ table' = table \ {e}
    /\ UNCHANGED <<ptr, reader, renamed, faulted>>

Rename ==
    /\ renamed < MaxRename /\ renamed' = renamed + 1
    /\ \E h \in Host, n \in Label : ptr[h] # n /\ ptr' = [ptr EXCEPT ![h] = n]
    /\ UNCHANGED <<table, reader, faulted>>

ReverseNext ==
    \/ \E r \in Reader : Prime(r) \/ Ask(r) \/ Flush(r)
    \/ (\E h \in Host : RowAges(h)) \/ PurgeNames \/ Rename

----------------------------------------------------------------------------
(* Properties *)

\* Once the PTR entries stay, no name but DNS' own is believed for ever: neither the missing
\* one a timeout was kept as, nor the one a slow request had asked for before the change and
\* wrote back over what another had read after it (put, flush).
NamesSettle ==
    \A h \in Host : <>[](\A e \in table : e.ip = h /\ e.fresh => e.name = ptr[h])
=============================================================================
