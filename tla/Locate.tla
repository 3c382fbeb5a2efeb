-------------------------------- MODULE Locate --------------------------------
(***************************************************************************)
(* Where does the host with one address hang?  The search (locate/chain.py)*)
(* asks for the MAC - the firewall's ARP table, LibreNMS' ARP table, the   *)
(* FortiAnalyzer, the recorded history - and then for the switch port the  *)
(* MAC was learned on (locate/fdb_librenms.py).  The history               *)
(* (locate/arp_store.py) is fed by the sweep (locate/arp_sweep.py) and by  *)
(* every search.  Other addresses are other instances of this module.      *)
(***************************************************************************)
EXTENDS Integers, Sequences, FiniteSets, SequencesExt

CONSTANTS
    Mac,         \* MACs the address can have, one after the other
    Target,      \* l3_targets: VDOMs with connected nets, in the order of the sweep
    Owner,       \* PrefixTable.lookup_owner: the VDOM the address belongs to
    MaxHostChange, MaxLocateFault,      \* bounds: moves of the host; failed writes, days
    NoMac, NoAnswer, Off

ASSUME LocateAssumption ==
    /\ Owner \in ToSet(Target)
    /\ {NoMac, Off} \cap Mac = {}

VARIABLES
    live,      \* live[t]: the MAC in the ARP table of VDOM t, NoMac, or Off: no answer
    history,   \* arp_history of the address: its MACs, the one seen last first
    expired,   \* those of them not seen for longer than the retention
    sweep,     \* ArpSweeper: [phase, at: index of the target, rows: what was fetched]
    search,    \* a search under way: [pc, mac, from, seen]
    answer,    \* LocateChain._cache
    moved, faults

locateVars == <<live, history, expired, sweep, search, answer, moved, faults>>
worldVars  == <<live, moved>>

NoSearch == [pc |-> "idle", mac |-> NoMac, from |-> "none", seen |-> {}]
Resting  == [phase |-> "idle", at |-> 1, rows |-> {}]

LocateInit ==
    /\ live \in [ToSet(Target) -> Mac \cup {Off}]
    /\ history = <<>> /\ expired = {}
    /\ sweep = Resting /\ search = NoSearch
    /\ answer = NoAnswer
    /\ moved = 0 /\ faults = 0

----------------------------------------------------------------------------
(* The history *)

RecordedM(ms) == SetToSeq(ms \ ToSet(history)) \o history
\* ArpStore.record: an upsert per binding; what is seen is the newest from now on.
Recorded(ms) == SetToSeq(ms) \o SelectSeq(history, LAMBDA m : m \notin ms)

Record(ms) == history' = Recorded(ms) /\ expired' = expired \ ms

Newest == IF history = <<>> THEN NoMac ELSE Head(history)     \* by_ip

\* ArpStore.purge: what was not seen for the retention.
PurgeHistory ==
    /\ history' = SelectSeq(history, LAMBDA m : m \notin expired)
    /\ expired' = {}

----------------------------------------------------------------------------
(* ArpSweeper.run *)

\* Read at once by the periodic task and POST /arp-cache/sweep: one run at a time.
SweepBegin ==
    /\ sweep.phase # "running"
    /\ sweep' = [phase |-> "running", at |-> 1, rows |-> {}]
    /\ UNCHANGED <<worldVars, history, expired, search, answer, faults>>

Running == sweep.phase = "running" /\ sweep.at <= Len(Target)

\* arp_fortigate.fetch_table, observations: a device that does not answer is left out.
SweepFetch ==
    /\ Running /\ sweep.rows = {}
    /\ LET m == live[Target[sweep.at]]
       IN  sweep' = IF m \in Mac THEN [sweep EXCEPT !.rows = {m}] ELSE [sweep EXCEPT !.at = @ + 1]
    /\ UNCHANGED <<worldVars, history, expired, search, answer, faults>>

SweepRecord ==
    /\ Running /\ sweep.rows # {}
    /\ \/ /\ Record(sweep.rows)
          /\ sweep' = [sweep EXCEPT !.at = @ + 1, !.rows = {}]
          /\ UNCHANGED faults
       \/ /\ faults < MaxLocateFault /\ faults' = faults + 1
          /\ sweep' = [Resting EXCEPT !.phase = "error"]
          /\ UNCHANGED <<history, expired>>
    /\ UNCHANGED <<worldVars, search, answer>>

SweepPurge ==
    /\ sweep.phase = "running" /\ sweep.at > Len(Target)
    /\ PurgeHistory
    /\ sweep' = [Resting EXCEPT !.phase = "done"]
    /\ UNCHANGED <<worldVars, search, answer, faults>>

----------------------------------------------------------------------------
(* LocateChain.locate *)

Step(next) == search' = [search EXCEPT !.pc = next]

LocateBegin ==
    /\ search.pc = "idle" /\ answer = NoAnswer
    /\ search' = [NoSearch EXCEPT !.pc = "fortigate"]
    /\ UNCHANGED <<worldVars, history, expired, sweep, answer, faults>>

\* arp_fortigate.resolve
AskFortigate ==
    /\ search.pc = "fortigate"
    /\ search' = IF live[Owner] \in Mac
                 THEN [search EXCEPT !.pc = "record", !.mac = live[Owner],
                                     !.from = "fortigate", !.seen = {live[Owner]}]
                 ELSE [search EXCEPT !.pc = "librenms"]
    /\ UNCHANGED <<worldVars, history, expired, sweep, answer, faults>>

\* arp_librenms.resolve: a MAC LibreNMS polled some time ago, nothing, or an error.
AskLibrenms ==
    /\ search.pc = "librenms"
    /\ \/ \E m \in Mac : search' = [search EXCEPT !.pc = "record", !.mac = m,
                                                  !.from = "librenms", !.seen = {m}]
       \/ Step("faz")
    /\ UNCHANGED <<worldVars, history, expired, sweep, answer, faults>>

\* _record: a failure does not end the search.
RecordSeen ==
    /\ search.pc = "record"
    /\ \/ Record(search.seen) /\ UNCHANGED faults
       \/ faults < MaxLocateFault /\ faults' = faults + 1 /\ UNCHANGED <<history, expired>>
    /\ Step("ports")
    /\ UNCHANGED <<worldVars, sweep, answer>>

\* _from_faz: not recorded, its time is not now.
AskFaz ==
    /\ search.pc = "faz"
    /\ \/ \E m \in Mac : search' = [search EXCEPT !.pc = "ports", !.mac = m, !.from = "faz"]
       \/ Step("history")
    /\ UNCHANGED <<worldVars, history, expired, sweep, answer, faults>>

\* _from_history; without a MAC there is no search for the port.
AskHistory ==
    /\ search.pc = "history"
    /\ IF Newest \in Mac
       THEN /\ search' = [search EXCEPT !.pc = "ports", !.mac = Newest, !.from = "cache"]
            /\ UNCHANGED answer
       ELSE /\ search' = NoSearch
            /\ answer' = [mac |-> NoMac, from |-> "none"]
    /\ UNCHANGED <<worldVars, history, expired, sweep, faults>>

\* The port is searched (Switches.tla) and the answer kept for ttl_s.
Answer ==
    /\ search.pc = "ports"
    /\ answer' = [mac |-> search.mac, from |-> search.from]
    /\ search' = NoSearch
    /\ UNCHANGED <<worldVars, history, expired, sweep, faults>>

----------------------------------------------------------------------------
(* Everybody else *)

Forget ==
    /\ answer # NoAnswer /\ answer' = NoAnswer
    /\ UNCHANGED <<worldVars, history, expired, sweep, search, faults>>

\* The host is replaced, falls silent or speaks again; its firewall is away.
HostMoves ==
    /\ moved < MaxHostChange /\ moved' = moved + 1
    /\ \E t \in ToSet(Target), m \in Mac \cup {NoMac, Off} :
          live[t] # m /\ live' = [live EXCEPT ![t] = m]
    /\ UNCHANGED <<history, expired, sweep, search, answer, faults>>

TimePasses ==
    /\ expired # ToSet(history)
    /\ expired' = ToSet(history)
    /\ UNCHANGED <<worldVars, history, sweep, search, answer, faults>>

SweepStep == SweepBegin \/ SweepFetch \/ SweepRecord \/ SweepPurge
SearchStep == LocateBegin \/ AskFortigate \/ AskLibrenms \/ RecordSeen \/ AskFaz \/ AskHistory
              \/ Answer
LocateNext == SweepStep \/ SearchStep \/ Forget \/ HostMoves \/ TimePasses

----------------------------------------------------------------------------
(* Properties *)

\* While the host speaks and its firewall answers, the history comes back to its MAC
\* as the newest - whatever LibreNMS' old table, another VDOM, a failed write or the
\* purge put there meanwhile (arp_sweep.run, arp_store.record, purge).
HistoryCatchesUp ==
    \A m \in Mac : <>[](live[Owner] = m) => []<>(Newest = m)
=============================================================================
