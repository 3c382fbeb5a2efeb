------------------------------- MODULE FmgSync -------------------------------
(***************************************************************************)
(* The synchronization of the FortiManager inventory (SyncManager in       *)
(* inventory/sync.py, called by the periodic task of main.py and by        *)
(* POST /api/fmg/sync).  A run reads kind after kind of each ADOM; every   *)
(* kind replaces its rows of the table fmg_snapshot in a transaction of    *)
(* its own; at the end the read models in memory are built from the table  *)
(* and swapped.  One process is modelled, as deployed (api/Dockerfile).    *)
(*                                                                         *)
(* A row is the version of the FortiManager's data it shows.               *)
(***************************************************************************)
EXTENDS FmgClient, Integers, Sequences, SequencesExt, FiniteSets

CONSTANTS
    Name,               \* what ADOMs, kinds, devices, VDOMs and packages are called
    Adoms,              \* the ADOMs configured in system_config['fmg']
    Mode,               \* auth_mode of system_config['fmg']
    ObjKind,            \* kinds of objects, in the order they are read
    Keys(_, _, _),      \* Keys(v, a, k): the keys of kind k in ADOM a at version v, in order
    Vdoms(_, _, _),     \* Vdoms(v, a, d): the VDOMs of device d, in order
    MaxChange,          \* bound: versions of the FortiManager's data
    MaxRequest,         \* bound: runs started by hand
    MaxFault            \* bound: what goes wrong, be it the network, the database or the process

Global == "global"      \* GLOBAL_ADOM
Runner == {"periodic", "request"}

\* The kinds the program names itself; those of the objects are others.
Hardware == <<"interface", "route", "devzone">>
OwnKinds == {Global, "global_policy", "pkglist", "device", "package", "policy", "hardware"}
            \cup ToSet(Hardware)

\* A name stands once in a list: an ADOM is ticked or not (FmgPanel.tsx), the FortiManager's
\* names are unique, and so is (adom, kind, key) in fmg_snapshot (001_initial.sql:27).
Names == {s \in Seq(Name) : IsInjective(s)}

ASSUME AdomsAssumption == Adoms \in Names /\ Adoms # <<>> /\ Global \notin ToSet(Adoms)
ASSUME ModeAssumption == Mode \in AuthModes
ASSUME BoundAssumption == MaxChange \in Nat
ASSUME KindAssumption == OwnKinds \subseteq Name /\ ObjKind \in Names /\ ToSet(ObjKind) \cap OwnKinds = {}
ASSUME KeysAssumption ==
    \A v \in 0..MaxChange, a \in ToSet(Adoms) \cup {Global} :
        /\ \A k \in OwnKinds \cup ToSet(ObjKind) : Keys(v, a, k) \in Names
        /\ \A d \in ToSet(Keys(v, a, "device")) : Vdoms(v, a, d) \in Names

VARIABLES
    fmg,        \* the version of the FortiManager's data
    rows,       \* fmg_snapshot
    served,     \* app.state.inventory: the rows it was built from
    phase,      \* sync_manager.state["phase"]
    pc, run,    \* where each caller stands, and its local variables
    used        \* how much of each bound is used up

vars == <<fmg, rows, served, phase, pc, run, used>>

Stages == <<Global, "device", "package", "policy">> \o ObjKind \o <<"hardware">>

Row(a, k, key, v) == [adom |-> a, kind |-> k, key |-> key, ver |-> v]
Reading(k, key) == [kind |-> k, key |-> key]
NoKey == <<>>

\* read: the reads to come; items: rows not stored yet; store: kinds to store;
\* packages, devices, vdoms: what was listed for the later stages; got: all that was read
\* and kept in this run (no variable of the code).
Local == [adoms |-> <<>>, stage |-> 1, read |-> <<>>, items |-> {}, store |-> <<>>,
          packages |-> <<>>, devices |-> <<>>, vdoms |-> <<>>, built |-> {}, open |-> FALSE,
          got |-> {}]

Goto(x, l) == pc' = [pc EXCEPT ![x] = l]
Use(b, max) == used[b] < max /\ used' = [used EXCEPT ![b] = @ + 1]

Init ==
    /\ fmg = 0
    /\ rows = {} /\ served = {} /\ phase = "idle"
    /\ pc = [x \in Runner |-> "idle"]
    /\ run = [x \in Runner |-> Local]
    /\ used = [request |-> 0, fault |-> 0]

----------------------------------------------------------------------------
(* The callers *)

\* A request looks at the phase and then awaits the settings, the periodic task has
\* waited for its interval ...
ReadConfig(x) ==
    /\ pc[x] = "idle" /\ phase # "running"
    /\ IF x = "request" THEN Use("request", MaxRequest) ELSE UNCHANGED used
    /\ run' = [run EXCEPT ![x] = [Local EXCEPT !.adoms = Adoms]]
    /\ Goto(x, "ready")
    /\ UNCHANGED <<fmg, rows, served, phase>>

\* A database that does not answer ends the endless loop of the task: read_config stands
\* outside of its try.
ConfigFails ==
    /\ pc["periodic"] = "idle" /\ Use("fault", MaxFault)
    /\ Goto("periodic", "dead")
    /\ UNCHANGED <<fmg, rows, served, phase, run>>

Each(k, keys) == [i \in DOMAIN keys |-> Reading(k, <<keys[i]>>)]
KindsOf(stage) ==
    CASE stage = Global -> <<"global_policy">> [] stage = "hardware" -> Hardware [] OTHER -> <<stage>>
ReadsOf(l, stage) ==
    CASE stage = Global -> <<Reading("pkglist", NoKey)>>
      [] stage = "policy" -> Each("policy", l.packages)
      [] stage = "hardware" -> Each("interface", l.devices)
      [] OTHER -> <<Reading(stage, NoKey)>>
Entered(l, n) == [l EXCEPT !.stage = n, !.items = {}, !.store = KindsOf(Stages[n]),
                           !.read = ReadsOf(l, Stages[n])]

\* With nothing left to read and to store comes the next stage, or the first one of the
\* next ADOM (the global rules are read once), or the end.
Advanced(l) ==
    IF l.read # <<>> \/ l.store # <<>> THEN l
    ELSE IF l.stage < Len(Stages) THEN Entered(l, l.stage + 1)
    ELSE Entered([l EXCEPT !.adoms = Tail(@)], 2)
Go(x, l) ==
    /\ run' = [run EXCEPT ![x] = Advanced(l)]
    /\ Goto(x, IF run'[x].adoms = <<>> THEN "load" ELSE "sync")

\* Mutant: the run relies on what its callers saw.
FreeM == TRUE
Free == phase # "running"

\* ... so SyncManager.run looks again, with no await before it sets the phase.
Enter(x) ==
    /\ pc[x] = "ready"
    /\ IF Free
       THEN /\ phase' = "running" /\ Goto(x, "sync")
            /\ run' = [run EXCEPT ![x] = Entered(@, 1)]
       ELSE Goto(x, "close") /\ UNCHANGED <<phase, run>>
    /\ UNCHANGED <<fmg, rows, served, used>>

----------------------------------------------------------------------------
(* Reading *)

Stage(x) == Stages[run[x].stage]
Adom(x) == IF Stage(x) = Global THEN Global ELSE Head(run[x].adoms)

Listed(a, k) == {Row(a, k, <<key>>, fmg) : key \in ToSet(Keys(fmg, a, k))}

\* Packages and devices that are gone by now answer with an error.
There(a, r) ==
    CASE r.kind = "policy" -> r.key[1] \in ToSet(Keys(fmg, a, "package"))
      [] r.kind \in ToSet(Hardware) -> r.key[1] \in ToSet(Keys(fmg, a, "device"))
      [] OTHER -> TRUE
RowsOf(a, r) ==
    CASE r.kind \in {"policy"} \cup ToSet(Hardware) -> {Row(a, r.kind, r.key, fmg)}
      [] r.kind = "global_policy" -> {q \in Listed(a, r.kind) : q.key = r.key}
      [] r.kind = "pkglist" -> {}
      [] OTHER -> Listed(a, r.kind)

\* With the interfaces of a device read, its VDOMs are next: routes and zones of each.
VdomReads(d, vdoms) ==
    [i \in 1 .. 2 * Len(vdoms) |->
        Reading(IF i % 2 = 1 THEN "route" ELSE "devzone", <<d, vdoms[(i + 1) \div 2]>>)]

\* Mutant: only the rows of the last device or package reach the store.
GatheredM(items, new) == new
Gathered(items, new) == items \cup new
Kept(x, a, r, open) ==
    [run[x] EXCEPT !.read = CASE r.kind = "pkglist" -> Each("global_policy", Keys(fmg, a, r.kind))
                              [] r.kind = "interface" ->
                                   VdomReads(r.key[1], run[x].vdoms[r.key[1]]) \o Tail(@)
                              [] OTHER -> Tail(@),
                   !.items = Gathered(@, RowsOf(a, r)), !.got = @ \cup RowsOf(a, r),
                   !.open = open,
                   !.packages = IF r.kind = "package" THEN Keys(fmg, a, r.kind) ELSE @,
                   !.devices = IF r.kind = "device" THEN Keys(fmg, a, r.kind) ELSE @,
                   !.vdoms = IF r.kind = "device"
                             THEN [d \in ToSet(Keys(fmg, a, r.kind)) |-> Vdoms(fmg, a, d)] ELSE @]

\* Reads whose FmgError is logged and passed over.  A device whose interfaces fail is left
\* out; without the list of global packages the old global rules stay.
Tolerated == {"pkglist", "global_policy"} \cup ToSet(Hardware)
Skipped(l, r) ==
    IF r.kind = "pkglist" THEN [l EXCEPT !.read = <<>>, !.store = <<>>]
                          ELSE [l EXCEPT !.read = Tail(@)]

AbortM(x) == Goto(x, "close") /\ UNCHANGED phase
\* except Exception: the phase is "error", then the caller closes the client.
Abort(x) == Goto(x, "close") /\ phase' = "error"

ReadOk(x) ==
    /\ pc[x] = "sync" /\ run[x].read # <<>>
    /\ There(Adom(x), Head(run[x].read))
    /\ \E a \in {b \in Rpc(Mode, run[x].open) : b.res = "ok"} :
          Go(x, Kept(x, Adom(x), Head(run[x].read), a.open))
    /\ UNCHANGED <<fmg, rows, served, phase, used>>

ReadFails(x) ==
    /\ pc[x] = "sync" /\ run[x].read # <<>>
    /\ LET r == Head(run[x].read)
       IN /\ IF There(Adom(x), r) THEN Use("fault", MaxFault) ELSE UNCHANGED used
          /\ \E a \in {b \in Rpc(Mode, run[x].open) : b.res # "ok"} :
                LET l == [run[x] EXCEPT !.open = a.open]
                IN IF a.res = "fmg" /\ r.kind \in Tolerated
                   THEN Go(x, Skipped(l, r)) /\ UNCHANGED phase
                   ELSE run' = [run EXCEPT ![x] = l] /\ Abort(x)
    /\ UNCHANGED <<fmg, rows, served>>

----------------------------------------------------------------------------
(* Storing: once all of the stage is read its kinds are stored one by one. *)

\* _store: the rows of (adom, kind) are replaced.
Stored(a, k, items) == {r \in rows : r.adom # a \/ r.kind # k} \cup {r \in items : r.kind = k}

AllRead(x) == pc[x] = "sync" /\ run[x].read = <<>>
Store(x) ==
    /\ AllRead(x)
    /\ rows' = Stored(Adom(x), Head(run[x].store), run[x].items)
    /\ Go(x, [run[x] EXCEPT !.store = Tail(@)])
    /\ UNCHANGED <<fmg, served, phase, used>>

\* load_inventory: the whole table in one statement.
Load(x) ==
    /\ pc[x] = "load"
    /\ run' = [run EXCEPT ![x].built = rows]
    /\ Goto(x, "publish")
    /\ UNCHANGED <<fmg, rows, served, phase, used>>

\* _rebuild_state: inventory and prefix table are swapped together.
Publish(x) ==
    /\ pc[x] = "publish"
    /\ served' = run[x].built /\ phase' = "done"
    /\ Goto(x, "close")
    /\ UNCHANGED <<fmg, rows, run, used>>

\* A transaction, the load or the site settings: the database does not answer.
DbFails(x) ==
    /\ AllRead(x) \/ pc[x] \in {"load", "publish"}
    /\ Use("fault", MaxFault)
    /\ Abort(x)
    /\ UNCHANGED <<fmg, rows, served, run>>

\* finally: client.close().  What it raises ends the loop of the periodic task.
CloseClient(x) ==
    /\ pc[x] = "close"
    /\ \E a \in Close(run[x].open) :
          /\ IF a.res = "raw" THEN Use("fault", MaxFault) ELSE UNCHANGED used
          /\ Goto(x, IF a.res = "raw" /\ x = "periodic" THEN "dead" ELSE "idle")
    /\ run' = [run EXCEPT ![x] = Local]
    /\ UNCHANGED <<fmg, rows, served, phase>>

----------------------------------------------------------------------------
(* Everybody else *)

Change ==
    /\ fmg < MaxChange /\ fmg' = fmg + 1
    /\ UNCHANGED <<rows, served, phase, pc, run, used>>

\* The process ends anywhere; lifespan loads what the table holds then.
Restart ==
    /\ Use("fault", MaxFault)
    /\ served' = rows /\ phase' = "idle"
    /\ pc' = [x \in Runner |-> "idle"] /\ run' = [x \in Runner |-> Local]
    /\ UNCHANGED <<fmg, rows>>

----------------------------------------------------------------------------
Step(x) ==
    \/ ReadConfig(x) \/ Enter(x) \/ ReadOk(x) \/ ReadFails(x) \/ Store(x)
    \/ Load(x) \/ Publish(x) \/ DbFails(x) \/ CloseClient(x)
Next == (\E x \in Runner : Step(x)) \/ ConfigFails \/ Change \/ Restart

Spec == Init /\ [][Next]_vars

\* Every await returns, with an answer or a timeout, and the interval passes.
FairSpec == Spec /\ \A x \in Runner : WF_vars(Step(x) /\ pc[x] # "idle")
                 /\ WF_vars(Step("periodic"))

----------------------------------------------------------------------------
(* Properties *)

Same(r, s) == r.adom = s.adom /\ r.kind = s.kind /\ r.key = s.key

\* What is served never gets older: no row of the inventory is replaced by an earlier
\* state of the FortiManager, neither by a later run nor by a restart in the middle of one
\* (the table is the source of both).
NeverOlder == [][\A r \in served, s \in served' : Same(r, s) => r.ver <= s.ver]_vars

\* A run that ends as "done" serves, of every ADOM it was to read, exactly what it read:
\* nothing of a device, package or VDOM that is gone, and all devices and packages
\* ("sonst löscht der nächste Store-Aufruf die Daten des vorigen Geräts wieder",
\* inventory/sync.py:156).
DoneIsWhatWasRead ==
    [][\A x \in Runner : Publish(x) =>
          \A a \in {r.adom : r \in run[x].got} :
             {r \in served' : r.adom = a} = {r \in run[x].got : r.adom = a}]_vars

\* The inventory of the configured ADOMs is up to date.
Fresh ==
    \A a \in ToSet(Adoms) :
        /\ \A r \in served : r.adom = a => r.ver = fmg
        /\ \A d \in ToSet(Keys(fmg, a, "device")) :
              \E r \in served : r.adom = a /\ r.kind = "interface" /\ r.key = <<d>>

\* After failures, crashes and changes the automatic sync brings the inventory up to date,
\* as long as its task lives.
Refreshed == <>(pc["periodic"] = "dead") \/ <>[]Fresh

\* "FMG-Auto-Sync (Default täglich ...)" (README.md:474): while the process runs the task
\* goes on.
PeriodicSurvives == pc["periodic"] # "dead"
==============================================================================
