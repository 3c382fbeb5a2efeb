------------------------------ MODULE DnsSync ------------------------------
(***************************************************************************)
(* The iTop <-> DNS reconciliation of the API (api/src/dnssync, its router *)
(* and its scheduler in main.py).                                          *)
(*                                                                         *)
(* A run is a list of proposals, one per iTop address object: "DNS calls   *)
(* this address n, iTop calls it b".  Runs are made by the scheduler of an *)
(* API worker or by an admin, reviewed by admins (toggle, ignore, discard) *)
(* and written back to iTop on release.  Every `await` on the database, on *)
(* iTop or on DNS is a point where other requests run, so each handler is  *)
(* a chain of actions joined by a program counter.                         *)
(***************************************************************************)
EXTENDS Integers, FiniteSets

CONSTANTS
    Admin,      \* admin requests in flight (one handler each)
    Worker,     \* API workers; each runs one _periodic_dnssync task
    Home,       \* Home[a]: the worker that serves the requests of admin a
    Creators,   \* the admins who press "new run"
    Addr,       \* iTop address objects (IPv4Address), by key
    DnsName,    \* names a PTR record can carry
    BareName,   \* other names an address object can have: short names without a domain
    Short,      \* Short[n]: the short name of n, as iTop shows it without a domain
    Forward,    \* Forward[a]: the names whose A record points back to a
    Zoned,      \* the names for which iTop has a Domain
    MaxRun,     \* bound: runs that can be created
    MaxSlot,    \* bound: schedule slots that come due
    MaxEdit,    \* bound: changes made in iTop, DNS or the settings by others
    MaxFault,   \* bound: failing iTop or DNS calls
    MaxCrash,   \* bound: crashes of a worker process
    NoName, Gone, NoAddr, NoItem, NoWorker

Actor == Admin \cup Worker
RunId == 1..MaxRun
Name  == DnsName \cup BareName

ASSUME ActorAssumption == /\ Admin \cap Worker = {}
                          /\ Creators \subseteq Admin
                          /\ NoWorker \notin Worker

ASSUME NameAssumption == /\ Forward \in [Addr -> SUBSET DnsName]
                         /\ Short \in [DnsName -> Name]
                         /\ Zoned \subseteq DnsName
                         /\ NoName \notin Name
                         /\ Gone \notin Name \cup {NoName}
                         /\ NoAddr \notin Addr

ASSUME BoundAssumption == /\ MaxRun \in Nat
                          /\ MaxSlot \in Nat \ {0}
                          /\ MaxEdit \in Nat
                          /\ MaxFault \in Nat
                          /\ MaxCrash \in Nat

VARIABLES
    itop,       \* the name each address object has in iTop, Gone when deleted
    released,   \* address objects iTop marks released or unassigned
    ptr,        \* the PTR names DNS has for each address
    writeOn,    \* setting dnssync.write_enabled
    ignored,    \* table dns_sync_ignore
    status,     \* dns_sync_run.status, "none" before the row exists
    items,      \* dns_sync_run.items
    schedSlot,  \* slot at which a scheduled run was created, 0 for a manual one
    born,       \* dns_sync_run.created_at: how many runs there were at that time
    runs,       \* number of rows in dns_sync_run
    slot,       \* the last slot of the schedule that has come (report_period.last_slot)
    lock,       \* holder of the advisory lock DNSSYNC_LOCK
    pc,         \* where the handler or scheduler task of each actor stands
    req,        \* its local variables
    written,    \* history: rows <<run, address>> whose update took effect in iTop
    picked,     \* history: rows <<run, address>> an admin ticked
    moved,      \* history: actors whose row changed in iTop since they re-read it
    blurred,    \* history: runs with two releases at once, or one that broke off
    raced,      \* history: addresses that came back past the request exempting them
    edits, faults, crashes

tables == <<ignored, status, items, schedSlot, born, runs>>
outside == <<itop, released, ptr, writeOn>>
history == <<written, picked, moved, blurred, raced>>
budget == <<edits, faults, crashes>>
vars == <<outside, tables, slot, lock, pc, req, history, budget>>

----------------------------------------------------------------------------
(* Data *)

ItopName == Name \cup {NoName, Gone}
Status  == {"none", "open", "applied", "partial", "failed", "discarded", "superseded"}
Decided == {"applied", "partial", "failed", "discarded"}
Result  == {"none", "ok", "skipped", "error"}

\* One proposal: `name` is what DNS says, `base` what iTop said when the list was built.
Item == [name: DnsName, base: Name \cup {NoName}, selectable: BOOLEAN,
         selected: BOOLEAN, result: Result]
ASSUME ItemAssumption == NoItem \notin Item

Rows == [Addr -> Item \cup {NoItem}]
NoRows == [a \in Addr |-> NoItem]

Todo(rows)    == {a \in Addr : rows[a] # NoItem /\ rows[a].selected /\ rows[a].selectable}
Pending(rows) == {a \in Todo(rows) : rows[a].result = "none"}
WithResult(rows, a, res) == [rows EXCEPT ![a] = [@ EXCEPT !.result = res]]

\* Local variables of a handler; Blank when it holds none.
Local == [rid: 0..MaxRun, rows: Rows, seen: [Addr -> ItopName],
          dns: [Addr -> SUBSET DnsName], row: Addr \cup {NoAddr},
          left: SUBSET RunId, at: 0..MaxSlot, from: 0..MaxRun]
Blank == [rid |-> 0, rows |-> NoRows, seen |-> [a \in Addr |-> Gone],
          dns |-> [a \in Addr |-> {}], row |-> NoAddr, left |-> {}, at |-> 0,
          from |-> 0]

PC == {"idle", "due", "gen_read", "gen_ignored", "gen_dns", "gen_begin", "gen_commit",
       "unlock", "toggle_set", "apply_check", "apply_dns", "row_get", "row_put",
       "apply_decide", "discard_set", "ign_list", "ign_get", "ign_set"}

Generating == {"gen_read", "gen_ignored", "gen_dns", "gen_begin", "gen_commit"}
Applying(x) == pc[x] \in {"apply_check", "apply_dns", "row_get", "row_put"}
InHand(x)   == Applying(x) \/ pc[x] = "discard_set"
Exempting(x, a) == pc[x] \in {"ign_list", "ign_get", "ign_set"} /\ req[x].row = a

Open == {r \in RunId : status[r] = "open"}

\* Bound: no more generations are started than runs can still be created.
Room == runs + Cardinality({y \in Actor : pc[y] \in Generating \cup {"due"}}) < MaxRun

\* A row of dns_sync_run that the open transaction of store.create has updated.
RowLocked(r) == \E y \in Actor : pc[y] = "gen_commit" /\ r \in req[y].left

----------------------------------------------------------------------------
(* build.items: the proposal for one address *)

\* Same name, or iTop has just its short name without a domain.
Agrees(cur, n) == cur = n \/ cur = Short[n]

\* A PTR whose A record points back is preferred; the order of the others is DNS's.
Candidates(a, names) == IF names \cap Forward[a] # {} THEN names \cap Forward[a] ELSE names

PreselectedM(confirmed, writable, cur) == confirmed /\ writable
Preselected(confirmed, writable, cur) == confirmed /\ writable /\ cur = NoName

Proposal(a, cur, n, zones) ==
    LET confirmed == n \in Forward[a]
        writable  == n \in zones
    IN  [name |-> n, base |-> cur, selectable |-> writable,
         selected |-> Preselected(confirmed, writable, cur), result |-> "none"]

\* The lists build.items can return for a snapshot of iTop and the DNS answers.
Proposals(seen, names, zones) ==
    {rows \in [Addr -> (UNION {{Proposal(a, seen[a], n, zones) : n \in names[a]} :
                              a \in {b \in Addr : seen[b] # Gone}}) \cup {NoItem}] :
       \A a \in Addr :
          IF seen[a] = Gone \/ names[a] = {}
          THEN rows[a] = NoItem
          ELSE \E n \in Candidates(a, names[a]) :
                  rows[a] = IF Agrees(seen[a], n) THEN NoItem ELSE Proposal(a, seen[a], n, zones)}

----------------------------------------------------------------------------
Init ==
    /\ itop \in [Addr -> Name \cup {NoName}]
    /\ released = {}
    /\ ptr \in [Addr -> SUBSET DnsName]
    /\ writeOn \in BOOLEAN
    /\ ignored = {}
    /\ status = [r \in RunId |-> "none"]
    /\ items = [r \in RunId |-> NoRows]
    /\ schedSlot = [r \in RunId |-> 0] /\ born = [r \in RunId |-> 0]
    /\ runs = 0
    /\ slot = 1
    /\ lock = NoWorker
    /\ pc = [x \in Actor |-> "idle"]
    /\ req = [x \in Actor |-> Blank]
    /\ written = {} /\ picked = {} /\ moved = {} /\ blurred = {} /\ raced = {}
    /\ edits = 0 /\ faults = 0 /\ crashes = 0

Goto(x, l) == pc' = [pc EXCEPT ![x] = l]
Done(x)    == Goto(x, "idle") /\ req' = [req EXCEPT ![x] = Blank]
Fault      == faults < MaxFault /\ faults' = faults + 1 /\ UNCHANGED <<edits, crashes>>

----------------------------------------------------------------------------
(* service.generate and store.create *)

\* itop.read_all: the address objects, without the released ones.
GenRead(x) ==
    /\ pc[x] = "gen_read"
    /\ Goto(x, "gen_ignored")
    /\ req' = [req EXCEPT ![x].seen = [a \in Addr |-> IF a \in released THEN Gone ELSE itop[a]]]
    /\ UNCHANGED <<outside, tables, slot, lock, history, budget>>

\* Where a generation ends: the scheduler's `finally` unlocks, a request just returns.
AfterGenM(x) == "idle"
AfterGen(x) == IF x \in Worker THEN "unlock" ELSE "idle"

\* A read of iTop or of the settings, or the database, fails (store.create is rolled
\* back): HTTP 502 for an admin, a warning in the log for the scheduler.
GenFail(x) ==
    /\ pc[x] \in Generating
    /\ Fault
    /\ Goto(x, AfterGen(x)) /\ req' = [req EXCEPT ![x] = Blank]
    /\ UNCHANGED <<outside, tables, slot, lock, history>>

NotIgnored(seen) == [a \in Addr |-> IF a \in ignored THEN Gone ELSE seen[a]]

\* store.ignored(): these addresses are left out from here on.
GenIgnored(x) ==
    /\ pc[x] = "gen_ignored"
    /\ Goto(x, "gen_dns")
    /\ req' = [req EXCEPT ![x].seen = NotIgnored(@)]
    /\ UNCHANGED <<outside, tables, slot, lock, history, budget>>

\* lookup.check and build.items.  A failed read of the Domain class leaves no
\* domain to write to; a lookup that gets no answer counts as "no PTR".
GenDns(x) ==
    /\ pc[x] = "gen_dns"
    /\ Goto(x, "gen_begin")
    /\ \E names \in {ptr} \cup {[ptr EXCEPT ![b] = {}] : b \in Addr}, zones \in {Zoned, {}} :
         /\ \E rows \in Proposals(req[x].seen, names, zones) :
               req' = [req EXCEPT ![x] = [Blank EXCEPT !.rows = rows]]
         /\ IF names = ptr /\ zones = Zoned THEN UNCHANGED budget ELSE Fault
    /\ UNCHANGED <<outside, tables, slot, lock, history>>

\* store.create opens its transaction (created_at is its start) and marks the
\* open runs it sees; under READ COMMITTED it sees committed rows only.
GenBegin(x) ==
    /\ pc[x] = "gen_begin"
    /\ Goto(x, "gen_commit")
    /\ req' = [req EXCEPT ![x].left = Open, ![x].at = slot, ![x].from = runs]
    /\ UNCHANGED <<outside, tables, slot, lock, history, budget>>

\* The update: a row a concurrent transaction closed meanwhile no longer
\* satisfies status = 'open' and is left alone.
SupersededM(x) == {}
Superseded(x) == req[x].left \cap Open

\* ... inserts the new run and commits.
GenCommit(x) ==
    /\ pc[x] = "gen_commit"
    /\ runs < MaxRun
    /\ LET r == runs + 1
       IN  /\ runs' = r
           /\ status' = [s \in RunId |-> IF s = r THEN "open"
                                         ELSE IF s \in Superseded(x) THEN "superseded"
                                         ELSE status[s]]
           /\ items' = [items EXCEPT ![r] = req[x].rows]
           /\ schedSlot' = [schedSlot EXCEPT ![r] = IF x \in Worker THEN req[x].at ELSE 0]
           /\ born' = [born EXCEPT ![r] = req[x].from]
    /\ Goto(x, AfterGen(x)) /\ req' = [req EXCEPT ![x] = Blank]
    /\ UNCHANGED <<outside, ignored, slot, lock, history, budget>>

----------------------------------------------------------------------------
(* main._periodic_dnssync *)

SchedServedM(s) == \E r \in RunId : schedSlot[r] > s
SchedServed(s) == \E r \in RunId : schedSlot[r] >= s

\* The task wakes up; no scheduled run is as young as the slot.
SchedDue(w) ==
    /\ pc[w] = "idle"
    /\ ~ SchedServed(slot)
    /\ Room
    /\ Goto(w, "due")
    /\ UNCHANGED <<outside, tables, slot, lock, req, history, budget>>

\* pg_try_advisory_lock: back to sleep when another worker holds it.
LockFree == lock = NoWorker

SchedLock(w) ==
    /\ pc[w] = "due"
    /\ IF LockFree
       THEN lock' = w /\ Goto(w, "gen_read")
       ELSE lock' = lock /\ Goto(w, "idle")
    /\ UNCHANGED <<outside, tables, slot, req, history, budget>>

SchedUnlock(w) ==
    /\ pc[w] = "unlock"
    /\ lock' = NoWorker
    /\ Done(w)
    /\ UNCHANGED <<outside, tables, slot, history, budget>>

----------------------------------------------------------------------------
(* routers/dnssync.py: the review *)

CreateRun(x) ==
    /\ pc[x] = "idle" /\ x \in Creators /\ Room
    /\ Goto(x, "gen_read")
    /\ UNCHANGED <<outside, tables, slot, lock, req, history, budget>>

\* PATCH /runs/{rid}/items: read the run, tick or untick the rows `ids` of the copy.
Toggled(rows, ids, on) ==
    [a \in Addr |-> IF a \in ids /\ rows[a] # NoItem /\ rows[a].selectable
                    THEN [rows[a] EXCEPT !.selected = on] ELSE rows[a]]

ToggleGet(x) ==
    /\ pc[x] = "idle"
    /\ \E r \in Open, ids \in (SUBSET Addr) \ {{}}, on \in BOOLEAN :
         /\ req' = [req EXCEPT ![x].rid = r, ![x].rows = Toggled(items[r], ids, on)]
         /\ picked' = picked \cup {<<r, a>> : a \in IF on THEN ids ELSE {}}
    /\ Goto(x, "toggle_set")
    /\ UNCHANGED <<outside, tables, slot, lock, written, moved, blurred, raced, budget>>

\* store.set_items: the whole list is stored back, if the run is still open.
StillEditable(r) == status[r] = "open"

SetItems(x) ==
    LET r == req[x].rid
    IN  /\ ~ RowLocked(r)
        /\ items' = IF StillEditable(r) THEN [items EXCEPT ![r] = req[x].rows] ELSE items

ToggleSet(x) ==
    /\ pc[x] = "toggle_set"
    /\ SetItems(x)
    /\ Done(x)
    /\ UNCHANGED <<outside, ignored, status, schedSlot, born, runs, slot, lock, history, budget>>

DecideM(x, s, rows) ==
    LET r == req[x].rid
    IN  /\ ~ RowLocked(r)
        /\ status' = IF status[r] = "open" THEN [status EXCEPT ![r] = s] ELSE status
        /\ items' = IF status[r] = "open" THEN [items EXCEPT ![r] = rows] ELSE items

\* store.decide: no condition on the status the row has by now.
Decide(x, s, rows) ==
    LET r == req[x].rid
    IN  /\ ~ RowLocked(r)
        /\ status' = [status EXCEPT ![r] = s]
        /\ items' = [items EXCEPT ![r] = rows]

\* POST /runs/{rid}/discard
DiscardGet(x) ==
    /\ pc[x] = "idle"
    /\ \E r \in Open : req' = [req EXCEPT ![x].rid = r]
    /\ Goto(x, "discard_set")
    /\ UNCHANGED <<outside, tables, slot, lock, history, budget>>

DiscardSet(x) ==
    /\ pc[x] = "discard_set"
    /\ Decide(x, "discarded", items[req[x].rid])
    /\ Done(x)
    /\ UNCHANGED <<outside, ignored, schedSlot, born, runs, slot, lock, history, budget>>

----------------------------------------------------------------------------
(* POST /ignore and DELETE /ignore/{ip_id} *)

ListLimit == 5      \* the handler looks at the open ones of the last five runs

IgnoreAdd(x) ==
    /\ pc[x] = "idle"
    /\ \E a \in Addr :
         /\ ignored' = ignored \cup {a}
         /\ req' = [req EXCEPT ![x].row = a]
         /\ raced' = raced \ {a}
    /\ Goto(x, "ign_list")
    /\ UNCHANGED <<outside, status, items, schedSlot, born, runs, slot, lock, written, picked, moved,
                   blurred, budget>>

\* A list under construction, and a copy of run r to be stored back, that still has address a.
Building(y, a)   == \/ pc[y] = "gen_dns" /\ req[y].seen[a] # Gone
                    \/ pc[y] \in {"gen_begin", "gen_commit"} /\ req[y].rows[a] # NoItem
Holding(y, r, a) == pc[y] \in {"toggle_set", "ign_set"} /\ req[y].rid = r /\ req[y].rows[a] # NoItem

RecentM(r) == r > runs
Recent(r) == r > runs - ListLimit

IgnoreList(x) ==
    /\ pc[x] = "ign_list"
    /\ req' = [req EXCEPT ![x].left = {r \in Open : Recent(r)}]
    /\ raced' = raced \cup {a \in Addr : Exempting(x, a) /\ \E y \in Actor : Building(y, a)}
    /\ Goto(x, "ign_get")
    /\ UNCHANGED <<outside, tables, slot, lock, written, picked, moved, blurred, budget>>

IgnoreGet(x) ==
    /\ pc[x] = "ign_get"
    /\ \/ /\ req[x].left = {}
          /\ Done(x)
       \/ /\ \E r \in req[x].left :
               req' = [req EXCEPT ![x].rid = r, ![x].left = @ \ {r},
                                  ![x].rows = [items[r] EXCEPT ![req[x].row] = NoItem]]
          /\ Goto(x, "ign_set")
    /\ UNCHANGED <<outside, tables, slot, lock, history, budget>>

IgnoreSet(x) ==
    /\ pc[x] = "ign_set"
    /\ SetItems(x)
    /\ raced' = raced \cup {a \in Addr : Exempting(x, a) /\ \E y \in Admin \ {x} : Holding(y, req[x].rid, a)}
    /\ Goto(x, "ign_get")
    /\ UNCHANGED <<outside, ignored, status, schedSlot, born, runs, slot, lock, req, written, picked,
                   moved, blurred, budget>>

Unignore(x) ==
    /\ pc[x] = "idle"
    /\ \E a \in ignored : ignored' = ignored \ {a}
    /\ UNCHANGED <<outside, status, items, schedSlot, born, runs, slot, lock, pc, req, history, budget>>

----------------------------------------------------------------------------
(* POST /runs/{rid}/apply and service.apply *)

\* Runs whose copy passes the check of its status.
PassesM == {r \in RunId : status[r] # "none"}
Passes == Open

\* store.get.  Whether the run is open is judged on this copy; naming another run
\* ends in 404 or 409 and changes nothing.
ApplyGet(x) ==
    /\ pc[x] = "idle"
    /\ \E r \in Passes :
         /\ req' = [req EXCEPT ![x].rid = r, ![x].rows = items[r]]
         /\ blurred' = blurred \cup {s \in {r} : \E y \in Admin : Applying(y) /\ req[y].rid = s}
    /\ Goto(x, "apply_check")
    /\ UNCHANGED <<outside, tables, slot, lock, written, picked, moved, raced, budget>>

\* read_config("dnssync"): 409 unless writing is enabled.
ApplyCheck(x) ==
    /\ pc[x] = "apply_check"
    /\ IF writeOn THEN Goto(x, "apply_dns") /\ UNCHANGED req ELSE Done(x)
    /\ UNCHANGED <<outside, tables, slot, lock, history, budget>>

\* lookup.check, once for all rows to be written.
ApplyDns(x) ==
    /\ pc[x] = "apply_dns"
    /\ \/ /\ req' = [req EXCEPT ![x].dns = [a \in Addr |-> IF a \in Todo(req[x].rows)
                                                           THEN ptr[a] ELSE {}]]
          /\ UNCHANGED budget
       \/ /\ UNCHANGED req            \* no answer for any of them
          /\ Fault
    /\ Goto(x, "row_get")
    /\ UNCHANGED <<outside, tables, slot, lock, history>>

RowFitM(x, a, cur) ==
    /\ cur # Gone
    /\ req[x].rows[a].name \in req[x].dns[a]

\* The checks of one row, on the object just read from iTop.
RowFit(x, a, cur) ==
    /\ cur # Gone
    /\ cur = req[x].rows[a].base
    /\ req[x].rows[a].name \in req[x].dns[a]

\* itop.get_address for the next row: write it, skip it, or note the error.
RowGet(x) ==
    /\ pc[x] = "row_get"
    /\ \E a \in Pending(req[x].rows) :
         \/ /\ RowFit(x, a, itop[a])
            /\ req' = [req EXCEPT ![x].row = a]
            /\ Goto(x, "row_put")
            /\ moved' = moved \ {x}
            /\ UNCHANGED budget
         \/ /\ ~ RowFit(x, a, itop[a])
            /\ req' = [req EXCEPT ![x].rows = WithResult(@, a, "skipped")]
            /\ UNCHANGED <<pc, moved, budget>>
         \/ /\ Fault
            /\ req' = [req EXCEPT ![x].rows = WithResult(@, a, "error")]
            /\ UNCHANGED <<pc, moved>>
    /\ UNCHANGED <<outside, tables, slot, lock, written, picked, blurred, raced>>

\* Whoever has re-read address a and not yet written it now holds an old value.
Overtaken(a) == {y \in Actor : pc[y] = "row_put" /\ req[y].row = a}

\* iTop's answer: HTTP 200 with a code other than 0 in the body is an error too.
AnswerM(a) == "ok"
Answer(a) == IF itop[a] = Gone THEN "error" ELSE "ok"

\* core/update on the object: there is no condition on its present value.  The
\* call can fail before or after iTop carried the update out.
RowPut(x) ==
    /\ pc[x] = "row_put"
    /\ LET a == req[x].row
           carried == /\ itop[a] # Gone
                      /\ itop' = [itop EXCEPT ![a] = req[x].rows[a].name]
                      /\ written' = written \cup {<<req[x].rid, a>>}
                      /\ moved' = (moved \cup Overtaken(a)) \ {x}
           missed  == UNCHANGED <<itop, written>> /\ moved' = moved \ {x}
           note(res) == req' = [req EXCEPT ![x].rows = WithResult(@, a, res), ![x].row = NoAddr]
       IN  \/ /\ carried \/ (itop[a] = Gone /\ missed)
              /\ note(Answer(a))
              /\ UNCHANGED budget
           \/ /\ carried \/ missed
              /\ note("error")
              /\ Fault
    /\ Goto(x, "row_get")
    /\ UNCHANGED <<released, ptr, writeOn, tables, slot, lock, picked, blurred, raced>>

Verdict(rows) ==
    LET of(res) == {a \in Todo(rows) : rows[a].result = res}
    IN  IF of("ok") = Todo(rows) THEN "applied"
        ELSE IF of("ok") = {} /\ of("error") # {} THEN "failed" ELSE "partial"

ApplyDecide(x) ==
    /\ pc[x] = "row_get"
    /\ Pending(req[x].rows) = {}
    /\ Decide(x, Verdict(req[x].rows), req[x].rows)
    /\ Done(x)
    /\ UNCHANGED <<outside, ignored, schedSlot, born, runs, slot, lock, history, budget>>

\* What breaking off the handlers `ys` leaves behind.
BreakOff(ys) ==
    /\ blurred' = blurred \cup {req[y].rid : y \in {z \in ys : Applying(z)}}
    /\ raced' = raced \cup {a \in Addr : \E y \in ys : Exempting(y, a)}

\* The settings cannot be read, or a statement of the database fails, store.decide after
\* the rows were written as well: the request ends in HTTP 500.
HandlerFails(x) ==
    /\ \/ pc[x] \in {"toggle_set", "discard_set", "ign_list", "ign_get", "ign_set", "apply_check",
                     "apply_dns"}
       \/ pc[x] = "row_get" /\ Pending(req[x].rows) = {}
    /\ Fault
    /\ BreakOff({x})
    /\ Done(x)
    /\ UNCHANGED <<outside, tables, slot, lock, written, picked, moved>>

----------------------------------------------------------------------------
(* Everybody else: iTop users, DNS, the settings, the clock, process crashes *)

Edit == edits < MaxEdit /\ edits' = edits + 1 /\ UNCHANGED <<faults, crashes>>

EditItop ==
    /\ Edit
    /\ \E a \in Addr, v \in ItopName :
         /\ itop[a] \notin {v, Gone}
         /\ itop' = [itop EXCEPT ![a] = v]
         /\ moved' = moved \cup Overtaken(a)
    /\ UNCHANGED <<released, ptr, writeOn, tables, slot, lock, pc, req, written, picked, blurred, raced>>

Release ==
    /\ Edit
    /\ \E a \in Addr : released' = (released \ {a}) \cup ({a} \ released)
    /\ UNCHANGED <<itop, ptr, writeOn, tables, slot, lock, pc, req, history>>

EditDns ==
    /\ Edit
    /\ \E a \in Addr, names \in SUBSET DnsName :
         names # ptr[a] /\ ptr' = [ptr EXCEPT ![a] = names]
    /\ UNCHANGED <<itop, released, writeOn, tables, slot, lock, pc, req, history>>

FlipWrite ==
    /\ Edit
    /\ writeOn' = ~ writeOn
    /\ UNCHANGED <<itop, released, ptr, tables, slot, lock, pc, req, history>>

NewSlot ==
    /\ slot < MaxSlot
    /\ slot' = slot + 1
    /\ UNCHANGED <<outside, tables, lock, pc, req, history, budget>>

\* The process of worker w dies: its requests are gone, its open transaction is
\* rolled back and its database session, and with it the advisory lock, ends.
Crash(w) ==
    LET lost == {w} \cup {a \in Admin : Home[a] = w}
    IN  /\ crashes < MaxCrash
        /\ crashes' = crashes + 1
        /\ \E y \in lost : pc[y] # "idle"
        /\ pc' = [x \in Actor |-> IF x \in lost THEN "idle" ELSE pc[x]]
        /\ req' = [x \in Actor |-> IF x \in lost THEN Blank ELSE req[x]]
        /\ lock' = IF lock = w THEN NoWorker ELSE lock
        /\ moved' = moved \ lost
        /\ BreakOff(lost)
        /\ UNCHANGED <<outside, tables, slot, written, picked, edits, faults>>

----------------------------------------------------------------------------
Generate(x) == GenRead(x) \/ GenFail(x) \/ GenIgnored(x) \/ GenDns(x) \/ GenBegin(x) \/ GenCommit(x)
Review(x)   == CreateRun(x) \/ ToggleGet(x) \/ ToggleSet(x) \/ DiscardGet(x) \/ DiscardSet(x)
Ignoring(x) == IgnoreAdd(x) \/ IgnoreList(x) \/ IgnoreGet(x) \/ IgnoreSet(x) \/ Unignore(x)
Apply(x)    == ApplyGet(x) \/ ApplyCheck(x) \/ ApplyDns(x) \/ RowGet(x) \/ RowPut(x) \/ ApplyDecide(x)
Schedule(w) == SchedDue(w) \/ SchedLock(w) \/ SchedUnlock(w)
Environment == EditItop \/ Release \/ EditDns \/ FlipWrite \/ NewSlot

Next ==
    \/ \E x \in Actor : Generate(x)
    \/ \E x \in Admin : Review(x) \/ Ignoring(x) \/ Apply(x) \/ HandlerFails(x)
    \/ \E w \in Worker : Schedule(w) \/ Crash(w)
    \/ Environment

Spec == Init /\ [][Next]_vars

\* The scheduler task is an endless loop: it always wakes up again and its awaits return.
SchedulerStep(w) == Schedule(w) \/ Generate(w)
FairSpec == Spec /\ \A w \in Worker : WF_vars(SchedulerStep(w))

----------------------------------------------------------------------------
(* Properties *)

\* The tables and the local variables of the handlers hold values of their types.
TypeOK ==
    /\ itop \in [Addr -> ItopName]
    /\ released \subseteq Addr
    /\ ptr \in [Addr -> SUBSET DnsName]
    /\ writeOn \in BOOLEAN
    /\ ignored \subseteq Addr
    /\ status \in [RunId -> Status]
    /\ items \in [RunId -> Rows]
    /\ schedSlot \in [RunId -> 0..MaxSlot]
    /\ born \in [RunId -> 0..MaxRun]
    /\ runs \in 0..MaxRun
    /\ slot \in 1..MaxSlot
    /\ lock \in Worker \cup {NoWorker}
    /\ pc \in [Actor -> PC]
    /\ req \in [Actor -> Local]
    /\ written \subseteq RunId \X Addr
    /\ picked \subseteq RunId \X Addr
    /\ moved \subseteq Actor
    /\ blurred \subseteq RunId
    /\ raced \subseteq Addr
    /\ edits \in 0..MaxEdit /\ faults \in 0..MaxFault /\ crashes \in 0..MaxCrash

\* The check before a write works: a name somebody else put into iTop is only
\* ever overwritten when it was put there between the re-read of the row and its
\* update (service.apply lines 61-72).
OverwriteOnlyInWindow ==
    [][\A x \in Admin : RowPut(x) /\ itop' # itop =>
          x \in moved \/ itop[req[x].row] = req[x].rows[req[x].row].base]_vars

\* A run never claims a row was written that iTop did not take over, whatever
\* fails in between and however many releases race (service.apply, update_address).
OkMeansWritten ==
    \A r \in RunId, a \in Addr :
       items[r][a] # NoItem /\ items[r][a].result = "ok" => <<r, a>> \in written

\* Nobody overwrites a name in passing: a row that would replace a name iTop
\* already has is selected only if an admin ticked it - also after lists were
\* stored back from stale copies (build.items line 102, toggle, set_items).
MismatchSelectedByAdmin ==
    \A r \in RunId, a \in Addr :
       /\ items[r][a] # NoItem
       /\ items[r][a].selected
       /\ items[r][a].base # NoName
       => <<r, a>> \in picked

\* A new run supersedes the older open ones (store.create): two are open only if the
\* younger one's transaction began before the older one was there, and never two of the
\* scheduler, whose workers take turns under the advisory lock.
OpenOnlyIfOverlapping ==
    \A r, s \in Open :
       r < s => born[s] < r /\ ~ (schedSlot[r] # 0 /\ schedSlot[s] # 0)

\* The scheduler makes one list per slot (_periodic_dnssync).
ScheduledOnce ==
    \A r, s \in RunId : schedSlot[r] = schedSlot[s] /\ schedSlot[r] # 0 => r = s

\* Every slot that comes is served by a scheduled run in the end, in spite of
\* failing reads and of crashes that drop the lock (_periodic_dnssync).
SlotServed == \A s \in 1..MaxSlot : slot >= s ~> SchedServed(s)

\* Which rows were written stays on the run: once no release of run r is under
\* way any more, each row it wrote is recorded as written or as failed - even
\* when a new list superseded the run in the meantime, and however many toggles,
\* exemptions, discards and releases of other runs ran at the same time (service.apply,
\* store.decide).  Only a second release of r itself, or one that died or failed between
\* its updates and store.decide, can take the record along.
WrittenRowsRecorded ==
    \A r \in RunId \ blurred, a \in Addr :
       /\ <<r, a>> \in written
       /\ \A x \in Admin : ~ (Applying(x) /\ req[x].rid = r)
       => items[r][a] # NoItem /\ items[r][a].result \in {"ok", "error"}

\* README.md:282 promises it without that exception: the result of each row stays on the
\* run.  Two releases of one run break it (service.apply line 47).
ResultsStayOnRun ==
    \A r \in RunId, a \in Addr :
       /\ <<r, a>> \in written
       /\ \A x \in Admin : ~ (Applying(x) /\ req[x].rid = r)
       => items[r][a] # NoItem /\ items[r][a].result \in {"ok", "error"}

\* An address the admins exempted is in none of the open lists among the last five once
\* the request that exempted it is through, whatever else other admins toggle, exempt
\* and create meanwhile - but for an address that a list being built, or a copy to be
\* stored back, carried past the request, or whose request broke off (add_ignore, generate).
IgnoredNotProposed ==
    \A r \in Open, a \in ignored \ raced :
       r > runs - ListLimit /\ (\A x \in Admin : ~ Exempting(x, a)) => items[r][a] = NoItem

\* Run by run, reviewing is the life cycle ReviewLifecycle describes: a request holds a
\* claim on the run it found open until it is through.
Claims == {<<x, req[x].rid>> : x \in {y \in Admin : InHand(y)}}
Lifecycle == INSTANCE ReviewLifecycle WITH state <- status, effect <- written, claim <- Claims,
                                           Reviewer <- Admin
RefinesLifecycle == Lifecycle!Spec
=============================================================================
