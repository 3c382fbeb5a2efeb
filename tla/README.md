# A38 (fwpathtracker) in TLA+

A38 answers which way a flow takes through a fleet of FortiGates and whether it is
allowed there. A FastAPI process (`api/src`) keeps an inventory synchronized from a
FortiManager (FMG), asks the firewalls live through it, and runs a number of helpers
around that: it locates hosts, reads logs, writes a weekly report, imports a Windows
inventory and brings names of iTop in line with DNS. PostgreSQL holds settings,
snapshot and results; a React page is the only client.

This directory models the parts of it where order, failure or arithmetic decide whether
the answer is right. Modules are written from the source; `PROJECT.json` names the
lines every definition stands for.

    tlc -workers 2 -config DnsSync_review.cfg MC_DnsSync.tla     # one run
    tlapm DnsSync_proofs.tla                                     # one module of proofs

## 1. The system

One process (`api/Dockerfile`: one uvicorn worker), one event loop. Handlers and tasks
interleave at every `await`; nothing else does. Some code is written for several
workers and takes advisory locks of PostgreSQL; the modules have the set of workers as
a constant where it does.

| Part (under `api/src` unless said) | State | Operations | Talks to | Hard about it | Right when |
|---|---|---|---|---|---|
| dnssync, `routers/dnssync.py` | `dns_sync_run`, `dns_sync_ignore`, advisory lock | generate (task, admin), toggle, ignore, discard, release | iTop, DNS, DB | handlers act on copies read before an await; iTop changes between check and write; crash mid-release; two tasks | results are true, nothing is overwritten in passing, one list per slot |
| report schedule (`report/period.py`, `store.py`, `main._periodic_report`) | `weekly_report`, advisory lock | due windows, run, purge, re-run, delete | DB, all sources of chapters | missed weeks, change of the clock and of the weekday, failures, purge | windows neither overlap nor leave gaps, the schedule comes to rest |
| webdrive poller (`webdrive/poller.py`, `store.py`, `correlate.py`) | `webdrive_event`, `webdrive_poll`, `webdrive_identity` | poll in slices, reload, correlate, purge | Graylog, DB | messages arrive late, slices fail half-way, parser updates, two runs share one point | no event before the point is missing |
| FMG sync (`inventory/sync.py`, `main._periodic_sync`, `routers/fmg_admin.py`) | `fmg_snapshot`, phase, read models in memory | read and store kind by kind, rebuild, swap | FMG client, DB | data change during a run, failure between two kinds, restart, two callers | what is served is what was read, never older, up to date in the end |
| FMG client (`fmg/*.py`) | session | rpc with re-login and retry, logout, write guard | FortiManager | session ends at any time, concurrent logins | every call ends in data or an error its caller expects |
| path engine (`engine/path.py`, `classify.py`, `verdict.py`; `inventory/store.py`, `prefixes.py`) | none between requests | entry point, walk, egress, next device, verdict | inventory, live answers | reused addresses, loops, answers that contradict the inventory or stay away | a device is followed with evidence, the walk ends, the verdict rests on live answers |
| port analysis (`engine/ports.py`, `run_port_trace`, `Inventory.flow_policies`) | none | selection of policies, first match over ranges, combination of hops | inventory | ranges, groups in a circle, zones unknown to the snapshot | open ports are those of first match; every closed one is named once |
| session probe (`engine/sessions.py`) | none | one question per hop | FMG proxy | only warnings depend on it | - |
| policy suggestions (`suggest/builder.py`) | none | object names, place of the policy | inventory | names that exist with other contents | the suggested policy would match the flow |
| trace history (`routers/search.py`) | `traces` | append, read, search | DB | - | - |
| resolver (`resolver/*.py`, `routers/dns_admin.py`) | host index of iTop, answers with a time limit, `dns_cache` | name to address, address to name, refresh, purge | DNS, iTop, FMG objects | an index is loaded class by class while a refresh throws it away; a timeout looks like an unknown name; requests write over each other | once the sources stay, what is kept is what they say |
| location (`locate/chain.py`, `fdb_librenms.py`, `naming.py`) | answers with a time limit | address -> MAC -> switch port | LibreNMS, ARP history, FortiGates, FAZ | stages fall back on each other and may contradict; confidence from what is left | "high" is proven by the present |
| ARP (`locate/arp_*.py`) | `arp_history`, sweep phase | sweep (task, admin), upsert, purge | FMG proxy, LibreNMS, DB | old tables recorded as of now, firewalls that do not answer, a failed write | the history comes back to the present MAC |
| IPAM (`ipam/*.py`, `routers/itop_admin.py`) | none | tree of nets, free blocks and addresses, reconciliation | iTop, ping, DNS, ARP, LibreNMS | three bounds cut a search; six sources with times of their own | what is not said to be cut is complete |
| VLANs, host ports (`vlan/*.py`) | none | numbers in use and free, ports of a host | LibreNMS, inventory | two sources number differently | no number in use is offered as free |
| LibreNMS, Zabbix clients | caches | HTTP queries | the services | what they do not deliver | said in every plan that would show it |
| FortiAnalyzer (`faz/*.py`) | session, finished searches | create, poll, delete a log search | FAZ | searches left behind, session lost while polling | each task created is deleted |
| Graylog, Windows logs (`graylog/*.py`) | none | searches, aggregation | Graylog | paging and limits | counts are complete or marked as cut |
| webdrive state and page (`webdrive/state.py`, `parse.py`, `fac.py`) | derived | sessions, conflicts | webdrive tables, FAC | order of log lines | - |
| report contents (`report/build.py`, chapters) | none | chapters with a time limit each | every source | one chapter fails or hangs | the others are there |
| Windows inventory (`wininv/*.py`) | `win_inventory` and its history, index in memory | import (task, admin), purge, index | share, DB | files change between listing and reading, a failed save leaves readers running, an index built while an import ends | the index comes to say what the files say |
| regression checks (`routers/checks.py`) | one JSON document of settings | run, edit | path engine, DB | states are written into a document read before | an edit is never lost |
| settings (`routers/config.py`, `secrets_mask.py`, `netguard.py`) | `system_config` | read, merge, write | DB | masked secrets come back from the page | a secret is kept unless replaced |
| login, users, SAML, certificates | `users`, files | login, create, delete, upload | DB, IdP | last admin, file pairs | there is always an admin |
| diagrams (`diagram/*.py`, `routers/diagram.py`) | none | sites, nets, hosts, services, switch trees, boxes | inventory, iTop, LibreNMS, Zabbix, FAZ, Windows inventory | links known from one side, CIs with several addresses, two passes over one geometry, five systems that may fail | nothing gets lost or hidden unsaid, boxes lie apart |
| lifespan, migrations (`main.py`, `migrate.py`) | periodic tasks, `schema_migrations` | start, stop | DB | an exception ends a task | tasks live as long as the process |
| page (`frontend/src`) | React state | one request per change | API | answers that arrive out of order | what is shown belongs to what was asked |
| fmg-sim, scripts, container entry | fixed data, shell | - | - | - | not modelled |

## 2. Modules

| Module | What it is | Extends / uses |
|---|---|---|
| `DnsSync` | the DNS reconciliation: handlers, scheduler task, iTop and DNS as environment | |
| `ReviewLifecycle` | what the review promises: a request gets a claim on a run while it is open, writes and decides under it only; no run opens again | abstract specification of `DnsSync` |
| `DnsSync_proofs` | nine theorems about `DnsSync`, the refinement of `ReviewLifecycle` among them | `DnsSync`, TLAPS |
| `ReportSchedule`, `ReportSchedule_proofs` | schedule of the weekly report; three theorems | |
| `WebdrivePoll`, `WebdrivePoll_proofs` | the poller, its table and the correlation of names; no event is lost | |
| `FmgClient` | how a call of the FMG client can end | |
| `FmgSync`, `FmgSync_proofs` | runs of the inventory synchronization; three theorems | `FmgClient` |
| `Intervals` | the interval algebra of `ports.py` as operators | |
| `FirstMatch` | first match over plain sets of ports | abstract specification of `PortAnalysis` |
| `PortAnalysis`, `PortAnalysis_proofs` | selection of policies, loop over ranges, combination of hops; five theorems, the refinement of `FirstMatch` among them | `Intervals`, `FirstMatch` |
| `Inventory` | read models and prefix table as functions of a snapshot | |
| `Egress` | the rules of `classify.py` and how a device is entered | `Inventory` |
| `PathTrace`, `PathTrace_proofs` | walk and verdict; five theorems | `Egress` |
| `Locate` | sweep, ARP history and the search for one address | |
| `WinInventory` | import of files, history, index; its two theorems stand at the end of `Requests_proofs` | |
| `Resolver`, `ReverseNames` | addresses of names; names of addresses | |
| `Requests` | a question and its answer: frame of the handlers that only read | |
| `Switches` | port, ranking and confidence, VLANs of a host, numbers in use | `Requests` |
| `SwitchTree` | switches of a VLAN under the firewall, homes of hosts | `Requests` |
| `NetPlan`, `Services` | what is drawn of a scope, of a service | `Requests`; `NetPlan` |
| `Drawings`, `Sheets` | where boxes lie, measured and drawn | `Requests`; `Drawings` |
| `Drawings_proofs` | lemmas: what packing, columns, rows and grids keep apart, and that the frame of each kind of drawing is tidy | `Sheets` |
| `PlanRequest` | order of the calls of a plan, what a failure costs and says | `Requests` |
| `Ipam` | free blocks and addresses, tree, reconciliation | `Requests` |
| `Answers` | the handlers that only read, side by side | `Switches`, `SwitchTree`, `Services`, `Sheets`, `PlanRequest`, `Ipam` |
| `Requests_proofs` | twelve theorems about their answers; the two about `WinInventory`, which shares no state with them | `Answers`, `Drawings_proofs`, `WinInventory` |
| `MC_*` | values of the constants for TLC; `MC_DnsScenes` and `MC_WebdrivePoll` restrict who acts to scenes; `MC_Lookups` and `MC_Requests` put the modules of several components into one run | |

### How they correspond to the code

**DnsSync.** Each table is a variable (`status`, `items`, `schedSlot` are columns of
`dns_sync_run`); iTop's names, released objects and PTR records are variables that
others change (`EditItop`, `Release`, `EditDns`). A handler is a chain of actions joined
by `pc`; `req` holds its local variables. Every `await` between two actions is one in the
code: `ToggleGet`/`ToggleSet` are the read and the write of `toggle`, `ApplyGet` is the
router's read, `ApplyCheck` the check of the status on that copy, `ApplyDns` the one DNS
lookup for all rows, `RowGet`/`RowPut` re-read and update of a row, `ApplyDecide`
`store.decide`, which carries no condition on the status. `GenBegin`/`GenCommit` are the
transaction of `store.create` under READ COMMITTED: two of them do not see each other's
new run. `SchedDue` reads the last scheduled run before `SchedLock` tries the advisory
lock, as the task does. `Crash` drops the requests and the lock of a worker and rolls
back its transaction; `HandlerFails` is a statement of the database that fails, `store.decide`
after the writes included. `written`, `picked`, `moved`, `blurred`, `raced` are history
variables that no action reads except to state properties: `blurred` holds the runs two
releases of which were under way at once, or whose release broke off, `raced` the exempted
addresses that a list under construction or a copy to be stored back carried past the request that exempted
them, or whose request broke off. `born` is `created_at`, as the number of runs there
were when the transaction began. Names are model values; what `build.items` decides
(confirmed, writable, preselected, short names agree) is kept.

**ReportSchedule.** A clock in quarters of a week, and the calendar (`Slot`) as a
constant: `last_slot` and `due` are translated, whatever instants a weekday, a time zone
and a change of the clock give. `Wake` is `due()`, evaluated before `TryLock`; `Build`
makes one window; `Fail` leaves the rest for the next time; `Purge`, `Delete` and
`ManualRun` change the same table. A report's contents are left out.

**WebdrivePoll.** A run reads the point (`Begin`), searches slice by slice and query by
query (`Search` stores what it found), marks the slice (`MarkOk`), correlates, purges.
The task and `POST /reload` (`ReloadStart`, `Reset`) share point and table, and nothing
separates them. `Write` and `Arrive` are the log lines and Graylog; a line is found at
most `Lateness` after it was written. `Restart` may bring a newer parser. `Fail` is an exception anywhere in a
run, in `get_poll` and the reset too; `Die` the one at the head of the task, where the settings
are read outside of the `try`: the task is gone then. `Before`, `Owners`, `Fetches`, `Score` and
`Enough` are `map_tokens` and the count per token of `new_identities`; who gets which id is
modelled, no property speaks of it.

**FmgSync.** A run goes through stages: global rules, then for each ADOM devices,
packages, policies, object kinds, and hardware (interfaces, routes, zones). `ReadOk` and
`ReadFails` are one call of the client, with the outcomes `FmgClient` allows; a failure
that the code logs and passes over is told from one that aborts. `Store` is one
transaction of `_store`. `Load` and `Publish` are `load_inventory` and the swap in
`_rebuild_state`, with the read of the site settings between them. `CloseClient` is the
`finally` of both callers. A row of the snapshot carries the version of the
FortiManager's data it shows instead of those data. `got` is a history variable. The ADOMs
configured do not change in the model.

**PortAnalysis.** One action per policy looked at (`PassOver`, `TakeRule`) and per hop.
Ports are `1..MaxPort` in place of 65535, address objects contain the ends of the flow
or not. `Intervals` works on sequences of pairs as the code does, with its cursors; a loop is
a function from the rounds done to what it has by then. Nested names and aliases are
closures reached after as many rounds as there are groups or mappings.
`LivePorts` states what the firewall itself would answer and is used by a property only.

**PathTrace.** One action per hop of `_walk_path`, and per hop of the verdict; the two
early ends of the loop are actions of their own. Answers of the firewalls are chosen
from the world at hand or stay away. Addresses have five bits; names that the code
recognizes by patterns are given by constants. `CachedRoute`, `NextHopViaRouting`,
`ClassifyEgress`, `ResolveIngress` keep the order of the rules in the code. Lists of the
snapshot stay lists, since the code takes the first or the last match of many; a search
is the position of its match. `WellFormed` says what every snapshot is: the
dictionaries of `store.py` hold one interface per name of a device, and the prefixes are those
built from the same snapshot; from FortiOS come that the VDOM of an interface is one of its
device, that an address of an interface has a mask other than 0, and that a route, static or
live, leaves by an interface of its own VDOM. The result of
a walk depends on nothing but the inventory taken at its start and those answers, which
is why no other process appears.

**Locate.** The MACs of one address: `live` is the ARP table of each VDOM, `history` the rows
of `arp_history` by `last_seen`, since the order is all that is read from it. The sweep goes
from target to target (`SweepFetch`, `SweepRecord`, one await each) and purges at its end;
a search (`AskFortigate` .. `AskHistory`) falls from source to source and records what it
took from the first two. What LibreNMS and the FortiAnalyzer answer is any MAC.

**WinInventory.** A file is a host and a kind. `ListShare`, `CompareKnown`, `ReadFile`, `Save`
are the awaits of an import; every `one()` holds the row it compared with. A failed save
ends the import (`GiveUp`) and leaves the other `one()`s as `orphan`s, as `gather` does; they go
on beside the imports that follow. `crossed` is a history variable: the files an import compared
while a `one()` left over was at work on them.
`AskIndex`/`KeepIndex` are the two halves of `index()`. `SavePath` lets a path without a
share be saved.

**Resolver.** `load` is `_index` under way, a class after the other, twice at once if a search
and a refresh meet. **ReverseNames.** A request reads the table once (`Prime`), asks DNS and
writes what it learnt (`Flush`).

**Handlers that only read.** `asked` is the question together with the tables as the handler
finds them, `reply` the answer; a handler is one action, since nothing it reads changes
under it in a way the answer depends on. The operators keep the names of the functions
they translate. `SwitchTree` and `NetPlan` compute fixed points with recursive functions
bounded as the code bounds its loops. `Drawings` and `Sheets` keep both passes of the
drawing code: the first gives a box its size, the second places what is in it, and a frame
is a size with the boxes placed. The rows of nets of a logical plan are frames of their own, as
the code nests them; the page around a drawing grows with it and has no size to keep to
(`Endless`). `PlanRequest` follows the calls of `routers/diagram.py` in
their order, each in the `try` it stands in. `Answers` is their disjunction for any question
and `MC_Requests` gives TLC some.

## 3. Runs

| Run | Shows |
|---|---|
| `dnssync_review` | Two admins work on one run at once while iTop and DNS change and a call fails: an "ok" is always true, ticked rows that replace a name were ticked by an admin, a name put in by others is overwritten only between re-read and update. |
| `dnssync_scheduler` | One worker's task supersedes the list an admin works on, a call fails, the process crashes: one list per slot, every slot is served in the end, written rows are recorded unless the release itself broke off before it could. |
| `dnssync_together` | Two scenes, all steps interleaved: two admins create, toggle, exempt, discard and release two lists; two workers' schedulers and an admin make lists while a worker crashes. The reviews implement `ReviewLifecycle`; two lists are open together only if their creations overlapped, never two of the scheduler; an exempted address is in no open list but for the cases `raced` names. |
| `dnssync_double_apply` | Violation of `ResultsStayOnRun`: two releases of one run, the later result replaces the earlier. |
| `report_weekly` | Two scenes: one worker over three slots with failures, a crash, deletions, re-runs, purge, two weekdays and the change to summer time; two workers up to the next slot with the settings left alone. No overlap, no gap, and the slot is covered in the end and stays so. |
| `webdrive_runs` | Two scenes, the task alone and a reload beside it, with late lines, a restart with a newer parser, and after it a failing search or statement, a change of the queries or a death of the task: the point never claims what was not read, and a wanted line is stored in the end unless it grows a day old or the task has died. |
| `fmgsync_auto` | The task and a request over two ADOMs, changing data, one failure of network, session, database or process anywhere: no mixture of two runs, nothing served gets older, a finished run serves what it read, the inventory becomes up to date. |
| `fmgsync_survives` | Violation: an error that leaves the loop ends the automatic synchronization. |
| `path_walk` | Three sites, reused transfer addresses, tunnels, VDOM links, overrides, disabled interfaces, contradicting and missing answers: a device is entered where the flow arrives and followed with evidence, the walk ends with a reason, the verdict rests on live answers. |
| `lookups_settle` | Scenes of `Locate`, `WinInventory`, `Resolver` and `ReverseNames`: after lost answers, failed reads and writes, late stores and purges, what is kept comes to say what the source says. Of the Windows inventory, with files rewritten at any time and an import that gives up and leaves `one()`s running: for every file not in `crossed` the newest state of the history is the row, and the index comes to say what the file says. |
| `lookups_stuck` | Violation: a path without a share leaves the import marked as running. |
| `requests_answers` | Some 350000 questions to the handlers that only read, one in each behaviour, and 900 analyses of ports rule by rule: every answer against a definition of its own that does not follow the code's way. |

Type correctness (`TypeOK`) of `DnsSync`, `ReportSchedule` and `PathTrace` is proved and no
run repeats it.

### Bounds, and why they are enough

* *DnsSync*: two admins are needed for every lost update, one address for all that
  concerns a row, two names for a mismatch. Two workers, an admin who creates and two runs are
  what two overlapping creations need. Two slots and three runs let the second slot supersede a
  list of the first and an admin's work fall in between. Two edits put a name in and change it
  again. Calls and statements fail in `review` and `scheduler`, not in `together`, whose crash
  falls in the scene with the workers only; that two admins exempt over several addresses is
  left to `ExemptStayOut`, that two release different lists to `WritesAreRecorded`.
* *ReportSchedule*: `MaxTime` spans three slots, so that one can be missed, one be made
  up for and the clock shift between; `Week = 4` makes room for half weeks and shifts. At
  most three mishaps (failure, crash, deletion, re-run, change of the setting) in one
  behaviour, each once, the change twice. Two workers only up to `now = Week`: section 6.
* *WebdrivePoll*: one line, an event to the second parser only, the overlap equal
  to the lateness, slices of one step in a look-back of two, so that a run has two slices. No line
  is wanted before the restart with that parser, so a behaviour has besides it one failure (of a
  search, a statement or the task's settings) or change of the queries, at any time in the scene
  of the task alone, beside a reload while the line is not older than a run looks back (`Within`).
* *FmgSync*: two ADOMs (one of them empty), two devices and two packages of which one
  goes away, one object kind (all are read alike), one change of the data, one failure.
  Mode "session" has every outcome mode "token" has.
* *PortAnalysis*: five ports hold two touching and two overlapping ranges and a gap;
  two rules give every order of an allow and a deny; two hops suffice for "first".
* *Locate*: two VDOMs, one of which owns the address, and two MACs: enough for an old
  table to contradict the present. Two moves, one failed write.
* *WinInventory*: two files, so that one import can fail at one of them and leave the other's
  `one()` running; two mtimes and two contents beside the unreadable one; one mishap.
* *Resolver*, *ReverseNames*: one name in the second of three classes, one address, two
  requests side by side, two changes, one and two failures.
* *Handlers that only read*: bounds of the code (hosts drawn, addresses probed, rows of a
  box, hops of LLDP) are small constants, and the questions reach both sides of each.
  Three switches in a circle, five nets in three VDOMs under nested sites, nets of eight
  addresses, two hosts; every pair of failing calls.
* *PathTrace*: `MaxHops = 3` and three devices make loops, the cut-off and every rule of
  `classify.py` happen.

`CHECK_DEADLOCK FALSE` stands where the model stops by its bounds or because a request is
answered: the clock ends (`ReportSchedule`), runs are used up (`DnsSync_scheduler`, `_together`),
the task died and no request is left (`FmgSync`, `WebdrivePoll`), an import is stuck or the
purges are over (`MC_Lookups`), a trace or a question is through. `dnssync_review` and
`dnssync_double_apply` check for deadlock.

### Fairness

Weak fairness of the periodic tasks' steps: their loops sleep a bounded time, and every
`await` in them ends, by an answer or the timeout of its client. Except in `FmgSync` and
`WebdrivePoll`, where the loss of the task is modelled, this takes for granted that the settings at
the head of a loop can be read. In `WebdrivePoll` also
`Arrive`: a line that was written comes to Graylog. In `FmgSync` the request's steps once
it runs. In `MC_Lookups` the steps of searches and imports that have begun, and that time
limits run out; that requests come again is assumed of nobody: the properties speak of what
is kept. Nothing is assumed of admins, iTop, the FortiManager's data, faults or crashes;
faults are bounded, so the liveness properties speak of the time after the last one.

## 4. Theorems

Proved for every value of the constants that satisfies the named assumptions of the
modules (which TLC evaluates in the runs); there are no bounds on actors, addresses,
windows, rules, inventories or questions in them. Hypotheses of a theorem beyond those
are in the second column.

| Module | Theorem | Argument |
|---|---|---|
| `DnsSync_proofs` | `TypeCorrect` | `TypeInv`: `TypeOK` and, for a handler between two rows, that the row in hand is one of its list. One lemma per group of actions. |
| | `OverwritesOnlyInWindow` | `WindowInv`: a handler about to write has seen, at its re-read, the base name; if iTop differs now the handler is in `moved`. Only `EditItop` and writes of others disturb it, and both put the handler there. |
| | `OkRowsWereWritten`, `MismatchNeedsAdmin` | `BookInv`: each row of a table or of a handler's copy is justified, i.e. "ok" only with its pair in `written`, ticked over a name only with its pair in `picked`. It holds of copies, so that storing a stale copy back keeps it. |
| | `ScheduledRunsSupersede` | `LockInv`: a worker between the lock and its release holds it, so two scheduled creations never overlap. `OverlapInv`: an open run was there before a creation began and will be superseded at its commit, or came while it was under way (`born`); manual creations are among them. |
| | `OneRunPerSlot`; one worker | `SlotInv`: from the due check to the commit no scheduled run is as young as the slot. |
| | `WritesAreRecorded` | `KnownInv`: handlers hold only numbers of runs that exist. `RecordInv`: of a run not in `blurred` at most one release is under way; a row written is noted in the copy it works on and, once it is over, on a run that is closed for good, whatever list superseded it meanwhile. |
| | `ExemptStayOut` | `ExemptInv`: wherever an exempt address not in `raced` still stands - in an open list, a copy or a list under construction - a request that exempts it is under way and has that place before it (`Covers`, `TakenOut`). |
| | `ReviewFollowsLifecycle` | every step maps to a step of `ReviewLifecycle` or to a stutter: the claims are read off the program counters (`Claims`), a request has one from the read that found the run open to its end, and only under it rows are written and the run decided (`ApplyLives`, `ReviewLives`, `GenerateLives`). |
| `ReportSchedule_proofs` | `TypeCorrect` | no held window is empty, since `due` cuts only nonempty ones, whatever the calendar. |
| | `OneWorkerNoOverlap`; one worker | `AheadInv`: the windows held are disjoint and begin no earlier than any scheduled report ends. |
| | `OneWorkerNoGap`; one worker, `[]InTime`: at every instant the last report is no more than `MaxCatchup` weeks behind the slot | `ChainInv`: a window held begins where a report or an earlier window of the same round ends, or is the first of all. Windows are made in order and taken out only when made, so a failure leaves the chain whole. |
| `WebdrivePoll_proofs` | `NoEventLost` | `ReadInv`: what a run under way has behind it is stored, but for the lines of the last `Overlap` before its start, which may be late; in its slice for the queries it has done. It speaks of what the present parser knows: a newer one finds the point of the old and begins `MaxCatchup` back (`StartKnown`). `ClockInv` bounds the lateness. A second run, a reload and a reset add to the table or move the point back. |
| `FmgSync_proofs` | `OneRunAtATime` | `ExclInv`: who is between the entry of a run and its end has set the phase, and there is one. |
| | `ServedNeverOlder` | `SyncInv`: rows stored and rows held by a run are no older than the served ones (`NotOlder`) and no newer than the FortiManager's data; a `Publish` serves the table. Keys stay unique per ADOM and kind, over every list of a name read once. |
| | `DoneServesWhatWasRead` | `GotInv`: of each ADOM done the table agrees with what was read, of each kind stored so far of the current one too, and nothing was read of the rest. |
| `Requests_proofs`, of `WinInventory` | `ImportsAlone` | the flag is set from the entry to the end (`AloneInv`); what a given-up import left goes on, and where it meets the next import on a file, `CompareKnown` puts the file into `crossed`. |
| | `HistoryEndsRight` | `OneInv`: a file not in `crossed` is read by one `one()` at a time, of an import or left over, which knows its row as it still is, older than the file it read. `LagInv`: table, listing and share follow each other in time. |
| `PortAnalysis_proofs` | `RangesAreSets` | each loop of the algebra has an invariant over its rounds: the ranges kept so far are in normal form and stand for those read so far (`MergeIs`); a number in common lies ahead of both cursors or in what is put out (`Found`); what is left of a range lies before the cursor or is still to be cut (`CutSoFar`). |
| | `FirstMatchTyped`, `FirstMatchRight` | a port is undecided iff no rule looked at covers it, allowed iff the first that covers it accepts; proved of `FirstMatch` over the rules any policies amount to. |
| | `RefinesSets` | `PInv`: the policies are the selected ones of the hop at hand, allowed and undecided are lists of ranges within `1..MaxPort`. A policy looked at moves the pairs it covers (`RuleTaken`), one passed over is a rule that covers none. |
| | `PortsAreTrue` | from `RefinesSets` and `FirstMatchRight` the allowed ports are those of the first match over the selected policies. Not widened, all that fit by address are among them, ids being unique (`NoneRuledOut`), and zones the inventory lacks only take aliases away (`ZonesOfGrow`); so the first of the selected is the first of the fitting (`FirstOfSelected`). `CombineIs`: after each hop what is open is what all hops have, and each other port is listed once. |
| `PathTrace_proofs` | `TypeCorrect`, `WalkRight` | the walk appends only places it has not visited and stops at final classes; the classification itself stays opaque. |
| | `VerdictIsConfirmed` | each verdict of a hop determines what its answer was; the aggregation is a case split over the first hop that does not accept. |
| | `NextIsRight` | each rule of `ClassifyEgress` that names a next device rests on evidence (`GatewayShows`, `SegmentShows`, `EgressShows`), which depends on the inventory only and so stays; the hops before a foreign one, before one pending and after an uplink are as `NextInv` says. |
| | `DoorIsRight` | every table built from a snapshot holds entries whose interface is one of their VDOM (`TableHolds`, `EntryFits`), every operator that picks an interface picks from such a table or resolves within the VDOM (`CachedFits`, `RemoteFits`, `ResolvedFits`), so what a hop hands to the next fits (`NextFits`, `BackFits`). Where the trace starts is an owner of the longest prefix (`OwnerIsHome`). |
| `Requests_proofs` | `HighOnlyIfProven` | confidence "high" leaves the rules one way; the one chosen is a maximum of the ranking. |
| | `EveryGapIsNamed`, `MarksNeverLie` | a `try` reads up to the first call that fails (`AttemptReads`); a lemma per view goes from each call that fails to the system named or the request refused, and from what was read to the marks. |
| | `NoCiIsLost` | an address is placed in a narrowest net around it (`NetForIsNarrowest`), what has none is in the list beside (`LinkAccounted`), and the CI of the service itself is never hidden (`OwnIsVisible`). The plan of the segments has no such list: of a CI whose addresses all have a net, one is in a net that is drawn (`WithNetIsPlaced`, `PlacedIsDrawn`). |
| | `HostsStandAtHome` | a port that is no uplink leads to no switch and no firewall (`NoUplinkMeans`); a trunk is kept only where no access port or the hypervisor's own MAC says otherwise (`OwnPort`, `PlacesAreHomes`). |
| | `DrawingsHangTogether`; `Named`: a neighbour that says the firewall's name is the firewall in LibreNMS, or no device of it | levels grow by one along a link and are no more than there are devices, so the search is over in as many rounds (`LevelsAre`); a kept switch has its parent kept (`KeepIsClosed`) and a line to it (`ParentHasLine`); so each switch is a line away from one of a lower level, or from the firewall (`RootHasLine`, `JoinedIs`). |
| | `DrawnWhereMostNetsAre`; `Surveyed`: finitely many nets, each of a VDOM of the plan, and sizes of supernets that are numbers | the votes a site gets are a finite set, and the chosen site has most of them and is of the narrowest supernet among those that do (`DepthIsLeast`, `BestSite`, `SiteIsHome`); the VDOMs of a site's plan are placed by the same rule (`Majority`). |
| | `FreeNumbersAreFree` | the ranges cut from the numbers in use: by induction on the end of a range, neither a number in use within nor a free one beside. |
| | `HangsUnderTheSmallest`; `Laminar`: the nets nest or are apart, as CIDRs do | the order in which the nets are hung up exists and has each net behind the larger ones (`Sortable`), so all nets around one are up before it, and the parent picked among them is a smallest (`ParentIs`). |
| | `NothingFreeIsMissed`; `Searched`: a net and a size, or a first and a last address | a search that keeps the n lowest has all there are or says it stopped (`FoundIn`); the waves end after at most `MaxProbe` addresses (`ProbedIs`). |
| | `LifeAndSilenceAreSeen`; `Timed`: ages are in days | the age the findings go by is the least over six sources with times of their own (`AgeIsLeast`). |
| | `BoxesLieApart`; `Drawable`: lists and numbers of the question are what its kind has, columns stand at firewalls of their nets (`services.py:297`), known devices are finitely many | below. |

**`DrawnApart`** (no two boxes of a drawing overlap, each lies in the frame measured for it, and a
list cut short says of how many)
is the longest of these. A frame is `Tidy` if what is in it has a place within its size and apart
from its siblings, and is tidy itself. The lemmas go from the parts to the whole: a
maximum is one (`MaxIs`); packing in shelves gives each box a place of its own (`PackPlaces`);
columns, rows and grids end where the next begins (`ColumnIs`, `RowIs`, `GridClear`, `StackClear`); a line
with groups on both sides keeps them apart (`Divided`, `ClearJoin`). The shelves of a firewall keep
count of what is free and taken (`PutTakes`). The infrastructure plan lays devices on levels found by a breadth-first search,
which places each device once and is over after twice as many rounds as there are devices (`NextWalks`,
`LayersAre`, `AddRowKeeps`). Then one lemma per kind: `StructureTidy`, `FamilyTidy`, `SegmentsTidy`,
`VlanTidy`, `LogicalTidy`, `InfraTidy`.

**Assumptions on constants.** `ServiceAssumption`: a port range is a pair of integers, as
`parse_portrange` cuts it (`inventory/store.py:183`), within `1..MaxPort` or not; groups and default
mappings are finitely many.
`PathAssumption`: the policies of a VDOM come from one package (`store.py:327`), so their ids are
its own; mappings of normalized interfaces are the FortiManager's, so where a device's zones were
read they agree; they may be missing, as after a sync that could not read them.
`DrawingAssumption`: rows and blocks of any length, not the code's numbers alone; what the code's have and
is needed is that a full list of hosts fills its rows (48 in rows of 6), since the mark "+N weitere" is two
places wide and has to begin a row. The rest say of which type a constant is.

What holds "for any question" is shown for the one step that answers. Searches of the code that
stop at the first match, and loops that collect, are recursive functions over positions; that
a property is kept up to every position is proved from the least position where it is not
(`Least`, `UpTo`, `Loop`, from well-foundedness of the naturals), since induction by theorem
takes an operator as parameter.

Proved, but stated by no run of its own: `TypeOK` of `DnsSync`, `ReportSchedule` and
`PathTrace`, and the two about one run or import at a time. Every invariant the runs check
is proved. Model-checked only is liveness, which is out of the prover's reach: `SlotServed`,
`Settles`, `EventStored`, `Refreshed`, and `HistoryCatchesUp`, `IndexCatchesUp`, `AnswersSettle`
and `NamesSettle` of `MC_Lookups`.

## 5. Findings with a run

* **dnssync_double_apply** (`dnssync/service.py:47`): `README.md:282` promises the result of
  every row on the run. Two releases of one run both pass the check of the status, which
  looks at the copy their router read; the one that ends last finds the names already
  written and stores "skipped" for them. `WrittenRowsRecorded`, with such runs left out, holds.
* **fmgsync_survives** (`main.py:84`): `_periodic_sync` reads its settings outside of any
  `try` and closes the client in a `finally`; `logout` passes over `FmgError` only. One
  unreachable database or one lost connection at logout and the task is gone until the
  next start; the page still shows the interval as set. The ARP sweep, the iTop refresh, the
  webdrive poll and the Windows import read their settings outside of any `try` too
  (`main.py:119`, `:160`, `:181`, `:228`); of their modules only `WebdrivePoll` has the step (`Die`).
* **lookups_stuck** (`wininv/service.py:123`): `run` answers "Import läuft bereits." (`:121`)
  while `running` is set, sets it (`:122`) and builds its source before the `try` whose
  `finally` clears it. `build_source` refuses a path such as `\\server`; the route looks at
  the path first, the periodic task does not. After that no import is under way and each
  one is refused, also with the path corrected.

## 6. What the models show besides

Observed while modelling; each is behaviour of the model, not excluded by a property.

*DNS reconciliation.* A discard that overlaps a release overwrites its decision, and the
other way round. Two lists created at the same moment both stay open
(READ COMMITTED). DNS is asked once per release, not immediately before each row
(`README.md:280`). Whether an address was released in iTop meanwhile is not checked again.
A toggle stored from a stale copy brings an exempted row back, and a list that was built before the
exemption proposes it (`raced`). A decision that cannot be stored loses the results of rows iTop
has taken over (`blurred`). With two workers a slot's
list may be made twice, because the last run is read before the lock is taken.

*Weekly report.* `due()` is evaluated before the lock, so a second worker may make a
window that was just made. It may also hold a window that no longer fits: with the weekday
changed or another slot passed in between, windows of two workers overlap or leave a gap,
which is why the second scene of `report_weekly` stops at the first slot. One worker is
deployed. A report made again by hand loses its trigger "schedule" and
its window becomes due again. After more than four missed weeks `MAX_CATCHUP` leaves a gap.
In the week the clocks go back, slots lie seven days and an hour apart and the schedule
cuts a window of one hour off (`docs/planung-wochenreport.md:119` says "genau die sieben
Tage seit dem letzten Lauf"). A retention below a week makes the schedule purge and make
its report again and again; `Settles` assumes more.

*Webdrive.* The task's `mark_ok` between reset and run of a reload undoes the reset, and
the reload reads two minutes instead of the 24 hours its docstring promises
(`routers/webdrive.py:106`).

*Synchronization.* A failed run leaves a snapshot whose kinds have different ages; it is
served from the next start on. The rows of an ADOM that is no longer configured stay and
are served. A device whose interfaces cannot be read disappears from interfaces, routes
and zones until the next run. The resolver's cache outlives a swap of the inventory by
up to 15 minutes.

*Port analysis.* Where no policy fits the interfaces, `flow_policies` selects by address
alone; the comment at `path.py:788` says the result may then over-report, but a deny of
another pair of interfaces also takes ports away.

*Path.* A live default route without gateway leads to a neighbour on the segment, if the
inventory knows exactly one. `_remote_overlay_intf` and `vdom_link_peer` look at disabled
interfaces, which `README.md:716` says do not count. A walk cut off by the loop guard or by
`max_hops` can still end in ALLOW, with a warning. `max_hops = 0` would give ALLOW
without a hop; the modules assume at least one.

*Location.* A search answers from LibreNMS' table as soon as the firewall does not, and
records it as seen now, so that an old MAC comes first in the history until the next sweep. A
forwarding row without a time is never stale (`fdb_librenms.py`), a description matches
wherever it holds the name. An FDB that carries one MAC at two hosts places the last.

*Names.* `dns_cache.py` says it does not keep "was nur schiefging", but `dns_source.resolve_ip`
turns a timeout into no name, which is kept for a day. Answers of `resolve_endpoint` are kept
for 15 minutes whatever iTop's refresh brought, and a refresh can be followed by an index
that was read before it. A class that could not be read is left out of the index for
a quarter of an hour without a word: the plan shows its CIs with the red border "gar nicht im iTop"
(`services.py:15`), and a free address may be proposed that one of them has. So
`MarksAreTrue` leaves that case out.

*Windows inventory.* The table is "aktueller Stand" (`wininv/store.py:1`), yet `gather`
(`importer.py:64`) raises at the first save that fails and leaves up to seven `one()`s running,
while `service.run` ends and the next import may begin. One that read an older content saves it
after the next import saved the newer one; where its listing had the time the file still has,
no later import reads the file again. `crossed` holds the files two imports met over like that,
and the properties speak of the others. An index stored after an import may be older than it for five minutes (`service.py:111`).

*Addresses.* A source that is not configured counts as silent in the verdict on a free address.
Sites nest by their own order: one site within another hangs beside it (`tree.py:21`). A VLAN
counts as free while LibreNMS is away.

*Plans.* `networks_with_hosts` groups the classes of a net with more than 18 hosts, and
`logical.py:216` asks the one host of a class that occurs once for attributes a group does not
have: the request fails with AttributeError, while `logical.py:16` promises a symbol for each
class. Its title block overlaps the plan from seven hosts on. The switch column beside a
device is drawn but not measured. The failure of the switch list of a structure plan and of a link status is logged only.
Each class of the services may fail by itself (`itop_source.py:252`). `service_networks` and the plan
of the segments drop these errors: without the families a plan of a service is drawn and does
not say so, without the services it ends in 404 as if there were none, without the links in
422 for want of nets. The view of the services names iTop; a family asked for by name is refused
with 422. The plan of the segments neither draws nor names a CI in no known net
(`segments.py:697`, `routers/diagram.py:674`); only the choice of its nets does (`routers/diagram.py:411`). A CI whose
address is the firewall's own, or first or last of its net, appears nowhere.

*Switch plans.* The head of `vlanphys.py` says (`:23`) "Gezeichnet wird ein Host nur an access-
oder edge-Ports, Access zuerst. Wer nur an Trunks und Uplinks auftaucht, kommt mit Grund in die
Liste daneben". The code leaves out uplinks only (`best`, `attach`) and draws a host that has nothing
but a trunk at that trunk, as the comment at `:199` says of a VM behind a hypervisor.
`HostsAtHome` says what does hold of the place of a host. A neighbour counts as the firewall by a prefix of its name (`segments.py:109`). If
LibreNMS resolves such a neighbour to a device of another name, two switches beside the firewall can be
drawn joined to each other and not to it; `DrawingsHangTogether` leaves that out by `Named`.

*FMG client.* Calls that find no session at the same time each log in, and all sessions but
the last are never logged out (`fmg/client.py:120`).

*Regression checks.* A check run writes its states into the whole document it read before: an
edit made meanwhile is lost (`routers/checks.py:150`).

## 7. Not modelled, and why

Texts, XML, colours and logging; HTTP of the clients of LibreNMS, Zabbix, iTop, FortiAnalyzer
and Graylog (their answers are choices in the modules that ask); SQL beyond single tables
and the transactions named; chapters of the report, policy suggestions and the patterns of
log lines, whose correctness is wording; migrations (a sequence without a choice with one
worker); the simulator, shell scripts and nginx; the rendering of the page. IPv6 is refused
by the code. Passwords, tokens, SAML signatures and certificates are no matter of order.
`PROJECT.json` gives the reason for each part.

## 8. Plan

Done: all modules of section 2 and the proofs of section 4. What is left is little by
comparison, and in this order:

1. regression checks and settings as one document edited by several (`routers/checks.py`),
   with the last-admin rule of `routers/users.py`;
2. searches of the FortiAnalyzer over `FmgClient` with concurrent calls;
3. the pages that start a request per change of input.
