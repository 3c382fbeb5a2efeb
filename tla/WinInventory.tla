---------------------------- MODULE WinInventory ----------------------------
(***************************************************************************)
(* The Windows inventory: files on a share, each the answer of one host to *)
(* one kind of question, are imported (wininv/importer.py) into the table  *)
(* win_inventory and its history (wininv/store.py); plans and checks ask  *)
(* the service's index of the table (wininv/service.py).  One import runs  *)
(* at a time, begun by the periodic task (main.py) or an admin.            *)
(***************************************************************************)
EXTENDS Integers, FiniteSets

CONSTANTS
    File,        \* files of the share, each with its own host and kind (parse.split_name)
    Content,     \* what can stand in a file
    Broken,      \* a content that is no table (parse.parse_csv), or one too large
    MaxWrites,   \* bound: mtimes a file can have
    MaxMishap,   \* bound: failed reads and saves, bad paths saved
    NoRow, NoView

\* What a file says, and what a row of the table keeps of it.
Row == [mtime : Nat, body : Content \cup {Broken}]

ASSUME RowAssumption == NoRow \notin Row

VARIABLES
    share,       \* share[f]: [mtime, body], body = Broken when it cannot be read as a table
    sharePath,   \* the configured path: "good", or "bad": a server without a share
    stored,      \* win_inventory: the row of each file, [mtime, body], or NoRow
    states,      \* win_inventory_history: per file a set of [from, body]
    running,     \* WinInventory.running
    import,      \* the import under way: [pc, listed, by]
    task,        \* its one()s: [file, mtime, old, read, body]
    orphan,      \* one()s of an import that gave up
    purging,     \* the task's purge, after its import
    view,        \* WinInventory._index: the rows it was built from
    asking,      \* an index() that waits for the database, with the rows it will get
    crossed,     \* history: files two imports had a one() at work on at the same time
    mishaps

winVars   == <<share, sharePath, stored, states, running, import, task, orphan, purging, view,
               asking, crossed, mishaps>>
shareVars == <<share, sharePath>>
tableVars == <<stored, states>>
viewVars  == <<view, asking>>
runVars   == <<running, import, task, orphan, purging>>

Idle == [pc |-> "idle", listed |-> [f \in File |-> 0], by |-> "task"]

WinInventoryInit ==
    /\ share \in [File -> [mtime : {1}, body : Content]]
    /\ sharePath = "good"
    /\ stored = [f \in File |-> NoRow] /\ states = [f \in File |-> {}]
    /\ running = FALSE /\ import = Idle /\ task = {} /\ orphan = {} /\ purging = FALSE
    /\ view = NoView /\ asking = NoView
    /\ crossed = {} /\ mishaps = 0

Mishap == mishaps < MaxMishap /\ mishaps' = mishaps + 1

----------------------------------------------------------------------------
(* service.run *)

\* The source is built before the try: a path without a share leaves running set.  The
\* route looks at the path first (routers/wininv._cfg), the task only asks for one.
ImportBegin ==
    /\ ~running
    /\ \E who \in {"task", "admin"} :
          /\ IF who = "task" THEN ~purging ELSE sharePath = "good"
          /\ import' = IF sharePath = "bad" THEN Idle ELSE [Idle EXCEPT !.pc = "list", !.by = who]
    /\ running' = TRUE
    /\ UNCHANGED <<shareVars, tableVars, task, orphan, purging, viewVars, crossed, mishaps>>

\* finally: whatever one()s are left go on.
GiveUp(left) ==
    /\ running' = FALSE /\ import' = Idle
    /\ task' = {} /\ orphan' = orphan \cup left

\* source.list
ListShare ==
    /\ import.pc = "list"
    /\ \/ /\ import' = [import EXCEPT !.pc = "known", !.listed = [f \in File |-> share[f].mtime]]
          /\ UNCHANGED <<running, task, orphan, mishaps>>
       \/ Mishap /\ GiveUp({})
    /\ UNCHANGED <<shareVars, tableVars, purging, viewVars, crossed>>

\* A file with the stored size and time is not read again.
Unread(f) == stored[f] = NoRow \/ stored[f].mtime # import.listed[f]

\* store.known, store.touch: the rows as they are now, kept for the whole import.  Nothing
\* looks at what an import that gave up still has at work.
CompareKnown ==
    /\ import.pc = "known"
    /\ LET todo == {f \in File : Unread(f)}
       IN  /\ task' = {[file |-> f, mtime |-> import.listed[f], old |-> stored[f],
                        read |-> FALSE, body |-> Broken] : f \in todo}
           /\ crossed' = crossed \cup {f \in todo : \E o \in orphan : o.file = f}
    /\ import' = [import EXCEPT !.pc = "read"]
    /\ UNCHANGED <<shareVars, tableVars, running, orphan, purging, viewVars, mishaps>>

Gone(t) == task' = task \ {t} /\ orphan' = orphan \ {t}
Becomes(t, u) ==
    IF t \in task THEN task' = (task \ {t}) \cup {u} /\ UNCHANGED orphan
                  ELSE orphan' = (orphan \ {t}) \cup {u} /\ UNCHANGED task

\* one(): the file as it is by now, later perhaps than it was listed.
ReadFile ==
    \E t \in task \cup orphan :
        /\ ~t.read
        /\ \/ Becomes(t, [t EXCEPT !.read = TRUE, !.body = share[t.file].body]) /\ UNCHANGED mishaps
           \/ Mishap /\ Gone(t)
        /\ UNCHANGED <<shareVars, tableVars, running, import, purging, viewVars, crossed>>

Changed(t) == ~(t.old # NoRow /\ t.old.body = t.body)

\* What is not a table is an error of its own; the row stays.
Unparsed ==
    \E t \in task \cup orphan :
        /\ t.read /\ Changed(t) /\ t.body = Broken
        /\ Gone(t)
        /\ UNCHANGED <<shareVars, tableVars, running, import, purging, viewVars, crossed, mishaps>>

SavedM(t) == [mtime |-> share[t.file].mtime,
              body  |-> IF Changed(t) THEN t.body ELSE stored[t.file].body]
\* store.save: one transaction.
Saved(t) == [mtime |-> t.mtime,
             body  |-> IF Changed(t) THEN t.body ELSE stored[t.file].body]

SavedHistory(t) == states[t.file] \cup
                   (IF Changed(t) THEN {[from |-> t.mtime, body |-> t.body]} ELSE {})

Save ==
    \E t \in task \cup orphan :
        /\ t.read /\ (Changed(t) => t.body # Broken)
        /\ \/ /\ stored' = [stored EXCEPT ![t.file] = Saved(t)]
              /\ states' = [states EXCEPT ![t.file] = SavedHistory(t)]
              /\ Gone(t)
              /\ UNCHANGED <<running, import, mishaps>>
           \/ /\ Mishap
              /\ IF t \in task THEN GiveUp(task \ {t}) ELSE Gone(t) /\ UNCHANGED <<running, import>>
              /\ UNCHANGED tableVars
        /\ UNCHANGED <<shareVars, purging, viewVars, crossed>>

ImportEnds ==
    /\ import.pc = "read" /\ task = {}
    /\ view' = NoView
    /\ running' = FALSE
    /\ import' = Idle
    /\ purging' = (purging \/ import.by = "task")
    /\ UNCHANGED <<shareVars, tableVars, task, orphan, asking, crossed, mishaps>>

KeptStatesM(h, cutoff) == {e \in h : e.from >= cutoff}
\* store.purge: the older states, the youngest of a file never.
KeptStates(h, cutoff) == {e \in h : e.from >= cutoff \/ \A d \in h : d.from <= e.from}

PurgeStates ==
    /\ purging
    /\ \E cutoff \in 0 .. MaxWrites + 1 :
          states' = [f \in File |-> KeptStates(states[f], cutoff)]
    /\ purging' = FALSE
    /\ UNCHANGED <<shareVars, stored, running, import, task, orphan, viewVars, crossed, mishaps>>

----------------------------------------------------------------------------
(* service.index *)

AskIndex ==
    /\ view = NoView /\ asking = NoView
    /\ asking' = stored
    /\ UNCHANGED <<shareVars, tableVars, runVars, view, crossed, mishaps>>

KeepIndex ==
    /\ asking # NoView
    /\ view' = asking /\ asking' = NoView
    /\ UNCHANGED <<shareVars, tableVars, runVars, crossed, mishaps>>

\* INDEX_TTL_S
ViewAges ==
    /\ view # NoView /\ view' = NoView
    /\ UNCHANGED <<shareVars, tableVars, runVars, asking, crossed, mishaps>>

----------------------------------------------------------------------------
(* The hosts write their files; an admin saves the path. *)

HostWrites ==
    \E f \in File, b \in Content \cup {Broken} :
        /\ share[f].mtime < MaxWrites
        /\ share' = [share EXCEPT ![f] = [mtime |-> @.mtime + 1, body |-> b]]
        /\ UNCHANGED <<sharePath, tableVars, runVars, viewVars, crossed, mishaps>>

SavePath ==
    /\ \/ sharePath = "good" /\ sharePath' = "bad" /\ Mishap
       \/ sharePath = "bad" /\ sharePath' = "good" /\ UNCHANGED mishaps
    /\ UNCHANGED <<share, tableVars, runVars, viewVars, crossed>>

TaskStep == ReadFile \/ Unparsed \/ Save
WinInventoryNext ==
    \/ ImportBegin \/ ListShare \/ CompareKnown \/ TaskStep \/ ImportEnds \/ PurgeStates
    \/ AskIndex \/ KeepIndex \/ ViewAges \/ HostWrites \/ SavePath

WinInventorySpec == WinInventoryInit /\ [][WinInventoryNext]_winVars

----------------------------------------------------------------------------
(* Properties *)

Stuck == running /\ import.pc = "idle"

\* What a file says for good, the index the plans ask says too in the end: neither a file
\* rewritten between listing and reading, nor a failed read or save, nor a one() left over
\* that saves late, nor an index built before an import and stored after it stays
\* (importer.run, service.index) - as long as imports are begun at all, and no two imports
\* work on the file at once.
IndexCatchesUp ==
    \A f \in File, b \in Content :
        <>[](share[f].body = b /\ ~Stuck /\ f \notin crossed)
           => <>[](view # NoView => view[f] # NoRow /\ view[f].body = b)

\* The report compares the states of the history: its newest state of a file is the
\* content the table holds, whatever was purged and whichever imports gave up (store.save,
\* store.purge) - unless a one() left over worked on the file beside that of a later import.
HistoryEndsInStored ==
    \A f \in File \ crossed :
        stored[f] # NoRow =>
            \E e \in states[f] : e.body = stored[f].body /\ \A d \in states[f] : d.from <= e.from

\* service.py:121, run refuses with "Import läuft bereits.": while it does, one is under way.
RunningIsTrue == ~Stuck
=============================================================================
