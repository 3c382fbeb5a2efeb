----------------------------- MODULE WebdrivePoll -----------------------------
(***************************************************************************)
(* The webdrive poller (webdrive/poller.py with its store): log messages   *)
(* of two systems are read from Graylog in time windows, turned into       *)
(* events and stored once; from the stored events an OpenCloud id is given *)
(* the user name it belongs to (webdrive/correlate.py).                    *)
(*                                                                         *)
(* Two kinds of runs poll in the same process: the periodic task of        *)
(* main.py and the requests POST /reload.  They share the one row of       *)
(* webdrive_poll and nothing keeps them apart.                             *)
(***************************************************************************)
EXTENDS Integers, FiniteSets

CONSTANTS
    Task,        \* periodic tasks (_periodic_webdrive_poll)
    Reload,      \* requests POST /reload in flight
    Msg,         \* log messages that can be written
    Setting,     \* settings of stream and queries an admin can choose
    Queries,     \* Queries[s]: the queries of setting s, each the set of messages it finds
    Since,       \* Since[m]: the first parser version that makes an event of m
    User, Token, Opaque, \* user names, tokens of the FAC, ids OpenCloud gives the users
    Login,       \* Login[m]: the user of a successful portal login, NoUser else
    Issued,      \* Issued[m]: the token a line issues, NoToken else
    Fetch,       \* Fetch[m]: the token a userinfo line shows, NoToken else
    Session,     \* Session[m]: the id of a session line, NoOpaque else
    Follows,     \* pairs <<l, t>>: t issues a token within TOKEN_S after login l
    SameIp,      \* pairs <<l, t>> of the same client address
    Near,        \* pairs <<f, s>>: session line s within MATCH_S of userinfo line f
    Overlap, Slice, MaxCatchup,     \* constants of poller.py, in steps of the clock
    Retention,   \* retention_days
    Lateness,    \* steps after which a message is in Graylog at the latest
    MaxTime,     \* bound: the clock
    MaxVersion,  \* bound: PARSER_VERSION
    MaxSetting, MaxFault, MaxCrash, \* bounds: changed settings, failed searches, restarts
    MaxMishaps,  \* bound: all of these together
    Never, NoUser, NoToken, NoOpaque

Runner == Task \cup Reload
MinMatches == 2     \* correlate.MIN_MATCHES

ASSUME RunnerAssumption == Task \cap Reload = {}
ASSUME MessageAssumption ==
    /\ IsFiniteSet(Msg)
    /\ Queries \in [Setting -> SUBSET SUBSET Msg]
    /\ Since \in [Msg -> 1..MaxVersion]
    /\ Login \in [Msg -> User \cup {NoUser}] /\ NoUser \notin User
    /\ Issued \in [Msg -> Token \cup {NoToken}] /\ NoToken \notin Token
    /\ Fetch \in [Msg -> Token \cup {NoToken}]
    /\ Session \in [Msg -> Opaque \cup {NoOpaque}] /\ NoOpaque \notin Opaque
    /\ Follows \subseteq Msg \X Msg /\ SameIp \subseteq Msg \X Msg /\ Near \subseteq Msg \X Msg
ASSUME TimeAssumption ==
    /\ Overlap \in Nat /\ MaxCatchup \in Nat /\ MaxTime \in Nat /\ MaxVersion \in Nat
    /\ Slice \in Nat \ {0}
    /\ Lateness \in 0..Overlap          \* what the two minutes of overlap are meant for
    /\ Retention \in Nat /\ Retention >= MaxCatchup
    /\ Never \notin Int

VARIABLES
    now,      \* the clock
    born,     \* the time a message was written, Never before that
    visible,  \* messages Graylog finds
    setting,  \* stream and queries
    version,  \* PARSER_VERSION of the running code
    stored,   \* table webdrive_event
    names,    \* table webdrive_identity, NoUser: no row
    polled,   \* webdrive_poll.polled_until
    parser,   \* webdrive_poll.stats.parser, 0: no row
    failed,   \* webdrive_poll.last_error is set
    pc,       \* where each run stands
    run,      \* its local variables
    used      \* how much of each bound is used up

table == <<stored, names, polled, parser, failed>>
world == <<born, visible, setting>>
vars  == <<now, world, version, table, pc, run, used>>

Blank == [at |-> 0, set |-> CHOOSE s \in Setting : TRUE, t |-> 0, left |-> {}, new |-> {}]

----------------------------------------------------------------------------
Init ==
    /\ now = 0
    /\ born = [m \in Msg |-> Never]
    /\ visible = {}
    /\ setting \in Setting
    /\ version = 1
    /\ stored = {}
    /\ names = [o \in Opaque |-> NoUser]
    /\ polled = Never /\ parser = 0 /\ failed = FALSE
    /\ pc = [x \in Runner |-> "idle"]
    /\ run = [x \in Runner |-> Blank]
    /\ used = [setting |-> 0, fault |-> 0, crash |-> 0]

Goto(x, l)  == pc' = [pc EXCEPT ![x] = l]
Use(b, max) == /\ used[b] < max
               /\ used.setting + used.fault + used.crash < MaxMishaps
               /\ used' = [used EXCEPT ![b] = @ + 1]

Later(a, b)   == IF a <= b THEN b ELSE a
Earlier(a, b) == IF a <= b THEN a ELSE b

----------------------------------------------------------------------------
(* The beginning of a run *)

\* The task reads its settings and the clock.
TaskStart(x) ==
    /\ x \in Task /\ pc[x] = "idle"
    /\ run' = [run EXCEPT ![x] = [Blank EXCEPT !.at = now, !.set = setting]]
    /\ Goto(x, "begin")
    /\ UNCHANGED <<now, world, version, table, used>>

\* POST /reload reads its settings first ...
ReloadStart(x) ==
    /\ x \in Reload /\ pc[x] = "idle"
    /\ run' = [run EXCEPT ![x] = [Blank EXCEPT !.set = setting]]
    /\ Goto(x, "reset")
    /\ UNCHANGED <<now, world, version, table, used>>

\* ... then store.reset_poll forgets how far the log was read, and a run starts.
Reset(x) ==
    /\ pc[x] = "reset"
    /\ polled' = Never
    /\ run' = [run EXCEPT ![x].at = now]
    /\ Goto(x, "begin")
    /\ UNCHANGED <<now, world, version, stored, names, parser, failed, used>>

StartM(x) ==
    IF polled = Never THEN run[x].at - MaxCatchup
    ELSE Later(polled - Overlap, run[x].at - MaxCatchup)

\* Where run x starts to read: a little before the point reached, but MaxCatchup
\* back when nothing was read yet or another parser read it.
Start(x) ==
    IF polled = Never \/ parser # version THEN run[x].at - MaxCatchup
    ELSE Later(polled - Overlap, run[x].at - MaxCatchup)

\* Without a query there is nothing to do: GraylogNotConfigured.
Begin(x) ==
    /\ pc[x] = "begin"
    /\ IF Queries[run[x].set] = {}
       THEN Goto(x, "idle") /\ UNCHANGED run
       ELSE /\ run' = [run EXCEPT ![x].t = Start(x), ![x].left = Queries[run[x].set]]
            /\ Goto(x, IF Start(x) < run[x].at THEN "slice" ELSE "correlate")
    /\ UNCHANGED <<now, world, version, table, used>>

----------------------------------------------------------------------------
(* One slice: search and store for each query, then store how far it got *)

SliceEndM(x) == run[x].t
SliceEnd(x) == Earlier(run[x].t + Slice, run[x].at)

\* What a search for the messages of q finds in the slice, now.
Found(x, q) == {m \in visible \cap q : run[x].t <= born[m] /\ born[m] <= SliceEnd(x)}

\* client.search and store.insert_events; a message is stored once.
Search(x) ==
    /\ pc[x] = "slice"
    /\ \E q \in run[x].left :
         /\ stored' = stored \cup {m \in Found(x, q) : Since[m] <= version}
         /\ run' = [run EXCEPT ![x].left = @ \ {q}]
    /\ UNCHANGED <<now, world, version, names, polled, parser, failed, pc, used>>

Reached(x) == SliceEnd(x)

\* store.mark_ok: the slice is done, on to the next.
MarkOk(x) ==
    /\ pc[x] = "slice" /\ run[x].left = {}
    /\ polled' = Reached(x)
    /\ parser' = version
    /\ failed' = FALSE
    /\ run' = [run EXCEPT ![x].t = SliceEnd(x), ![x].left = Queries[run[x].set]]
    /\ Goto(x, IF SliceEnd(x) < run[x].at THEN "slice" ELSE "correlate")
    /\ UNCHANGED <<now, world, version, stored, names, used>>

\* An exception ends the run: a search, or a statement of the database, get_poll and
\* reset_poll included, fails.  While it reads, store.mark_error records it if it can.
Fail(x) ==
    /\ pc[x] \in {"reset", "begin", "slice", "correlate", "save", "purge"}
    /\ Use("fault", MaxFault)
    /\ failed' \in {failed, failed \/ pc[x] = "slice"}
    /\ Goto(x, "idle")
    /\ run' = [run EXCEPT ![x] = Blank]
    /\ UNCHANGED <<now, world, version, stored, names, polled, parser>>

\* The task reads its settings outside the `try`: when that fails the task is over.
Die(x) ==
    /\ x \in Task /\ pc[x] = "idle"
    /\ Use("fault", MaxFault)
    /\ Goto(x, "dead")
    /\ UNCHANGED <<now, world, version, table, run>>

----------------------------------------------------------------------------
(* correlate.new_identities *)

\* map_tokens: the users whose login a line issuing a token may follow ...
Before(t, evs) ==
    LET cand == {l \in evs : Login[l] # NoUser /\ <<l, t>> \in Follows}
        same == {l \in cand : <<l, t>> \in SameIp}
    IN  {Login[l] : l \in IF same # {} THEN same ELSE cand}

\* ... and who has token k: the one user before the line that issues it.  Of several such
\* lines the last counts; the model keeps them all.
Owners(k, evs) ==
    UNION {Before(t, evs) : t \in {l \in evs : Issued[l] = k /\ Cardinality(Before(l, evs)) = 1}}

Fetches(k, evs) == {m \in evs : Fetch[m] = k}

\* How many userinfo lines of token k fall on a session of o.
Score(k, o, evs) ==
    Cardinality({f \in Fetches(k, evs) : \E s \in evs : Session[s] = o /\ <<f, s>> \in Near})

Enough(k, o, evs) ==
    /\ Cardinality(Fetches(k, evs)) >= MinMatches
    /\ Score(k, o, evs) >= Later(MinMatches, Cardinality(Fetches(k, evs)) \div 2)

\* The pairs the events prove: o meets the lines of a token of u more often than any other id.
Proven(evs, known) ==
    {p \in User \X (Opaque \ known) :
        /\ \E s \in evs : Session[s] = p[2]
        /\ \E k \in Token :
              /\ p[1] \in Owners(k, evs)
              /\ Enough(k, p[2], evs)
              /\ \A o \in Opaque \ (known \cup {p[2]}) : Score(k, o, evs) < Score(k, p[2], evs)}

\* Per id one user: the first token in the log wins.
Choices(proven) ==
    {c \in SUBSET proven : \A p \in proven : \E q \in c : /\ q[2] = p[2]
                                                         /\ \A r \in c : r[2] = q[2] => r = q}

\* load_events, load_identities.
Correlate(x) ==
    /\ pc[x] = "correlate"
    /\ LET recent == {m \in stored : born[m] >= run[x].at - MaxCatchup}
           known  == {o \in Opaque : names[o] # NoUser}
       IN  \E c \in Choices(Proven(recent, known)) : run' = [run EXCEPT ![x].new = c]
    /\ Goto(x, "save")
    /\ UNCHANGED <<now, world, version, table, used>>

\* save_identities: a row that is there stays as it is.
SaveNames(x) ==
    /\ pc[x] = "save"
    /\ names' = [o \in Opaque |-> IF names[o] = NoUser /\ \E p \in run[x].new : p[2] = o
                                  THEN (CHOOSE p \in run[x].new : p[2] = o)[1] ELSE names[o]]
    /\ Goto(x, "purge")
    /\ UNCHANGED <<now, world, version, stored, polled, parser, failed, run, used>>

Purge(x) ==
    /\ pc[x] = "purge"
    /\ stored' = {m \in stored : born[m] >= now - Retention}
    /\ Goto(x, "idle")
    /\ run' = [run EXCEPT ![x] = Blank]
    /\ UNCHANGED <<now, world, version, names, polled, parser, failed, used>>

----------------------------------------------------------------------------
(* Everybody else *)

\* A system writes a log line; Graylog finds it some time later.
Write ==
    /\ \E m \in Msg : born[m] = Never /\ born' = [born EXCEPT ![m] = now]
    /\ UNCHANGED <<now, visible, setting, version, table, pc, run, used>>

Arrive ==
    /\ \E m \in Msg \ visible : born[m] # Never /\ visible' = visible \cup {m}
    /\ UNCHANGED <<now, born, setting, version, table, pc, run, used>>

Tick ==
    /\ now < MaxTime
    /\ \A m \in Msg \ visible : born[m] # Never => now < born[m] + Lateness
    /\ now' = now + 1
    /\ UNCHANGED <<world, version, table, pc, run, used>>

ChangeSetting ==
    /\ Use("setting", MaxSetting)
    /\ setting' \in Setting \ {setting}
    /\ UNCHANGED <<now, born, visible, version, table, pc, run>>

\* The process stops anywhere and starts again, perhaps with a newer parser.
Restart ==
    /\ Use("crash", MaxCrash)
    /\ version' \in version..MaxVersion
    /\ pc' = [x \in Runner |-> "idle"]
    /\ run' = [x \in Runner |-> Blank]
    /\ UNCHANGED <<now, world, table>>

----------------------------------------------------------------------------
Step(x) == TaskStart(x) \/ ReloadStart(x) \/ Reset(x) \/ Begin(x) \/ Search(x) \/ MarkOk(x)
           \/ Fail(x) \/ Die(x) \/ Correlate(x) \/ SaveNames(x) \/ Purge(x)

Next ==
    \/ \E x \in Runner : Step(x)
    \/ Write \/ Arrive \/ Tick \/ ChangeSetting \/ Restart

Spec == Init /\ [][Next]_vars

\* The task is an endless loop whose awaits return (every request has a timeout), until it
\* dies; a written message comes to Graylog in the end.
FairSpec == Spec /\ WF_vars(Arrive) /\ \A x \in Task : WF_vars(Step(x))

----------------------------------------------------------------------------
(* Properties *)

\* Every setting the admins choose asks for m.
Wanted(m) == \A s \in Setting : \E q \in Queries[s] : m \in q

\* No event is lost: what was written before the point reached, less the overlap,
\* is stored if the parser that read it knows it - in spite of messages that come
\* late, searches that fail half-way, restarts, parser updates and runs that
\* overtake each other (poller.run_once; only the last 24 h are looked at).
NothingMissed ==
    polled # Never =>
    \A m \in Msg :
       /\ born[m] # Never
       /\ Wanted(m)
       /\ Since[m] <= parser
       /\ now - MaxCatchup <= born[m] /\ born[m] < polled - Overlap
       => m \in stored

\* What is written is stored in the end unless it grows too old or the task has died,
\* after a search or statement that failed, a restart with a parser that makes an event of
\* it, or a change of the queries (the gap is made up for at the next success, run_once).
EventStored ==
    \A m \in Msg :
       born[m] # Never /\ Wanted(m) /\ Since[m] <= version
           ~> \/ m \in stored
              \/ born[m] # Never /\ now - born[m] >= MaxCatchup
              \/ \E x \in Task : pc[x] = "dead"
=============================================================================
