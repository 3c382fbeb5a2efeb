-------------------------- MODULE WebdrivePoll_proofs --------------------------
(***************************************************************************)
(* Proof that the webdrive poller loses no event, for any number of tasks  *)
(* and reload requests that poll at the same time, any settings, parser    *)
(* versions, failures and restarts.                                        *)
(***************************************************************************)
EXTENDS WebdrivePoll, TLAPS

(* The inductive invariant.  Required(m, p) says that m is looked for by every setting, *)
(* known to parser p and not older than what a run may still be asked to read.           *)

Required(m, p) == born[m] # Never /\ Wanted(m) /\ Since[m] <= p /\ now - MaxCatchup <= born[m]

TypeInv ==
    /\ now \in Nat /\ version \in Nat /\ setting \in Setting
    /\ born \in [Msg -> Nat \cup {Never}]
    /\ visible \subseteq Msg /\ stored \subseteq Msg
    /\ polled \in Int \cup {Never} /\ parser \in Nat
    /\ names \in [Opaque -> User \cup {NoUser}]
    /\ pc \in [Runner -> {"idle", "reset", "begin", "slice", "correlate", "save", "purge", "dead"}]
    /\ run \in [Runner -> [at : Int, set : Setting, t : Int, left : SUBSET SUBSET Msg,
                           new : SUBSET (User \X Opaque)]]

\* Nothing is ahead of the clock, and what is late is late by no more than Lateness.
ClockInv ==
    /\ \A m \in Msg : born[m] # Never => born[m] <= now
    /\ \A m \in Msg : born[m] # Never /\ m \notin visible => now <= born[m] + Lateness
    /\ polled # Never => polled <= now
    /\ \A x \in Runner : run[x].at <= now

\* What run x has read: all before t, and in its slice what the queries done ask for.  Of
\* the last Overlap steps before its start it may miss what comes late.
ReadInv(x) ==
    pc[x] = "slice" =>
       \A m \in Msg : Required(m, version) /\ born[m] < run[x].at - Overlap =>
          /\ born[m] < run[x].t => m \in stored
          /\ \A q \in Queries[run[x].set] \ run[x].left :
                m \in q /\ run[x].t <= born[m] /\ born[m] <= SliceEnd(x) => m \in stored

PollInv == TypeInv /\ ClockInv /\ NothingMissed /\ \A x \in Runner : ReadInv(x)

----------------------------------------------------------------------------
Runs == [at : Int, set : Setting, t : Int, left : SUBSET SUBSET Msg, new : SUBSET (User \X Opaque)]

\* A run that has not begun.
LEMMA BlankTyped == setting \in Setting => Blank \in Runs /\ Blank.at = 0
BY DEF Blank, Runs

\* Arithmetic of the slices.
LEMMA SliceEndKnown ==
    ASSUME TypeInv, NEW x \in Runner
    PROVE  SliceEnd(x) \in Int /\ SliceEnd(x) <= run[x].at
<1>1. run[x].t \in Int /\ run[x].at \in Int /\ Slice \in Nat
  BY TimeAssumption DEF TypeInv
<1> QED  BY <1>1 DEF SliceEnd, Earlier

\* A run begins at the overlap before the point, or as far back as the poller looks.
LEMMA StartKnown ==
    ASSUME TypeInv, NEW x \in Runner
    PROVE  /\ Start(x) \in Int
           /\ Start(x) <= run[x].at - MaxCatchup
                \/ (polled # Never /\ parser = version /\ Start(x) <= polled - Overlap)
<1>1. /\ run[x].at \in Int /\ MaxCatchup \in Nat /\ Overlap \in Nat
      /\ polled # Never => polled \in Int
  BY TimeAssumption DEF TypeInv
<1> QED  BY <1>1 DEF Start, Later

\* At first nothing is written and the poller has no point.
LEMMA Initial == Init => PollInv
<1> SUFFICES ASSUME Init PROVE PollInv
  OBVIOUS
<1>1. Blank \in Runs /\ Blank.at = 0
  BY BlankTyped DEF Init
<1>2. TypeInv
  BY <1>1 DEF Init, TypeInv, Runs
<1>3. ClockInv
  BY <1>1 DEF Init, ClockInv
<1>4. NothingMissed /\ \A x \in Runner : ReadInv(x)
  BY DEF Init, NothingMissed, ReadInv
<1> QED  BY <1>2, <1>3, <1>4 DEF PollInv

\* A step of the run x keeps the invariant if it keeps x's part of it and the stored events
\* that may still be asked for.
LEMMA RunStep ==
    ASSUME PollInv, NEW x \in Runner, UNCHANGED <<now, world, version>>, TypeInv',
           run' = [run EXCEPT ![x] = run'[x]], pc' = [pc EXCEPT ![x] = pc'[x]],
           run'[x].at <= now, \A m \in stored : born[m] # Never /\ now - MaxCatchup <= born[m] => m \in stored',
           \/ UNCHANGED <<polled, parser>>
           \/ NothingMissed' /\ (polled' # Never => polled' <= now),
           ReadInv(x)'
    PROVE  PollInv'
<1>1. UNCHANGED <<now, born, visible, setting, version>> /\ ClockInv /\ TypeInv
  BY DEF world, PollInv
<1>2. \A m \in Msg : Required(m, version)' <=> Required(m, version)
  BY <1>1 DEF Required, Wanted
<1>3. ASSUME NEW y \in Runner, y # x PROVE ReadInv(y)' /\ run'[y].at <= now
  <2>1. pc'[y] = pc[y] /\ run'[y] = run[y] /\ ReadInv(y)
    BY <1>1, <1>3 DEF PollInv, TypeInv
  <2>2. SliceEnd(y)' = SliceEnd(y)
    BY <2>1 DEF SliceEnd
  <2>3. \A m \in stored : Required(m, version) => m \in stored'
    BY DEF Required
  <2>4. ReadInv(y)'
    BY <1>1, <1>2, <2>1, <2>2, <2>3 DEF ReadInv
  <2>5. run[y].at <= now
    BY <1>1 DEF ClockInv
  <2> QED  BY <2>1, <2>4, <2>5
<1>4. \A y \in Runner : ReadInv(y)' /\ run'[y].at <= now
  BY <1>3
<1>5. ClockInv'
  BY <1>1, <1>4 DEF ClockInv
<1>6. NothingMissed'
  <2>1. CASE UNCHANGED <<polled, parser>>
    BY <1>1, <2>1 DEF PollInv, NothingMissed, Wanted
  <2> QED  BY <2>1
<1> QED  BY <1>4, <1>5, <1>6 DEF PollInv

\* A run that begins has nothing behind it but what an earlier run of the same parser stored.
LEMMA BeginInv == ASSUME PollInv, NEW x \in Runner, Begin(x) PROVE PollInv'
<1>1. /\ TypeInv /\ ClockInv /\ NothingMissed /\ UNCHANGED <<now, world, version, table, used>>
      /\ now \in Nat /\ MaxCatchup \in Nat /\ Overlap \in Nat /\ run[x].at <= now /\ run[x].at \in Int
      /\ \A m \in Msg : born[m] # Never => born[m] \in Nat
  BY TimeAssumption DEF Begin, PollInv, TypeInv, ClockInv
<1>2. CASE Queries[run[x].set] = {}
  <2>1. pc' = [pc EXCEPT ![x] = "idle"] /\ run' = run
    BY <1>2 DEF Begin, Goto
  <2>2. /\ pc'[x] = "idle" /\ pc' = [pc EXCEPT ![x] = pc'[x]] /\ run' = [run EXCEPT ![x] = run'[x]]
        /\ TypeInv'
    BY <1>1, <2>1 DEF TypeInv, world, table
  <2>3. ReadInv(x)'
    BY <2>2 DEF ReadInv
  <2>4. run'[x].at <= now
    BY <1>1, <2>1
  <2> QED  BY <1>1, <2>2, <2>3, <2>4, RunStep DEF table
<1>3. CASE Queries[run[x].set] # {}
  <2> DEFINE r == [run[x] EXCEPT !.t = Start(x), !.left = Queries[run[x].set]]
  <2>1. PICK at \in {"slice", "correlate"} : pc' = [pc EXCEPT ![x] = at]
    BY <1>3 DEF Begin, Goto
  <2>2. run' = [run EXCEPT ![x] = r]
    BY <1>1, <1>3 DEF Begin, TypeInv
  <2>3. Queries[run[x].set] \in SUBSET SUBSET Msg
    BY <1>1, MessageAssumption DEF TypeInv
  <2>4. r \in Runs /\ r.at = run[x].at /\ r.t = Start(x) /\ r.set = run[x].set /\ r.left = Queries[r.set]
    BY <1>1, <2>3, StartKnown, ZenonT(60) DEF TypeInv, Runs
  <2> HIDE DEF r
  <2>5. pc'[x] = at /\ pc' = [pc EXCEPT ![x] = pc'[x]] /\ run'[x] = r /\ run' = [run EXCEPT ![x] = run'[x]]
    BY <1>1, <2>1, <2>2 DEF TypeInv
  <2>6. TypeInv'
    BY <1>1, <2>1, <2>2, <2>4 DEF TypeInv, world, table, Runs
  <2>7. ReadInv(x)'
    <3> SUFFICES ASSUME NEW m \in Msg, Required(m, version)', born[m] < r.at - Overlap, born[m] < r.t
                 PROVE  m \in stored
      BY <1>1, <2>4, <2>5 DEF ReadInv, world, table
    <3>1. Required(m, version) /\ born[m] \in Nat /\ now - MaxCatchup <= born[m]
      BY <1>1 DEF Required, Wanted, world
    <3>2. r.t \in Int /\ (r.t <= run[x].at - MaxCatchup
             \/ (polled # Never /\ parser = version /\ r.t <= polled - Overlap /\ polled \in Int))
      BY <1>1, <2>4, StartKnown DEF TypeInv
    <3>3. CASE r.t <= run[x].at - MaxCatchup
      BY <1>1, <3>1, <3>2, <3>3
    <3>4. CASE polled # Never /\ parser = version /\ r.t <= polled - Overlap /\ polled \in Int
      <4>1. born[m] < polled - Overlap
        BY <1>1, <3>1, <3>2, <3>4
      <4> QED  BY <1>1, <3>1, <3>4, <4>1 DEF NothingMissed, Required
    <3> QED  BY <3>2, <3>3, <3>4
  <2>8. run'[x].at <= now
    BY <1>1, <2>4, <2>5
  <2> QED  BY <1>1, <2>5, <2>6, <2>7, <2>8, RunStep DEF table
<1> QED  BY <1>2, <1>3

\* What is old enough to be read once is found by every search for it.
LEMMA SearchInv == ASSUME PollInv, NEW x \in Runner, Search(x) PROVE PollInv'
<1>1. /\ TypeInv /\ ClockInv /\ UNCHANGED <<now, world, version, names, polled, parser, failed, pc, used>>
      /\ now \in Nat /\ Lateness \in Nat /\ Overlap \in Nat /\ Lateness <= Overlap
      /\ run[x].at <= now /\ run[x].at \in Int /\ ReadInv(x) /\ pc[x] = "slice"
      /\ \A m \in Msg : born[m] # Never => born[m] \in Nat
  BY TimeAssumption DEF Search, PollInv, TypeInv, ClockInv
<1>2. PICK q \in run[x].left :
         /\ stored' = stored \cup {m \in Found(x, q) : Since[m] <= version}
         /\ run' = [run EXCEPT ![x].left = @ \ {q}]
  BY DEF Search
<1> DEFINE r == [run[x] EXCEPT !.left = @ \ {q}]
<1>3. run'[x] = r /\ run' = [run EXCEPT ![x] = r]
  BY <1>1, <1>2 DEF TypeInv
<1>4. /\ r \in Runs /\ r.at = run[x].at /\ r.t = run[x].t /\ r.set = run[x].set
      /\ r.left = run[x].left \ {q}
  BY <1>1 DEF TypeInv, Runs
<1> HIDE DEF r
<1>5. stored \subseteq stored' /\ stored' \subseteq Msg
  BY <1>1, <1>2 DEF Found, TypeInv
<1>6. TypeInv'
  BY <1>1, <1>3, <1>4, <1>5 DEF TypeInv, world, Runs
<1>7. SliceEnd(x)' = SliceEnd(x)
  BY <1>3, <1>4 DEF SliceEnd
<1>8. ReadInv(x)'
  <2> SUFFICES ASSUME NEW m \in Msg, Required(m, version), born[m] < run[x].at - Overlap
               PROVE  /\ born[m] < run[x].t => m \in stored'
                      /\ \A p \in Queries[run[x].set] \ (run[x].left \ {q}) :
                            m \in p /\ run[x].t <= born[m] /\ born[m] <= SliceEnd(x) => m \in stored'
    BY <1>1, <1>3, <1>4, <1>7 DEF ReadInv, world, Required, Wanted
  <2>1. /\ born[m] < run[x].t => m \in stored
        /\ \A p \in Queries[run[x].set] \ run[x].left :
              m \in p /\ run[x].t <= born[m] /\ born[m] <= SliceEnd(x) => m \in stored
    BY <1>1 DEF ReadInv
  <2>2. m \in visible /\ Since[m] <= version
    <3>1. born[m] \in Nat /\ born[m] # Never /\ Since[m] <= version
      BY <1>1 DEF Required
    <3>2. ~(now <= born[m] + Lateness)
      BY <1>1, <3>1
    <3> QED  BY <1>1, <3>1, <3>2 DEF ClockInv
  <2>3. m \in q /\ run[x].t <= born[m] /\ born[m] <= SliceEnd(x) => m \in stored'
    BY <1>2, <2>2 DEF Found
  <2> QED  BY <1>5, <2>1, <2>3
<1>9. run'[x].at <= now /\ pc' = [pc EXCEPT ![x] = pc'[x]] /\ run' = [run EXCEPT ![x] = run'[x]]
  BY <1>1, <1>3, <1>4 DEF TypeInv
<1> QED  BY <1>1, <1>5, <1>6, <1>8, <1>9, RunStep

\* The slice is read to its end: whatever another run did with the point reached meanwhile,
\* all before the end of this slice, less the overlap, is stored.
LEMMA MarkOkInv == ASSUME PollInv, NEW x \in Runner, MarkOk(x) PROVE PollInv'
<1>1. /\ TypeInv /\ ClockInv /\ UNCHANGED <<now, world, version, stored, names, used>>
      /\ now \in Nat /\ Overlap \in Nat /\ run[x].left = {}
      /\ run[x].at <= now /\ run[x].at \in Int /\ ReadInv(x) /\ pc[x] = "slice"
      /\ \A m \in Msg : born[m] # Never => born[m] \in Nat
      /\ polled' = SliceEnd(x) /\ parser' = version /\ run[x].set \in Setting /\ run[x].t \in Int
  BY TimeAssumption DEF MarkOk, Reached, PollInv, TypeInv, ClockInv
<1>2. SliceEnd(x) \in Int /\ SliceEnd(x) <= run[x].at
  BY <1>1, SliceEndKnown
<1> DEFINE r == [run[x] EXCEPT !.t = SliceEnd(x), !.left = Queries[run[x].set]]
<1>3. run' = [run EXCEPT ![x] = r]
  BY <1>1 DEF MarkOk, TypeInv
<1>4. PICK at \in {"slice", "correlate"} : pc' = [pc EXCEPT ![x] = at]
  BY DEF MarkOk, Goto
<1>5. Queries[run[x].set] \in SUBSET SUBSET Msg
  BY <1>1, MessageAssumption
<1>6. /\ r \in Runs /\ r.at = run[x].at /\ r.t = SliceEnd(x) /\ r.set = run[x].set
      /\ r.left = Queries[r.set]
  BY <1>1, <1>2, <1>5, ZenonT(60) DEF TypeInv, Runs
<1> HIDE DEF r
<1>7. ASSUME NEW m \in Msg, Required(m, version), born[m] < run[x].at - Overlap, born[m] <= SliceEnd(x)
      PROVE  m \in stored
  <2>1. born[m] \in Nat
    BY <1>1, <1>7 DEF Required
  <2>2. PICK q \in Queries[run[x].set] : m \in q
    BY <1>1, <1>7 DEF Required, Wanted
  <2>3. born[m] < run[x].t \/ run[x].t <= born[m]
    BY <1>1, <2>1
  <2> QED  BY <1>1, <1>7, <2>2, <2>3 DEF ReadInv
<1>8. TypeInv'
  <2>1. run' \in [Runner -> Runs]
    BY <1>1, <1>3, <1>6 DEF TypeInv, Runs
  <2>2. pc' \in [Runner -> {"idle", "reset", "begin", "slice", "correlate", "save", "purge", "dead"}]
    BY <1>1, <1>4 DEF TypeInv
  <2>3. polled' \in Int /\ parser' \in Nat
    BY <1>1, <1>2 DEF TypeInv
  <2> QED  BY <1>1, <2>1, <2>2, <2>3 DEF TypeInv, world, Runs
<1>9. /\ run'[x] = r /\ pc'[x] = at
      /\ pc' = [pc EXCEPT ![x] = pc'[x]] /\ run' = [run EXCEPT ![x] = run'[x]]
  BY <1>1, <1>3, <1>4 DEF TypeInv
<1>10. ReadInv(x)'
  <2> SUFFICES ASSUME NEW m \in Msg, Required(m, version), born[m] < run[x].at - Overlap,
                      born[m] < SliceEnd(x)
               PROVE  m \in stored
    BY <1>1, <1>6, <1>9 DEF ReadInv, world, Required, Wanted
  <2>1. born[m] <= SliceEnd(x)
    BY <1>1, <1>2 DEF Required
  <2> QED  BY <1>7, <2>1
<1>11. NothingMissed'
  <2> SUFFICES ASSUME NEW m \in Msg, Required(m, version), born[m] < SliceEnd(x) - Overlap
               PROVE  m \in stored
    BY <1>1 DEF NothingMissed, world, Required, Wanted
  <2>1. born[m] \in Nat
    BY <1>1 DEF Required
  <2>2. born[m] < run[x].at - Overlap /\ born[m] <= SliceEnd(x)
    BY <1>1, <1>2, <2>1
  <2> QED  BY <1>7, <2>2
<1>12. polled' <= now /\ run'[x].at <= now
  BY <1>1, <1>2, <1>6, <1>9
<1> QED  BY <1>1, <1>8, <1>9, <1>10, <1>11, <1>12, RunStep

\* A run that begins, or ends: nothing it has read counts any more.
LEMMA IdleStep ==
    ASSUME PollInv, NEW x \in Runner, UNCHANGED <<now, world, version>>,
           NEW r \in Runs, r.at <= now, run' = [run EXCEPT ![x] = r],
           NEW at \in {"idle", "reset", "begin", "correlate", "save", "purge", "dead"}, pc' = [pc EXCEPT ![x] = at],
           stored' \subseteq stored,
           \A m \in stored : born[m] # Never /\ now - MaxCatchup <= born[m] => m \in stored',
           names' \in [Opaque -> User \cup {NoUser}],
           parser' = parser, polled' = polled \/ polled' = Never
    PROVE  PollInv'
<1>1. TypeInv /\ ClockInv
  BY DEF PollInv
<1>2. run' \in [Runner -> Runs]
  BY <1>1 DEF TypeInv, Runs
<1>3. pc' \in [Runner -> {"idle", "reset", "begin", "slice", "correlate", "save", "purge", "dead"}]
  BY <1>1 DEF TypeInv
<1>4. TypeInv'
  BY <1>1, <1>2, <1>3 DEF TypeInv, world, Runs
<1>5. /\ run'[x] = r /\ pc'[x] = at
      /\ pc' = [pc EXCEPT ![x] = pc'[x]] /\ run' = [run EXCEPT ![x] = run'[x]]
  BY <1>1 DEF TypeInv
<1>6. ReadInv(x)'
  BY <1>5 DEF ReadInv
<1>7. UNCHANGED <<polled, parser>> \/ (NothingMissed' /\ (polled' # Never => polled' <= now))
  <2>1. CASE polled' = Never
    BY <2>1 DEF NothingMissed
  <2> QED  BY <2>1
<1>8. run'[x].at <= now
  BY <1>5
<1> QED  BY <1>4, <1>5, <1>6, <1>7, <1>8, RunStep

\* The task wakes up.
LEMMA TaskStartInv == ASSUME PollInv, NEW x \in Runner, TaskStart(x) PROVE PollInv'
<1>1. /\ TypeInv /\ UNCHANGED <<now, world, version, stored, names, polled, parser>> /\ now \in Nat
      /\ setting \in Setting /\ names \in [Opaque -> User \cup {NoUser}]
  BY DEF PollInv, TypeInv, TaskStart, table
<1> DEFINE r == [Blank EXCEPT !.at = now, !.set = setting]
<1>2. r \in Runs /\ r.at <= now
  <2>1. ASSUME NEW b \in Runs PROVE /\ [b EXCEPT !.at = now, !.set = setting] \in Runs
                                   /\ [b EXCEPT !.at = now, !.set = setting].at = now
    <3> DEFINE c == [b EXCEPT !.at = now]
    <3>1. c \in Runs /\ c.at = now
      BY <1>1, <2>1 DEF Runs
    <3>2. [b EXCEPT !.at = now, !.set = setting] = [c EXCEPT !.set = setting]
      BY <2>1 DEF Runs
    <3> HIDE DEF c
    <3>3. [c EXCEPT !.set = setting] \in Runs /\ [c EXCEPT !.set = setting].at = now
      BY <1>1, <3>1 DEF Runs
    <3> QED  BY <3>2, <3>3
  <2>2. r \in Runs /\ r.at = now
    BY <1>1, <2>1, BlankTyped
  <2> QED  BY <1>1, <2>2
<1>3. run' = [run EXCEPT ![x] = r] /\ pc' = [pc EXCEPT ![x] = "begin"]
  BY DEF TaskStart, Goto
<1> HIDE DEF r
<1> QED  BY <1>1, <1>2, <1>3, IdleStep

\* A reload is asked for.
LEMMA ReloadStartInv == ASSUME PollInv, NEW x \in Runner, ReloadStart(x) PROVE PollInv'
<1>1. /\ TypeInv /\ UNCHANGED <<now, world, version, stored, names, polled, parser>> /\ now \in Nat
      /\ setting \in Setting /\ names \in [Opaque -> User \cup {NoUser}]
  BY DEF PollInv, TypeInv, ReloadStart, table
<1> DEFINE r == [Blank EXCEPT !.set = setting]
<1>2. r \in Runs /\ r.at <= now
  BY <1>1, BlankTyped DEF Runs
<1>3. run' = [run EXCEPT ![x] = r] /\ pc' = [pc EXCEPT ![x] = "reset"]
  BY DEF ReloadStart, Goto
<1> HIDE DEF r
<1> QED  BY <1>1, <1>2, <1>3, IdleStep

\* After the reset nothing is promised: the next run reads MaxCatchup back.
LEMMA ResetInv == ASSUME PollInv, NEW x \in Runner, Reset(x) PROVE PollInv'
<1>1. /\ TypeInv /\ UNCHANGED <<now, world, version, stored, names, parser>> /\ now \in Nat
      /\ polled' = Never /\ names \in [Opaque -> User \cup {NoUser}]
  BY DEF PollInv, TypeInv, Reset
<1> DEFINE r == [run[x] EXCEPT !.at = now]
<1>2. r \in Runs /\ r.at <= now
  BY <1>1 DEF Runs, TypeInv
<1>3. run' = [run EXCEPT ![x] = r] /\ pc' = [pc EXCEPT ![x] = "begin"]
  BY <1>1 DEF Reset, Goto, TypeInv
<1> HIDE DEF r
<1> QED  BY <1>1, <1>2, <1>3, IdleStep

\* A run that fails keeps what it stored; the point stays.
LEMMA FailInv == ASSUME PollInv, NEW x \in Runner, Fail(x) PROVE PollInv'
<1>1. /\ TypeInv /\ UNCHANGED <<now, world, version, stored, names, polled, parser>> /\ now \in Nat
      /\ setting \in Setting /\ names \in [Opaque -> User \cup {NoUser}]
  BY DEF PollInv, TypeInv, Fail
<1>2. Blank \in Runs /\ Blank.at <= now
  BY <1>1, BlankTyped
<1>3. run' = [run EXCEPT ![x] = Blank] /\ pc' = [pc EXCEPT ![x] = "idle"]
  BY DEF Fail, Goto
<1> QED  BY <1>1, <1>2, <1>3, IdleStep

\* A task that dies runs no more.
LEMMA DieInv == ASSUME PollInv, NEW x \in Runner, Die(x) PROVE PollInv'
<1>1. /\ TypeInv /\ ClockInv /\ UNCHANGED <<now, world, version, stored, names, polled, parser>>
      /\ run[x] \in Runs /\ run[x].at <= now /\ names \in [Opaque -> User \cup {NoUser}]
  BY DEF PollInv, TypeInv, ClockInv, Die, table, Runs
<1>2. run' = [run EXCEPT ![x] = run[x]] /\ pc' = [pc EXCEPT ![x] = "dead"]
  BY <1>1 DEF Die, Goto, TypeInv
<1> QED  BY <1>1, <1>2, IdleStep

\* The correlation reads what is stored.
LEMMA CorrelateInv == ASSUME PollInv, NEW x \in Runner, Correlate(x) PROVE PollInv'
<1>1. /\ TypeInv /\ ClockInv /\ UNCHANGED <<now, world, version, stored, names, polled, parser>>
      /\ names \in [Opaque -> User \cup {NoUser}] /\ run[x].at <= now
  BY DEF PollInv, TypeInv, ClockInv, Correlate, table
<1>2. \A evs, known : \A c \in Choices(Proven(evs, known)) : c \subseteq User \X Opaque
  BY DEF Choices, Proven
<1>3. PICK c \in SUBSET (User \X Opaque) : run' = [run EXCEPT ![x].new = c]
  BY <1>2 DEF Correlate
<1> DEFINE r == [run[x] EXCEPT !.new = c]
<1>4. r \in Runs /\ r.at = run[x].at
  BY <1>1 DEF Runs, TypeInv
<1>5. run' = [run EXCEPT ![x] = r] /\ pc' = [pc EXCEPT ![x] = "save"]
  BY <1>1, <1>3 DEF Correlate, Goto, TypeInv
<1>6. r.at <= now
  BY <1>1, <1>4
<1> HIDE DEF r
<1> QED  BY <1>1, <1>4, <1>5, <1>6, IdleStep

\* Names are stored beside the events.
LEMMA SaveNamesInv == ASSUME PollInv, NEW x \in Runner, SaveNames(x) PROVE PollInv'
<1>1. /\ TypeInv /\ ClockInv /\ UNCHANGED <<now, world, version, stored, polled, parser, run>>
      /\ names \in [Opaque -> User \cup {NoUser}] /\ run[x].at <= now
      /\ run[x].new \subseteq User \X Opaque /\ run[x] \in Runs
  BY DEF PollInv, TypeInv, ClockInv, SaveNames, Runs
<1>2. names' \in [Opaque -> User \cup {NoUser}]
  <2>1. ASSUME NEW o \in Opaque, \E p \in run[x].new : p[2] = o
        PROVE  (CHOOSE p \in run[x].new : p[2] = o)[1] \in User
    <3>1. (CHOOSE p \in run[x].new : p[2] = o) \in User \X Opaque
      BY <1>1, <2>1
    <3> QED  BY <3>1
  <2> QED  BY <1>1, <2>1 DEF SaveNames
<1>3. run' = [run EXCEPT ![x] = run[x]] /\ pc' = [pc EXCEPT ![x] = "purge"]
  BY <1>1 DEF SaveNames, Goto, TypeInv
<1> QED  BY <1>1, <1>2, <1>3, IdleStep

\* The purge takes nothing a run may still be asked for.
LEMMA PurgeInv == ASSUME PollInv, NEW x \in Runner, Purge(x) PROVE PollInv'
<1>1. /\ TypeInv /\ UNCHANGED <<now, world, version, names, polled, parser>> /\ now \in Nat
      /\ setting \in Setting /\ names \in [Opaque -> User \cup {NoUser}] /\ stored \subseteq Msg
      /\ Retention \in Nat /\ MaxCatchup \in Nat /\ Retention >= MaxCatchup
      /\ \A m \in Msg : born[m] # Never => born[m] \in Nat
  BY TimeAssumption DEF PollInv, TypeInv, Purge
<1>2. Blank \in Runs /\ Blank.at <= now
  BY <1>1, BlankTyped
<1>3. run' = [run EXCEPT ![x] = Blank] /\ pc' = [pc EXCEPT ![x] = "idle"]
  BY DEF Purge, Goto
<1>4. /\ stored' \subseteq stored
      /\ \A m \in stored : born[m] # Never /\ now - MaxCatchup <= born[m] => m \in stored'
  BY <1>1 DEF Purge
<1> QED  BY <1>1, <1>2, <1>3, <1>4, IdleStep

\* A message is written now, so no run has passed it.
LEMMA WriteInv == ASSUME PollInv, Write PROVE PollInv'
<1>1. /\ TypeInv /\ ClockInv /\ NothingMissed /\ now \in Nat /\ Overlap \in Nat /\ Lateness \in Nat
      /\ UNCHANGED <<now, visible, setting, version, stored, names, polled, parser, pc, run>>
  BY TimeAssumption DEF PollInv, TypeInv, Write, table
<1>2. PICK n \in Msg : born[n] = Never /\ born' = [born EXCEPT ![n] = now]
  BY DEF Write
<1>3. /\ \A m \in Msg : m # n => born'[m] = born[m]
      /\ born'[n] = now /\ born' \in [Msg -> Nat \cup {Never}]
  BY <1>1, <1>2 DEF TypeInv
<1>4. TypeInv'
  BY <1>1, <1>3 DEF TypeInv
<1>5. ClockInv'
  BY <1>1, <1>3 DEF ClockInv
<1>6. NothingMissed'
  <2>1. polled # Never => polled \in Int /\ polled <= now
    BY <1>1 DEF TypeInv, ClockInv
  <2> QED  BY <1>1, <1>3, <2>1 DEF NothingMissed, Wanted
<1>7. ASSUME NEW x \in Runner PROVE ReadInv(x)'
  <2>1. run[x].at \in Int /\ run[x].at <= now /\ ReadInv(x) /\ SliceEnd(x)' = SliceEnd(x)
    BY <1>1 DEF PollInv, TypeInv, ClockInv, SliceEnd
  <2>2. ~(born'[n] < run[x].at - Overlap)
    BY <1>1, <1>3, <2>1
  <2>3. \A m \in Msg : m # n /\ Required(m, version)' => Required(m, version)
    BY <1>1, <1>3 DEF Required, Wanted
  <2> QED  BY <1>1, <1>3, <2>1, <2>2, <2>3 DEF ReadInv
<1> QED  BY <1>4, <1>5, <1>6, <1>7 DEF PollInv

\* A line comes to Graylog.
LEMMA ArriveInv == ASSUME PollInv, Arrive PROVE PollInv'
<1>1. /\ TypeInv /\ ClockInv /\ NothingMissed
      /\ UNCHANGED <<now, born, setting, version, stored, names, polled, parser, pc, run>>
      /\ visible' \subseteq Msg /\ visible \subseteq visible'
  BY DEF PollInv, TypeInv, Arrive, table
<1>2. TypeInv'
  BY <1>1 DEF TypeInv
<1>3. ClockInv'
  BY <1>1 DEF ClockInv
<1>4. NothingMissed'
  BY <1>1 DEF NothingMissed, Wanted
<1>5. \A x \in Runner : ReadInv(x)'
  BY <1>1 DEF PollInv, ReadInv, Required, Wanted, SliceEnd
<1> QED  BY <1>2, <1>3, <1>4, <1>5 DEF PollInv

\* Time passes: less is required, and no message becomes later than Lateness.
LEMMA TickInv == ASSUME PollInv, Tick PROVE PollInv'
<1>1. /\ TypeInv /\ ClockInv /\ NothingMissed /\ now \in Nat /\ now' = now + 1 /\ Lateness \in Nat
      /\ UNCHANGED <<born, visible, setting, version, stored, names, polled, parser, pc, run>>
      /\ MaxCatchup \in Nat /\ \A m \in Msg : born[m] # Never => born[m] \in Nat
  BY TimeAssumption DEF PollInv, TypeInv, Tick, table, world
<1>2. TypeInv'
  BY <1>1 DEF TypeInv
<1>3. ClockInv'
  <2>1. \A m \in Msg : born[m] # Never /\ m \notin visible => now + 1 <= born[m] + Lateness
    BY <1>1 DEF Tick
  <2>2. /\ polled # Never => polled \in Int /\ polled <= now
        /\ \A x \in Runner : run[x].at \in Int /\ run[x].at <= now
        /\ \A m \in Msg : born[m] # Never => born[m] <= now
    BY <1>1 DEF TypeInv, ClockInv
  <2> QED  BY <1>1, <2>1, <2>2 DEF ClockInv
<1>4. NothingMissed'
  BY <1>1 DEF NothingMissed, Wanted
<1>5. ASSUME NEW x \in Runner PROVE ReadInv(x)'
  <2>1. ReadInv(x) /\ SliceEnd(x)' = SliceEnd(x)
    BY <1>1 DEF PollInv, SliceEnd
  <2>2. \A m \in Msg : Required(m, version)' => Required(m, version)
    BY <1>1 DEF Required, Wanted
  <2> QED  BY <1>1, <2>1, <2>2 DEF ReadInv
<1> QED  BY <1>2, <1>3, <1>4, <1>5 DEF PollInv

\* The queries are regrouped; runs under way keep theirs.
LEMMA ChangeSettingInv == ASSUME PollInv, ChangeSetting PROVE PollInv'
<1>1. /\ TypeInv /\ ClockInv /\ NothingMissed /\ setting' \in Setting
      /\ UNCHANGED <<now, born, visible, version, stored, names, polled, parser, pc, run>>
  BY DEF PollInv, ChangeSetting, table
<1>2. TypeInv'
  BY <1>1 DEF TypeInv
<1>3. ClockInv'
  BY <1>1 DEF ClockInv
<1>4. NothingMissed'
  BY <1>1 DEF NothingMissed, Wanted
<1>5. \A x \in Runner : ReadInv(x)'
  BY <1>1 DEF PollInv, ReadInv, Required, Wanted, SliceEnd
<1> QED  BY <1>2, <1>3, <1>4, <1>5 DEF PollInv

\* After a restart only the table is left, and what it promises it holds.
LEMMA RestartInv == ASSUME PollInv, Restart PROVE PollInv'
<1>1. /\ TypeInv /\ ClockInv /\ NothingMissed /\ now \in Nat /\ setting \in Setting /\ version \in Nat
      /\ UNCHANGED <<now, born, visible, setting, stored, names, polled, parser>>
  BY DEF PollInv, TypeInv, Restart, table, world
<1>2. Blank \in Runs /\ Blank.at = 0
  BY <1>1, BlankTyped
<1>3. version' \in Nat
  BY <1>1, TimeAssumption DEF Restart
<1>4. pc' = [x \in Runner |-> "idle"] /\ run' = [x \in Runner |-> Blank]
  BY DEF Restart
<1>5. TypeInv'
  BY <1>1, <1>2, <1>3, <1>4 DEF TypeInv, Runs
<1>6. ClockInv'
  BY <1>1, <1>2, <1>4 DEF ClockInv
<1>7. NothingMissed'
  BY <1>1 DEF NothingMissed, Wanted
<1>8. \A x \in Runner : ReadInv(x)'
  BY <1>4 DEF ReadInv
<1> QED  BY <1>5, <1>6, <1>7, <1>8 DEF PollInv

\* Nothing changes without a step.
LEMMA StutterInv == ASSUME PollInv, UNCHANGED vars PROVE PollInv'
<1>1. UNCHANGED <<now, born, visible, setting, version, stored, names, polled, parser, pc, run>>
  BY DEF vars, world, table
<1>2. TypeInv' /\ ClockInv' /\ NothingMissed'
  BY <1>1 DEF PollInv, TypeInv, ClockInv, NothingMissed, Wanted
<1>3. \A x \in Runner : ReadInv(x)'
  BY <1>1 DEF PollInv, ReadInv, Required, Wanted, SliceEnd
<1> QED  BY <1>2, <1>3 DEF PollInv

\* The inductive invariant holds whatever runs overlap: each run has stored what lies
\* before the place it has come to.
THEOREM Inductive == Spec => []PollInv
<1>1. Init => PollInv
  BY Initial
<1>2. PollInv /\ [Next]_vars => PollInv'
  <2> SUFFICES ASSUME PollInv, [Next]_vars PROVE PollInv'
    OBVIOUS
  <2>1. ASSUME NEW x \in Runner, Step(x) PROVE PollInv'
    BY <2>1, TaskStartInv, ReloadStartInv, ResetInv, BeginInv, SearchInv, MarkOkInv, FailInv, DieInv,
       CorrelateInv, SaveNamesInv, PurgeInv DEF Step
  <2> QED  BY <2>1, WriteInv, ArriveInv, TickInv, ChangeSettingInv, RestartInv, StutterInv DEF Next
<1> QED  BY <1>1, <1>2, PTL DEF Spec

\* No event is lost: what was written before the point the poll has reached, less its
\* overlap, is stored if the parser that read it knows it, for any number of tasks and
\* reload requests that overtake each other, late messages, failures and restarts.
THEOREM NoEventLost == Spec => []NothingMissed
<1>1. PollInv => NothingMissed
  BY DEF PollInv
<1> QED  BY <1>1, Inductive, PTL
=============================================================================
