--------------------------- MODULE DataSaverProofs ---------------------------
(***************************************************************************)
(* Proofs about DataSaver, for every number of messages, batch size,       *)
(* assignment of symbols and intervals, and every sequence of faults: its  *)
(* types and the bound of the batch; that it loses track of no record      *)
(* (Accounted, SavedInKlines, the refinement of RecordSink, LossHasCause); *)
(* and what its id caches promise (CacheBacked, NoUpsertCycle).            *)
(*                                                                         *)
(* Accounted is not inductive by itself.  That a flush may overwrite       *)
(* job["main"] or job["periodic"] relies on the call before it having      *)
(* ended, and the order of the queues on the batch being empty while main  *)
(* flushes: Control says where each task can be.  That a published message *)
(* is newer than all others relies on Numbered.                            *)
(*                                                                         *)
(* LossHasCause: with the symbol and interval rows in place, every id in   *)
(* use is committed (Backed), so no foreign key check fails, and a task    *)
(* leaves its loop only after a fault or a deadlock of the two flushes     *)
(* (Reasons), which leaves the records of one of them "deadlocked".        *)
(*                                                                         *)
(* NoUpsertCycle: a task asks only for a name that is not cached, and what *)
(* the other task holds is cached (Remembered).  CacheBacked needs the     *)
(* process to start with an empty cache (Fresh).                           *)
(***************************************************************************)
EXTENDS DataSaver,
        SequenceTheorems, FiniteSetTheorems, WellFoundedInduction, TLAPS

\* A batch asks for a symbol and an interval name per record.
LEMMA NamesForType ==
  ASSUME NEW recs \in Seq(Msgs)
  PROVE  NamesFor(recs) \in Seq(Names)
<1>1. Len(recs) \in Nat
  OBVIOUS
<1>2. ASSUME NEW i \in 1..(2 * Len(recs))
      PROVE  LET c == CandleOf[recs[(i + 1) \div 2]]
             IN  (IF i % 2 = 1 THEN SymbolOf[c] ELSE IntervalOf[c]) \in Names
  <2>1. (i + 1) \div 2 \in 1..Len(recs)
    BY <1>1
  <2>2. recs[(i + 1) \div 2] \in Msgs
    BY <2>1
  <2>3. CandleOf[recs[(i + 1) \div 2]] \in Candles
    BY <2>2 DEF Candles
  <2> QED
    BY <2>3 DEF Names
<1>3. 2 * Len(recs) \in Nat
  BY <1>1
<1> QED
  BY <1>2, <1>3 DEF NamesFor

LEMMA NoJobType == NoJob \in Jobs
BY DEF NoJob, Jobs, Stages, Checking

LEMMA NewJobType ==
  ASSUME NEW recs \in Seq(Msgs)
  PROVE  NewJob(recs) \in Jobs
<1> DEFINE todo == NamesFor(recs)
           j == [NoJob EXCEPT !.stage = "begin", !.recs = recs, !.todo = todo]
<1>1. NewJob(recs) = j
  BY DEF NewJob
<1>2. todo \in Seq(Names) /\ 0 <= Len(recs)
  BY NamesForType
<1>3. NoJob \in Jobs /\ NoJob.at = 0
  BY NoJobType DEF NoJob
<1> HIDE DEF todo
<1>4. j \in Jobs
  BY <1>2, <1>3 DEF Jobs, Stages, Checking
<1> QED
  BY <1>1, <1>4

\* The known names at the head of the list are no more than the list, so a
\* lookup run stays within it and yields a job again; the records and the rows
\* upserted so far are untouched.
LEMMA AdvanceType ==
  ASSUME NEW j \in Jobs, NEW c, c \subseteq Rows
  PROVE  /\ Advance(j, c) \in Jobs
         /\ Advance(j, c).stage \in {"resolve", "insert"}
         /\ Advance(j, c).recs = j.recs
         /\ Advance(j, c).held = j.held
<1> DEFINE hits == {i \in DOMAIN j.todo :
                      \A k \in 1..i : j.todo[k] \in NamesIn(c)}
           done == Cardinality(hits)
           got  == {j.todo[i] : i \in hits}
           used == {row \in c : row[1] \in got}
<1>1. j.todo \in Seq(Names) /\ j.used \subseteq Rows
  BY DEF Jobs
<1>2. done \in 0..Len(j.todo)
  <2>1. Len(j.todo) \in Nat /\ DOMAIN j.todo = 1..Len(j.todo)
    BY <1>1
  <2>2. /\ IsFiniteSet(1..Len(j.todo))
        /\ Cardinality(1..Len(j.todo)) = Len(j.todo)
    BY <2>1, FS_Interval
  <2>3. hits \in SUBSET (1..Len(j.todo))
    BY <2>1
  <2>4. IsFiniteSet(hits) /\ done <= Len(j.todo)
    BY <2>2, <2>3, FS_Subset
  <2>5. done \in Nat
    BY <2>4, FS_CardinalityType
  <2> QED
    BY <2>1, <2>4, <2>5
<1>3. /\ SubSeq(j.todo, done + 1, Len(j.todo)) \in Seq(Names)
      /\ done /= Len(j.todo) => SubSeq(j.todo, done + 1, Len(j.todo)) /= <<>>
  <2> HIDE DEF done
  <2>1. \A i \in (done + 1)..Len(j.todo) : j.todo[i] \in Names
    BY <1>1, <1>2
  <2>2. done + 1 \in Int /\ Len(j.todo) \in Int
    BY <1>1, <1>2
  <2>3. /\ SubSeq(j.todo, done + 1, Len(j.todo)) \in Seq(Names)
        /\ Len(SubSeq(j.todo, done + 1, Len(j.todo))) =
             IF done + 1 <= Len(j.todo) THEN Len(j.todo) - (done + 1) + 1 ELSE 0
    BY <2>1, <2>2, SubSeqProperties
  <2> DEFINE rest == SubSeq(j.todo, done + 1, Len(j.todo))
  <2>4. rest \in Seq(Names) /\ (done /= Len(j.todo) => Len(rest) >= 1)
    BY <1>2, <2>2, <2>3
  <2> HIDE DEF rest
  <2>5. done /= Len(j.todo) => rest /= <<>>
    BY <2>4
  <2> QED
    BY <2>4, <2>5 DEF rest
<1>4. used \subseteq Rows
  OBVIOUS
<1>5. Advance(j, c) =
        [j EXCEPT !.stage = IF done = Len(j.todo) THEN "insert" ELSE "resolve",
                  !.todo  = SubSeq(j.todo, done + 1, Len(j.todo)),
                  !.used  = @ \cup used]
  BY DEF Advance, Dictionary
<1> DEFINE stage == IF done = Len(j.todo) THEN "insert" ELSE "resolve"
           todo  == SubSeq(j.todo, done + 1, Len(j.todo))
           a     == [j EXCEPT !.stage = stage, !.todo = todo, !.used = @ \cup used]
<1>6. /\ Advance(j, c) = a
      /\ stage \in {"insert", "resolve"}
      /\ stage = "resolve" => todo /= <<>>
      /\ todo \in Seq(Names)
  BY <1>3, <1>5
<1> HIDE DEF hits, done, got, used, stage, todo
<1>7. /\ a.stage = stage /\ a.todo = todo /\ a.used = j.used \cup used
      /\ a.recs = j.recs /\ a.held = j.held /\ a.at = j.at /\ a.shared = j.shared
  BY DEF Jobs
<1>8. a \in Jobs
  BY <1>4, <1>6 DEF Jobs, Stages, Checking
<1> QED
  BY <1>3, <1>4, <1>6, <1>7, <1>8

-----------------------------------------------------------------------------
\* What a queue holds after Append and before Tail.
LEMMA RangeEmpty == Range(<<>>) = {}
BY DEF Range

LEMMA RangeAppend ==
  ASSUME NEW S, NEW s \in Seq(S), NEW x \in S
  PROVE  Range(Append(s, x)) = Range(s) \cup {x}
BY AppendProperties DEF Range

LEMMA RangeHeadTail ==
  ASSUME NEW S, NEW s \in Seq(S), s /= <<>>
  PROVE  Range(s) = {Head(s)} \cup Range(Tail(s))
<1>1. /\ <<Head(s)>> \in Seq(S) /\ Tail(s) \in Seq(S)
      /\ s = <<Head(s)>> \o Tail(s)
  BY HeadTailProperties
<1>2. DOMAIN <<Head(s)>> = {1}
  OBVIOUS
<1>3. Range(<<Head(s)>>) = {Head(s)}
  BY <1>2 DEF Range
<1>4. Range(<<Head(s)>> \o Tail(s)) = Range(<<Head(s)>>) \cup Range(Tail(s))
  BY <1>1, RangeConcatenation
<1> QED
  BY <1>1, <1>3, <1>4

\* A set of numbers has a least element.
LEMMA NatSetMin ==
  ASSUME NEW T \in SUBSET Nat, T /= {}
  PROVE  \E m \in T : \A k \in T : m <= k
<1> DEFINE U == {0..k : k \in T}
<1>1. U \subseteq FiniteSubsetsOf(Nat) /\ U /= {}
  <2> SUFFICES ASSUME NEW k \in T
               PROVE  0..k \in SUBSET Nat /\ IsFiniteSet(0..k)
    BY DEF FiniteSubsetsOf
  <2> QED
    BY FS_Interval
<1>2. PICK x \in U : \A y \in U : <<y, x>> \notin StrictSubsetOrdering(Nat)
  <2> HIDE DEF U
  <2> QED
    BY <1>1, FS_StrictSubsetOrderingWellFounded, WFMin
<1>3. PICK m \in T : x = 0..m
  OBVIOUS
<1>4. ASSUME NEW k \in T, k < m
      PROVE  <<0..k, 0..m>> \in StrictSubsetOrdering(Nat)
  BY <1>4 DEF StrictSubsetOrdering
<1>5. \A k \in T : ~(k < m)
  BY <1>2, <1>3, <1>4
<1> QED
  BY <1>5

-----------------------------------------------------------------------------
(* Type correctness. *)

LEMMA InitType == Init => Shape
<1> SUFFICES ASSUME Init PROVE Shape
  OBVIOUS
<1>1. Cardinality(SeedNames) \in Nat
  BY DataSaverAssumption, FS_CardinalityType
<1>2. dims \subseteq Rows
  <2>1. PICK ids \in [SeedNames -> 1..Cardinality(SeedNames)] :
           dims = {<<n, ids[n]>> : n \in SeedNames}
    BY DEF Init
  <2>2. \A n \in SeedNames : n \in Names /\ ids[n] \in Ids
    BY <1>1, <2>1, DataSaverAssumption DEF Ids
  <2> QED
    BY <2>1, <2>2 DEF Rows
<1>3. nextId \in Ids
  BY <1>1 DEF Init, Ids
<1>4. job \in [Tasks -> Jobs]
  BY NoJobType DEF Init
<1> QED
  BY <1>2, <1>3, <1>4, DataSaverAssumption DEF Init, Shape, Fates

LEMMA MarkType ==
  ASSUME Shape, NEW ms, NEW f \in Fates, Mark(ms, f)
  PROVE  fate' \in [Msgs -> Fates]
BY DEF Shape, Mark

LEMMA FaultType ==
  ASSUME Shape, NEW kind, Fault(kind)
  PROVE  faults' \in Seq(FaultKinds) /\ Len(faults') <= MaxFaults
BY DataSaverAssumption DEF Shape, Fault

LEMMA EndJobType ==
  ASSUME Shape, NEW t \in Tasks, NEW committed \in BOOLEAN,
         NEW loss \in Losses, EndJob(t, committed, loss)
  PROVE  /\ dims' \subseteq Rows
         /\ klines' \subseteq Candles
         /\ fate' \in [Msgs -> Fates]
         /\ job' \in [Tasks -> Jobs]
<1>1. job[t] \in Jobs
  BY DEF Shape
<1>2. job[t].recs \in Seq(Msgs) /\ job[t].held \subseteq Rows
  BY <1>1 DEF Jobs
<1>3. CandlesIn(job[t].recs) \subseteq Candles
  BY <1>2 DEF CandlesIn, Candles
<1>4. fate' \in [Msgs -> Fates]
  BY MarkType DEF EndJob, Fates
<1> QED
  BY <1>2, <1>3, <1>4, NoJobType DEF EndJob, Written, Shape

LEMMA ReturnType ==
  ASSUME Shape, NEW t \in Tasks, NEW ok \in BOOLEAN, Return(t, ok)
  PROVE  /\ main' \in {"down", "connecting", "listen", "sizeFlush", "stop",
                       "close", "closeFlush", "exit"}
         /\ periodic' \in {"off", "sleep", "flush", "failed"}
BY DEF Shape, Return, PeriodicAfter

LEMMA TakeBatchType ==
  ASSUME Shape, NEW t \in Tasks, NEW b \in Seq(Msgs), TakeBatch(t, b)
  PROVE  batch' \in Seq(Msgs) /\ job' \in [Tasks -> Jobs]
<1>1. NewJob(b) \in Jobs
  BY NewJobType
<1> QED
  BY <1>1 DEF Shape, TakeBatch

LEMMA BeginType ==
  ASSUME Shape, NEW t \in Tasks, Begin(t)
  PROVE  \E j \in Jobs : /\ job' = [job EXCEPT ![t] = j]
                         /\ j.stage /= "idle"
                         /\ j.recs = job[t].recs
BY AdvanceType DEF Begin, Shape

LEMMA ResolveType ==
  ASSUME Shape, NEW t \in Tasks, Resolve(t)
  PROVE  /\ cache' \subseteq Rows
         /\ nextId' \in Ids
         /\ \E j \in Jobs : /\ job' = [job EXCEPT ![t] = j]
                            /\ j.stage /= "idle"
                            /\ j.recs = job[t].recs
<1> DEFINE name  == Head(job[t].todo)
           known == {row \in dims : row[1] = name}
           rows  == IF known = {} THEN {<<name, nextId>>} ELSE known
           owner == [job[t] EXCEPT !.held = @ \cup rows]
<1>1. name \in Names
  BY HeadTailProperties DEF Resolve, Shape, Jobs
<1>2. rows \subseteq Rows
  BY <1>1 DEF Rows, Shape
<1>3. cache' \subseteq Rows /\ nextId' \in Ids
  BY <1>2 DEF Resolve, Shape, Ids
<1>4. owner \in Jobs /\ owner.recs = job[t].recs
  BY <1>2 DEF Shape, Jobs, Checking
<1>5. job' = [job EXCEPT ![t] = Advance(owner, cache')]
  BY DEF Resolve
<1> HIDE DEF owner
<1> QED
  BY <1>3, <1>4, <1>5, AdvanceType

LEMMA InsertType ==
  ASSUME Shape, NEW t \in Tasks, Insert(t)
  PROVE  \E j \in Jobs : /\ job' = [job EXCEPT ![t] = j]
                         /\ j.stage \in {"insert", "symbol"}
                         /\ j.recs = job[t].recs /\ j.held = job[t].held
                         /\ j.used = job[t].used
<1> DEFINE stage == IF CandleOf[job[t].recs[job[t].at + 1]] \in klines \cup Put(job[t])
                    THEN "insert" ELSE "symbol"
           j == [job[t] EXCEPT !.at = @ + 1, !.stage = stage]
<1>1. job[t] \in Jobs /\ job[t].stage = "insert" /\ job[t].at < Len(job[t].recs)
  BY DEF Insert, Shape
<1>2. job' = [job EXCEPT ![t] = j]
  BY <1>1 DEF Insert, Shape
<1>3. stage \in {"insert", "symbol"}
  OBVIOUS
<1>4. Len(job[t].recs) \in Nat /\ job[t].at \in Nat
  BY <1>1 DEF Jobs
<1>5. job[t].at + 1 \in Nat /\ job[t].at + 1 <= Len(job[t].recs) /\ job[t].at + 1 > 0
  BY <1>1, <1>4
<1> HIDE DEF stage
<1>6. j \in Jobs
  BY <1>1, <1>3, <1>5 DEF Jobs, Stages, Checking
<1>7. /\ j.stage = stage /\ j.recs = job[t].recs /\ j.held = job[t].held
      /\ j.used = job[t].used
  BY <1>1 DEF Jobs
<1> QED
  BY <1>2, <1>3, <1>6, <1>7

LEMMA CheckType ==
  ASSUME Shape, NEW t \in Tasks, Check(t)
  PROVE  \E j \in Jobs : /\ job' = [job EXCEPT ![t] = j]
                         /\ j.stage \in {"insert", "interval"}
                         /\ j.recs = job[t].recs /\ j.held = job[t].held
                         /\ j.used = job[t].used
<1> DEFINE stage == IF job[t].stage = "symbol" THEN "interval" ELSE "insert"
           j == [job[t] EXCEPT !.shared = @ \cup Referred(job[t]), !.stage = stage]
<1>1. job[t] \in Jobs /\ Checking(job[t])
  BY DEF Check, Shape
<1>2. job' = [job EXCEPT ![t] = j]
  BY <1>1 DEF Check, Shape
<1>3. Referred(job[t]) \subseteq Rows
  BY <1>1 DEF Referred, Jobs
<1>4. stage \in {"insert", "interval"}
  OBVIOUS
<1> HIDE DEF stage
<1>5. j \in Jobs
  BY <1>1, <1>3, <1>4 DEF Jobs, Stages, Checking
<1>6. /\ j.stage = stage /\ j.recs = job[t].recs /\ j.held = job[t].held
      /\ j.used = job[t].used
  BY <1>1 DEF Jobs
<1> QED
  BY <1>2, <1>4, <1>5, <1>6

\* The statements of a flush before its end.
Works(t) == Begin(t) \/ Resolve(t) \/ Insert(t) \/ Check(t)

LEMMA WorksType ==
  ASSUME Shape, NEW t \in Tasks, Works(t)
  PROVE  \E j \in Jobs : /\ job' = [job EXCEPT ![t] = j]
                         /\ j.stage /= "idle"
                         /\ j.recs = job[t].recs
<1>1. CASE Begin(t)
  BY <1>1, BeginType
<1>2. CASE Resolve(t)
  BY <1>2, ResolveType
<1>3. CASE Insert(t)
  BY <1>3, InsertType
<1>4. CASE Check(t)
  BY <1>4, CheckType
<1> QED
  BY <1>1, <1>2, <1>3, <1>4 DEF Works

LEMMA WorksLeaves ==
  ASSUME NEW t \in Tasks, Works(t)
  PROVE  /\ UNCHANGED <<published, inbox, batch, main, periodic, dims, klines,
                        fate, faults>>
         /\ job[t].stage /= "idle"
BY DEF Works, Begin, Resolve, Insert, Check, Checking, db

\* What the calls that end have in common.
Ends(t) == Commit(t) \/ Violate(t) \/ Deadlock(t) \/ DbError(t)

\* A task that waits is in a call.
LEMMA WaitingCalls ==
  ASSUME NEW t \in Tasks, Waits(t)
  PROVE  job[t].stage /= "idle"
BY DEF Waits, WaitsFor, Checking

LEMMA EndsByEndJob ==
  ASSUME NEW t \in Tasks, Ends(t)
  PROVE  /\ \E committed \in BOOLEAN, loss \in {"failed", "deadlocked"}, ok \in BOOLEAN :
              EndJob(t, committed, loss) /\ Return(t, ok)
         /\ UNCHANGED <<published, inbox, batch, cache, nextId>>
         /\ job[t].stage /= "idle"
<1>1. CASE Commit(t)
  BY <1>1 DEF Commit, CanCommit
<1>2. CASE Violate(t)
  BY <1>2 DEF Violate, Checking
<1>3. CASE Deadlock(t)
  BY <1>3, WaitingCalls DEF Deadlock
<1>4. CASE DbError(t)
  BY <1>4 DEF DbError
<1> QED
  BY <1>1, <1>2, <1>3, <1>4 DEF Ends

LEMMA NextIs ==
  ASSUME Next
  PROVE  \/ Publish \/ Subscribe \/ StartUp \/ Receive \/ FlushTimer
         \/ \E t \in Tasks : Works(t) \/ (Scheduled(t) /\ Ends(t))
         \/ ConnectError \/ ListenError \/ Interrupt
         \/ StopPeriodic \/ CancelPeriodic \/ Close \/ Exit \/ Crash
BY DEF Next, FlushStep, Works, Ends

LEMMA TypeStep == Shape /\ [Next]_vars => Shape'
<1> SUFFICES ASSUME Shape, [Next]_vars PROVE Shape'
  OBVIOUS
<1> USE DataSaverAssumption
<1>1. CASE Publish
  <2>1. published' \in 0..NumMsgs /\ published' \in Msgs
    BY <1>1 DEF Publish, Shape, Msgs
  <2>2. inbox' \in Seq(Msgs)
    BY <1>1, <2>1 DEF Publish, Shape
  <2>3. fate' \in [Msgs -> Fates]
    BY <1>1, MarkType DEF Publish, Fates, Losses
  <2> QED
    BY <1>1, <2>1, <2>2, <2>3 DEF Publish, Shape, db
<1>2. CASE Subscribe
  BY <1>2 DEF Subscribe, Shape, db
<1>3. CASE StartUp
  BY <1>3 DEF StartUp, Shape, db
<1>4. CASE Receive
  <2> DEFINE kept == IF AtMaxBatch(batch) THEN Tail(batch) ELSE batch
             new  == Append(kept, Head(inbox))
  <2>1. Head(inbox) \in Msgs /\ inbox' \in Seq(Msgs)
    BY <1>4 DEF Receive, Shape
  <2>2. AtMaxBatch(batch) => batch /= <<>>
    BY DEF AtMaxBatch, Shape
  <2>3. kept \in Seq(Msgs)
    BY <2>2 DEF Shape
  <2>4. new \in Seq(Msgs)
    BY <2>1, <2>3
  <2>5. /\ Mark(IF AtMaxBatch(batch) THEN {Head(batch)} ELSE {}, "overflow")
        /\ \/ TakeBatch("main", new) /\ main' = "sizeFlush"
           \/ batch' = new /\ UNCHANGED <<job, main>>
    BY <1>4 DEF Receive
  <2>6. fate' \in [Msgs -> Fates]
    BY <2>5, MarkType DEF Fates, Losses
  <2>7. batch' \in Seq(Msgs) /\ job' \in [Tasks -> Jobs]
    <3> HIDE DEF new
    <3>1. CASE TakeBatch("main", new)
      BY <2>4, <3>1, TakeBatchType DEF Tasks
    <3>2. CASE batch' = new /\ UNCHANGED <<job, main>>
      BY <2>4, <3>2 DEF Shape
    <3> QED
      BY <2>5, <3>1, <3>2
  <2> HIDE DEF new
  <2> QED
    BY <1>4, <2>1, <2>5, <2>6, <2>7 DEF Receive, Shape, db
<1>5. CASE FlushTimer
  <2>1. CASE TakeBatch("periodic", batch) /\ periodic' = "flush"
    <3>1. batch' \in Seq(Msgs) /\ job' \in [Tasks -> Jobs]
      BY <2>1, TakeBatchType DEF Shape, Tasks
    <3> QED
      BY <1>5, <2>1, <3>1 DEF FlushTimer, Shape, db
  <2>2. CASE UNCHANGED <<job, batch, periodic>>
    BY <1>5, <2>2 DEF FlushTimer, Shape, db
  <2> QED
    BY <1>5, <2>1, <2>2 DEF FlushTimer
<1>6. ASSUME NEW t \in Tasks, Works(t)
      PROVE  Shape'
  <2>1. job' \in [Tasks -> Jobs]
    BY <1>6, WorksType DEF Shape
  <2>2. cache' \subseteq Rows /\ nextId' \in Ids
    <3>1. CASE Resolve(t)
      BY <3>1, ResolveType
    <3>2. CASE ~Resolve(t)
      BY <1>6, <3>2 DEF Works, Begin, Insert, Check, Shape, db
    <3> QED
      BY <3>1, <3>2
  <2> QED
    BY <1>6, <2>1, <2>2, WorksLeaves DEF Shape
<1>7. ASSUME NEW t \in Tasks, Ends(t)
      PROVE  Shape'
  <2>1. PICK committed \in BOOLEAN, loss \in {"failed", "deadlocked"}, ok \in BOOLEAN :
          EndJob(t, committed, loss) /\ Return(t, ok)
    BY <1>7, EndsByEndJob
  <2>2. loss \in Losses
    BY DEF Losses
  <2>3. faults' \in Seq(FaultKinds) /\ Len(faults') <= MaxFaults
    BY <1>7, FaultType DEF Ends, Commit, Violate, Deadlock, DbError, Shape
  <2> QED
    BY <1>7, <2>1, <2>2, <2>3, EndsByEndJob, EndJobType, ReturnType DEF Shape
<1>11. CASE ConnectError
  BY <1>11, FaultType DEF ConnectError, Shape
<1>12. CASE ListenError
  BY <1>12, FaultType DEF ListenError, Shape
<1>13. CASE Interrupt
  <2>1. /\ dims' \subseteq Rows
        /\ klines' \subseteq Candles
        /\ fate' \in [Msgs -> Fates]
        /\ job' \in [Tasks -> Jobs]
    <3>1. CASE \E committed \in BOOLEAN : EndJob("main", committed, "cancelled")
      BY <3>1, EndJobType DEF Tasks, Losses
    <3>2. CASE UNCHANGED <<job, dims, klines, fate>>
      BY <3>2 DEF Shape
    <3> QED
      BY <1>13, <3>1, <3>2 DEF Interrupt
  <2> QED
    BY <1>13, <2>1, FaultType DEF Interrupt, Shape
<1>14. CASE StopPeriodic
  BY <1>14 DEF StopPeriodic, AfterPeriodic, Shape, db
<1>15. CASE CancelPeriodic
  <2>1. /\ dims' \subseteq Rows
        /\ klines' \subseteq Candles
        /\ fate' \in [Msgs -> Fates]
        /\ job' \in [Tasks -> Jobs]
    BY <1>15, EndJobType DEF CancelPeriodic, Tasks, Losses
  <2>2. faults' \in Seq(FaultKinds) /\ Len(faults') <= MaxFaults
    BY <1>15, FaultType DEF CancelPeriodic, Shape
  <2> QED
    BY <1>15, <2>1, <2>2 DEF CancelPeriodic, Shape
<1>16. CASE Close
  <2>1. CASE TakeBatch("main", batch) /\ main' = "closeFlush"
    <3>1. batch' \in Seq(Msgs) /\ job' \in [Tasks -> Jobs]
      BY <2>1, TakeBatchType DEF Shape, Tasks
    <3> QED
      BY <1>16, <2>1, <3>1 DEF Close, Shape, db
  <2>2. CASE main' = "exit" /\ UNCHANGED <<job, batch>>
    BY <1>16, <2>2 DEF Close, Shape, db
  <2> QED
    BY <1>16, <2>1, <2>2 DEF Close
<1>17. CASE Exit
  <2>1. fate' \in [Msgs -> Fates]
    BY <1>17 DEF Exit, Shape, Fates, Losses
  <2> QED
    BY <1>17, <2>1 DEF Exit, Shape, db
<1>18. CASE Crash
  <2>1. PICK done \in SUBSET {t \in Tasks : CanCommit(t)} :
          /\ dims'   = dims \cup UNION {job[t].held : t \in done}
          /\ klines' = klines \cup UNION {CandlesIn(job[t].recs) : t \in done}
          /\ fate'   = [m \in Msgs |->
                          IF m \in UNION {Range(job[t].recs) : t \in done} THEN "saved"
                          ELSE IF fate[m] = "open" THEN "crashed" ELSE fate[m]]
    BY <1>18 DEF Crash
  <2>2. \A t \in done : job[t].held \subseteq Rows /\ job[t].recs \in Seq(Msgs)
    BY DEF Shape, Jobs
  <2>3. \A t \in done : CandlesIn(job[t].recs) \subseteq Candles
    BY <2>2 DEF CandlesIn, Candles
  <2>4. dims' \subseteq Rows /\ klines' \subseteq Candles
    BY <2>1, <2>2, <2>3 DEF Shape
  <2>5. fate' \in [Msgs -> Fates]
    BY <2>1 DEF Shape, Fates, Losses
  <2>6. job' \in [Tasks -> Jobs]
    BY <1>18, NoJobType DEF Crash
  <2> QED
    BY <1>18, <2>4, <2>5, <2>6, FaultType DEF Crash, Shape
<1>19. CASE UNCHANGED vars
  BY <1>19 DEF vars, Shape
<1> QED
  BY <1>1, <1>2, <1>3, <1>4, <1>5, <1>6, <1>7, <1>11, <1>12, <1>13, <1>14, <1>15,
     <1>16, <1>17, <1>18, <1>19, NextIs

LEMMA ShapeInvariant == Spec => []Shape
<1>1. Init => Shape
  BY InitType
<1>2. Shape /\ [Next]_vars => Shape'
  BY TypeStep
<1> QED
  BY <1>1, <1>2, PTL DEF Spec

-----------------------------------------------------------------------------
(* The bound on the batch. *)

\* Only a received message makes the batch longer or overflows it.
LEMMA BatchOnlyGrowsInReceive ==
  ASSUME Shape, Next, ~Receive
  PROVE  /\ batch' = batch \/ batch' = <<>>
         /\ \A m \in Msgs : fate'[m] = "overflow" => fate[m] = "overflow"
<1>1. ASSUME NEW t \in Tasks, NEW committed \in BOOLEAN,
             NEW loss \in {"failed", "deadlocked", "cancelled"},
             EndJob(t, committed, loss)
      PROVE  \A m \in Msgs : fate'[m] = "overflow" => fate[m] = "overflow"
  BY <1>1 DEF EndJob, Mark
<1>2. CASE Publish
  BY <1>2 DEF Publish, Mark
<1>3. CASE Subscribe \/ StartUp \/ ConnectError \/ ListenError \/ StopPeriodic
  BY <1>3 DEF Subscribe, StartUp, ConnectError, ListenError, StopPeriodic
<1>4. CASE FlushTimer \/ Close
  BY <1>4 DEF FlushTimer, Close, TakeBatch
<1>5. ASSUME NEW t \in Tasks, Works(t)
      PROVE  /\ batch' = batch
             /\ \A m \in Msgs : fate'[m] = "overflow" => fate[m] = "overflow"
  BY <1>5, WorksLeaves
<1>6. ASSUME NEW t \in Tasks, Ends(t)
      PROVE  /\ batch' = batch
             /\ \A m \in Msgs : fate'[m] = "overflow" => fate[m] = "overflow"
  BY <1>1, <1>6, EndsByEndJob
<1>7. CASE Interrupt
  BY <1>1, <1>7 DEF Interrupt, Tasks
<1>8. CASE CancelPeriodic
  BY <1>1, <1>8 DEF CancelPeriodic, Tasks
<1>9. CASE Exit
  BY <1>9 DEF Exit
<1>10. CASE Crash
  BY <1>10 DEF Crash
<1> QED
  BY <1>2, <1>3, <1>4, <1>5, <1>6, <1>7, <1>8, <1>9, <1>10, NextIs

LEMMA BatchStep == Shape /\ BatchBounded /\ [Next]_vars => BatchBounded'
<1> SUFFICES ASSUME Shape, BatchBounded, [Next]_vars PROVE BatchBounded'
  OBVIOUS
<1> USE DataSaverAssumption
<1>1. CASE Receive
  <2> DEFINE full == AtMaxBatch(batch)
             kept == IF full THEN Tail(batch) ELSE batch
             new  == Append(kept, Head(inbox))
  <2>1. batch \in Seq(Msgs) /\ inbox \in Seq(Msgs) /\ inbox /= <<>>
    BY <1>1 DEF Receive, Shape
  <2>2. full => batch /= <<>>
    BY DEF AtMaxBatch, Shape
  <2>3. /\ kept \in Seq(Msgs)
        /\ Len(kept) = IF full THEN Len(batch) - 1 ELSE Len(batch)
    BY <2>1, <2>2
  <2>4. Len(new) = Len(kept) + 1
    BY <2>1, <2>3
  <2>5. Len(new) <= MaxBatchSize
    BY <2>1, <2>3, <2>4 DEF AtMaxBatch, BatchBounded
  <2>6. BatchSize <= MaxBatchSize => ~full
    BY <2>1 DEF AtMaxBatch, BatchBounded
  <2>7. \/ batch' = <<>>
        \/ batch' = new /\ ~(Len(new) >= BatchSize)
    BY <1>1 DEF Receive, TakeBatch, AtBatchSize
  <2>8. Mark(IF full THEN {Head(batch)} ELSE {}, "overflow")
    BY <1>1 DEF Receive
  <2>9. BatchSize <= MaxBatchSize => \A m \in Msgs : fate'[m] /= "overflow"
    BY <2>6, <2>8 DEF Mark, BatchBounded
  <2>10. /\ Len(batch') <= MaxBatchSize
         /\ BatchSize <= MaxBatchSize => Len(batch') < BatchSize
    <3> HIDE DEF new
    <3>1. Len(new) \in Nat
      BY <2>3, <2>4, <2>1
    <3> QED
      BY <2>5, <2>7, <3>1
  <2> QED
    BY <2>9, <2>10 DEF BatchBounded
<1>2. CASE Next /\ ~Receive
  BY <1>2, BatchOnlyGrowsInReceive DEF BatchBounded
<1>3. CASE UNCHANGED vars
  BY <1>3 DEF vars, BatchBounded
<1> QED
  BY <1>1, <1>2, <1>3

\* _batch never holds more than max_batch_size records, and with batch_size <=
\* max_batch_size the pop(0) of run_forever is never reached: for every pair
\* of settings, however the two flushers and the faults interleave.
LEMMA BatchSafe == Spec => []BatchBounded
<1>1. Init => BatchBounded
  BY DataSaverAssumption DEF Init, BatchBounded
<1>2. Shape /\ BatchBounded /\ [Next]_vars => BatchBounded'
  BY BatchStep
<1> QED
  BY <1>1, <1>2, ShapeInvariant, PTL DEF Spec

\* The type invariant with the limits of the batch, whatever the batch sizes, the
\* messages and the faults (_batch of data_saver.py and pop(0) of run_forever).
THEOREM TypeCorrect == Spec => []TypeOK
<1>1. Shape /\ BatchBounded => TypeOK
  BY DEF TypeOK
<1> QED
  BY <1>1, ShapeInvariant, BatchSafe, PTL

-----------------------------------------------------------------------------
\* Where the two tasks are and what they leave empty.
Control ==
  /\ main \in {"sizeFlush", "closeFlush"} <=> job["main"].stage /= "idle"
  /\ periodic = "flush" <=> job["periodic"].stage /= "idle"
  /\ \A t \in Tasks : job[t].stage = "idle" => job[t] = NoJob
  /\ \A t \in Tasks : job[t].stage /= "idle" => job[t].recs /= <<>>
  /\ main \in {"sizeFlush", "closeFlush", "down", "connecting"} => batch = <<>>
  /\ main = "down" => inbox = <<>>
  /\ main \in {"down", "connecting", "close", "closeFlush", "exit"} =>
       periodic = "off"

\* Messages are numbered in the order of their publication.
Numbered == \A m \in Msgs : fate[m] = "unborn" <=> m > published

-----------------------------------------------------------------------------
LEMMA ControlStep == Shape /\ Control /\ [Next]_vars => Control'
<1> SUFFICES ASSUME Shape, Control, [Next]_vars PROVE Control'
  OBVIOUS
<1> USE DEF Control, Tasks
<1>0. job \in [Tasks -> Jobs]
  BY DEF Shape
<1>1. CASE Publish
  BY <1>1 DEF Publish
<1>2. CASE Subscribe
  BY <1>2 DEF Subscribe
<1>3. CASE StartUp
  BY <1>3 DEF StartUp
<1>4. CASE Receive
  <2>1. main = "listen" /\ job["main"].stage = "idle"
    BY <1>4 DEF Receive
  <2>2. PICK new : /\ \/ TakeBatch("main", new) /\ main' = "sizeFlush"
                      \/ batch' = new /\ UNCHANGED <<job, main>>
                   /\ new /= <<>>
    <3> DEFINE kept == IF AtMaxBatch(batch) THEN Tail(batch) ELSE batch
               new  == Append(kept, Head(inbox))
    <3>1. AtMaxBatch(batch) => batch /= <<>>
      BY DataSaverAssumption DEF AtMaxBatch, Shape
    <3>2. kept \in Seq(Msgs) /\ Head(inbox) \in Msgs
      BY <1>4, <3>1 DEF Receive, Shape
    <3> HIDE DEF kept
    <3>3. new /= <<>>
      <4>1. Len(new) = Len(kept) + 1 /\ Len(kept) \in Nat
        BY <3>2, AppendProperties
      <4> HIDE DEF new
      <4> QED
        BY <4>1
    <3>4. \/ TakeBatch("main", new) /\ main' = "sizeFlush"
          \/ batch' = new /\ UNCHANGED <<job, main>>
      BY <1>4 DEF Receive, kept
    <3> HIDE DEF new
    <3> QED
      BY <3>3, <3>4
  <2>3. CASE TakeBatch("main", new) /\ main' = "sizeFlush"
    <3>1. job'["main"].stage = "begin" /\ job'["main"].recs = new
          /\ job'["periodic"] = job["periodic"] /\ batch' = <<>>
      BY <1>0, <2>3 DEF TakeBatch, NewJob, NoJob
    <3> QED
      BY <1>0, <1>4, <2>1, <2>2, <2>3, <3>1 DEF Receive
  <2>4. CASE batch' = new /\ UNCHANGED <<job, main>>
    BY <1>4, <2>1, <2>4 DEF Receive
  <2> QED
    BY <2>2, <2>3, <2>4
<1>5. CASE FlushTimer
  <2>1. CASE TakeBatch("periodic", batch) /\ periodic' = "flush"
    <3>1. job'["periodic"].stage = "begin" /\ job'["periodic"].recs = batch
          /\ job'["main"] = job["main"] /\ batch' = <<>>
      BY <1>0, <2>1 DEF TakeBatch, NewJob, NoJob
    <3>2. batch /= <<>>
      BY <1>5, <2>1 DEF FlushTimer, TimerWrites
    <3> QED
      BY <1>0, <1>5, <2>1, <3>1, <3>2 DEF FlushTimer
  <2>2. CASE UNCHANGED <<job, batch, periodic>>
    BY <1>5, <2>2 DEF FlushTimer
  <2> QED
    BY <1>5, <2>1, <2>2 DEF FlushTimer
<1>6. ASSUME NEW t \in Tasks, Works(t)
      PROVE  Control'
  <2>1. PICK j : /\ job' = [job EXCEPT ![t] = j] /\ j.stage /= "idle"
                 /\ j.recs = job[t].recs
    BY <1>6, WorksType
  <2> QED
    BY <1>0, <1>6, <2>1, WorksLeaves
<1>8. ASSUME NEW t \in Tasks, NEW committed \in BOOLEAN, NEW loss, NEW ok,
             Scheduled(t), job[t].stage /= "idle",
             EndJob(t, committed, loss), Return(t, ok), UNCHANGED <<batch, inbox>>
      PROVE  Control'
  <2>1. job' = [job EXCEPT ![t] = NoJob]
    BY <1>8 DEF EndJob
  <2>2. CASE t = "main"
    BY <1>0, <1>8, <2>1, <2>2 DEF Return, NoJob
  <2>3. CASE t = "periodic"
    BY <1>0, <1>8, <2>1, <2>3 DEF Return, NoJob, PeriodicAfter, Scheduled
  <2> QED
    BY <2>2, <2>3
<1>9. ASSUME NEW t \in Tasks, Scheduled(t), Ends(t)
      PROVE  Control'
  BY <1>8, <1>9, EndsByEndJob
<1>10. CASE ConnectError
  BY <1>10 DEF ConnectError
<1>11. CASE ListenError
  BY <1>11 DEF ListenError
<1>12. CASE Interrupt
  <2>1. CASE UNCHANGED <<job, dims, klines, fate>> /\ job["main"].stage = "idle"
    BY <1>12, <2>1 DEF Interrupt
  <2>2. CASE \E committed \in BOOLEAN : EndJob("main", committed, "cancelled")
    <3>1. job' = [job EXCEPT !["main"] = NoJob]
      BY <2>2 DEF EndJob
    <3> QED
      BY <1>0, <1>12, <3>1 DEF Interrupt, NoJob
  <2> QED
    BY <1>12, <2>1, <2>2 DEF Interrupt
<1>13. CASE StopPeriodic
  BY <1>13 DEF StopPeriodic, AfterPeriodic
<1>14. CASE CancelPeriodic
  <2>1. job' = [job EXCEPT !["periodic"] = NoJob]
    BY <1>14 DEF CancelPeriodic, EndJob
  <2> QED
    BY <1>0, <1>14, <2>1 DEF CancelPeriodic, NoJob
<1>15. CASE Close
  <2>1. CASE main' = "closeFlush" /\ TakeBatch("main", batch)
    BY <1>0, <1>15, <2>1 DEF Close, TakeBatch, NewJob, NoJob
  <2>2. CASE main' = "exit" /\ UNCHANGED <<job, batch>>
    BY <1>15, <2>2 DEF Close
  <2> QED
    BY <1>15, <2>1, <2>2 DEF Close
<1>16. CASE Exit
  BY <1>16 DEF Exit
<1>17. CASE Crash
  BY <1>17 DEF Crash, NoJob
<1>18. CASE UNCHANGED vars
  BY <1>18 DEF vars
<1> QED
  BY <1>1, <1>2, <1>3, <1>4, <1>5, <1>6, <1>9, <1>10, <1>11, <1>12, <1>13, <1>14,
     <1>15, <1>16, <1>17, <1>18, NextIs

-----------------------------------------------------------------------------
(* The queues as values: periodic's records P, main's records M, the batch  *)
(* B and the inbox I hold the open messages O.                              *)

Acc(P, M, B, I, O) ==
  /\ O = Range(P) \cup Range(M) \cup Range(B) \cup Range(I)
  /\ Increasing(P) /\ Increasing(M) /\ Increasing(B) /\ Increasing(I)
  /\ Precedes(P, M) /\ Precedes(P, B) /\ Precedes(P, I)
  /\ Precedes(M, B) /\ Precedes(M, I) /\ Precedes(B, I)

LEMMA AccIsAccounted ==
  ASSUME NEW P, NEW M, NEW B, NEW I, NEW Q, Q = <<P, M, B, I>>
  PROVE  Acc(P, M, B, I, UNION {Range(Q[q]) : q \in 1..4}) <=>
           /\ \A q \in 1..4 : Increasing(Q[q])
           /\ \A q, r \in 1..4 : q < r => Precedes(Q[q], Q[r])
<1>1. Q[1] = P /\ Q[2] = M /\ Q[3] = B /\ Q[4] = I
  OBVIOUS
<1>2. 1..4 = {1, 2, 3, 4}
  OBVIOUS
<1>3. UNION {Range(Q[q]) : q \in 1..4}
        = Range(P) \cup Range(M) \cup Range(B) \cup Range(I)
  BY <1>1, <1>2
<1>4. (\A q \in 1..4 : Increasing(Q[q])) <=>
        Increasing(P) /\ Increasing(M) /\ Increasing(B) /\ Increasing(I)
  BY <1>1, <1>2
<1>5. (\A q, r \in 1..4 : q < r => Precedes(Q[q], Q[r])) <=>
        /\ Precedes(P, M) /\ Precedes(P, B) /\ Precedes(P, I)
        /\ Precedes(M, B) /\ Precedes(M, I) /\ Precedes(B, I)
  <2>1. ASSUME NEW q \in 1..4, NEW r \in 1..4, q < r
        PROVE  \/ q = 1 /\ r \in {2, 3, 4}
               \/ q = 2 /\ r \in {3, 4}
               \/ q = 3 /\ r = 4
    BY <2>1
  <2>2. 1 < 2 /\ 1 < 3 /\ 1 < 4 /\ 2 < 3 /\ 2 < 4 /\ 3 < 4
    OBVIOUS
  <2> QED
    BY <1>1, <1>2, <2>1, <2>2
<1> QED
  BY <1>3, <1>4, <1>5 DEF Acc

LEMMA EmptyQueue ==
  ASSUME NEW s
  PROVE  Increasing(<<>>) /\ Precedes(<<>>, s) /\ Precedes(s, <<>>)
BY RangeEmpty DEF Increasing, Precedes

LEMMA IncreasingAppend ==
  ASSUME NEW s \in Seq(Msgs), NEW x \in Msgs, Increasing(s),
         \A y \in Range(s) : y < x
  PROVE  Increasing(Append(s, x))
<1>1. /\ DOMAIN s = 1..Len(s) /\ Len(s) \in Nat
      /\ DOMAIN Append(s, x) = 1..(Len(s) + 1)
      /\ \A i \in 1..Len(s) : Append(s, x)[i] = s[i]
      /\ Append(s, x)[Len(s) + 1] = x
  BY AppendProperties
<1>2. ASSUME NEW i \in 1..(Len(s) + 1), NEW k \in 1..(Len(s) + 1), i < k
      PROVE  Append(s, x)[i] < Append(s, x)[k]
  <2>1. i \in 1..Len(s)
    BY <1>1, <1>2
  <2>2. CASE k \in 1..Len(s)
    BY <1>1, <1>2, <2>1, <2>2 DEF Increasing
  <2>3. CASE k = Len(s) + 1
    BY <1>1, <2>1, <2>3 DEF Range
  <2> QED
    BY <1>1, <2>2, <2>3
<1> QED
  BY <1>1, <1>2 DEF Increasing

LEMMA IncreasingTail ==
  ASSUME NEW s \in Seq(Msgs), s /= <<>>, Increasing(s)
  PROVE  /\ Increasing(Tail(s))
         /\ \A y \in Range(Tail(s)) : Head(s) < y
<1>1. /\ DOMAIN s = 1..Len(s) /\ Len(s) \in Nat \ {0}
      /\ DOMAIN Tail(s) = 1..(Len(s) - 1)
      /\ \A i \in 1..(Len(s) - 1) : Tail(s)[i] = s[i + 1]
      /\ Head(s) = s[1]
  BY HeadTailProperties
<1>2. \A i \in 1..(Len(s) - 1) : i + 1 \in 1..Len(s) /\ 1 < i + 1
  BY <1>1
<1>3. 1 \in 1..Len(s)
  BY <1>1
<1>4. \A i \in 1..(Len(s) - 1) : s[1] < s[i + 1]
  BY <1>1, <1>2, <1>3 DEF Increasing
<1>5. \A i, k \in 1..(Len(s) - 1) : i < k => s[i + 1] < s[k + 1]
  BY <1>1, <1>2 DEF Increasing
<1> QED
  BY <1>1, <1>4, <1>5 DEF Increasing, Range

-----------------------------------------------------------------------------
(* What the operations do to the queues. *)

LEMMA AccPublish ==
  ASSUME NEW P, NEW M, NEW B, NEW I \in Seq(Msgs), NEW O, NEW x \in Msgs,
         Acc(P, M, B, I, O), \A y \in O : y < x
  PROVE  Acc(P, M, B, Append(I, x), O \cup {x})
BY RangeAppend, IncreasingAppend DEF Acc, Precedes

LEMMA AccReceive ==
  ASSUME NEW P, NEW M, NEW B \in Seq(Msgs), NEW I \in Seq(Msgs), NEW O,
         I /= <<>>, Acc(P, M, B, I, O)
  PROVE  Acc(P, M, Append(B, Head(I)), Tail(I), O)
<1>1. Head(I) \in Msgs /\ Head(I) \in Range(I)
  BY HeadTailProperties, RangeHeadTail
<1>2. Range(Append(B, Head(I))) = Range(B) \cup {Head(I)}
  BY <1>1, RangeAppend
<1>3. Range(I) = {Head(I)} \cup Range(Tail(I))
  BY RangeHeadTail
<1>4. Increasing(Append(B, Head(I)))
  BY <1>1, IncreasingAppend DEF Acc, Precedes
<1>5. Increasing(Tail(I)) /\ \A y \in Range(Tail(I)) : Head(I) < y
  BY IncreasingTail DEF Acc
<1> QED
  BY <1>2, <1>3, <1>4, <1>5 DEF Acc, Precedes

LEMMA AccDropOldest ==
  ASSUME NEW M, NEW P, NEW B \in Seq(Msgs), NEW I, NEW O, B /= <<>>,
         O \subseteq Msgs, Acc(P, M, B, I, O)
  PROVE  Acc(P, M, Tail(B), I, O \ {Head(B)})
<1>1. Range(B) = {Head(B)} \cup Range(Tail(B))
  BY RangeHeadTail
<1>2. Increasing(Tail(B)) /\ \A y \in Range(Tail(B)) : Head(B) < y
  BY IncreasingTail DEF Acc
<1>3. \A y \in O : ~(y < y)
  BY DEF Msgs
<1>4. Range(Tail(B)) = Range(B) \ {Head(B)}
  BY <1>1, <1>2, <1>3 DEF Acc
<1>5. Head(B) \notin Range(P) \cup Range(M) \cup Range(I)
  BY <1>1, <1>3 DEF Acc, Precedes
<1> QED
  BY <1>1, <1>2, <1>4, <1>5 DEF Acc, Precedes

LEMMA AccTakeMain ==
  ASSUME NEW P, NEW B, NEW I, NEW O, Acc(P, <<>>, B, I, O)
  PROVE  Acc(P, B, <<>>, I, O)
BY EmptyQueue, RangeEmpty DEF Acc

LEMMA AccTakePeriodic ==
  ASSUME NEW B, NEW I, NEW O, Acc(<<>>, <<>>, B, I, O)
  PROVE  Acc(B, <<>>, <<>>, I, O)
BY EmptyQueue, RangeEmpty DEF Acc

\* The records of a call that ended are in no other queue.
LEMMA AccEndMain ==
  ASSUME NEW P, NEW M, NEW B, NEW I, NEW O, O \subseteq Msgs,
         Acc(P, M, B, I, O)
  PROVE  Acc(P, <<>>, B, I, O \ Range(M))
<1>1. \A y \in O : ~(y < y)
  BY DEF Msgs
<1>2. Range(M) \cap (Range(P) \cup Range(B) \cup Range(I)) = {}
  BY <1>1 DEF Acc, Precedes
<1> QED
  BY <1>2, EmptyQueue, RangeEmpty DEF Acc

LEMMA AccEndPeriodic ==
  ASSUME NEW P, NEW M, NEW B, NEW I, NEW O, O \subseteq Msgs,
         Acc(P, M, B, I, O)
  PROVE  Acc(<<>>, M, B, I, O \ Range(P))
<1>1. \A y \in O : ~(y < y)
  BY DEF Msgs
<1>2. Range(P) \cap (Range(M) \cup Range(B) \cup Range(I)) = {}
  BY <1>1 DEF Acc, Precedes
<1> QED
  BY <1>2, EmptyQueue, RangeEmpty DEF Acc

LEMMA AccEmpty == Acc(<<>>, <<>>, <<>>, <<>>, {})
BY EmptyQueue, RangeEmpty DEF Acc

-----------------------------------------------------------------------------
(* The inductive invariant. *)

AccNow == Acc(job["periodic"].recs, job["main"].recs, batch, inbox, Open)

SaverInv ==
  /\ Shape
  /\ Control
  /\ Numbered
  /\ AccNow
  /\ SavedInKlines

LEMMA AccountedIsAcc == AccNow <=> Accounted
<1>1. Acc(job["periodic"].recs, job["main"].recs, batch, inbox, Holding) <=>
        /\ \A q \in 1..4 : Increasing(Queues[q])
        /\ \A q, r \in 1..4 : q < r => Precedes(Queues[q], Queues[r])
  BY AccIsAccounted DEF Queues, Holding
<1>2. Holding = UNION {Range(Queues[q]) : q \in 1..4}
  BY DEF Holding
<1>3. Holding = Range(job["periodic"].recs) \cup Range(job["main"].recs)
                  \cup Range(batch) \cup Range(inbox)
  BY DEF Holding, Queues
<1> QED
  BY <1>1, <1>3 DEF AccNow, Accounted, Acc

\* What a call that ends does to the fates: its records were open and become
\* saved or lost.
LEMMA EndJobFates ==
  ASSUME Shape, AccNow, SavedInKlines,
         NEW t \in Tasks, NEW committed \in BOOLEAN,
         NEW loss \in Losses, EndJob(t, committed, loss)
  PROVE  /\ job' = [job EXCEPT ![t] = NoJob]
         /\ Open' = Open \ Range(job[t].recs)
         /\ \A m \in Msgs : fate'[m] = "unborn" <=> fate[m] = "unborn"
         /\ SavedInKlines'
<1>1. job[t].recs \in Seq(Msgs)
  BY DEF Shape, Jobs
<1>2. Range(job[t].recs) \subseteq Open
  BY DEF AccNow, Acc, Tasks
<1>3. fate' = [m \in Msgs |-> IF m \in Range(job[t].recs)
                              THEN IF committed THEN "saved" ELSE loss
                              ELSE fate[m]]
  BY DEF EndJob, Mark
<1>4. Open' = Open \ Range(job[t].recs)
  BY <1>2, <1>3 DEF Open, Losses
<1>5. \A m \in Msgs : fate'[m] = "unborn" <=> fate[m] = "unborn"
  BY <1>2, <1>3 DEF Open, Losses
<1>6. SavedInKlines'
  <2>1. CASE committed
    <3>1. Saved' = Saved \cup Range(job[t].recs)
      BY <1>2, <1>3, <2>1 DEF Saved, Open
    <3>2. klines' = klines \cup {CandleOf[m] : m \in Range(job[t].recs)}
      BY <1>1, <2>1 DEF EndJob, Written, CandlesIn, Range
    <3> QED
      BY <3>1, <3>2 DEF SavedInKlines
  <2>2. CASE ~committed
    <3>1. Saved' = Saved
      BY <1>2, <1>3, <2>2 DEF Saved, Open, Losses
    <3>2. klines' = klines
      BY <2>2 DEF EndJob, Written
    <3> QED
      BY <3>1, <3>2 DEF SavedInKlines
  <2> QED
    BY <2>1, <2>2
<1> QED
  BY <1>4, <1>5, <1>6 DEF EndJob

LEMMA EndJobAccounts ==
  ASSUME SaverInv, NEW t \in Tasks, NEW committed \in BOOLEAN,
         NEW loss \in Losses, EndJob(t, committed, loss),
         UNCHANGED <<batch, inbox, published>>
  PROVE  Numbered' /\ AccNow' /\ SavedInKlines'
<1>1. /\ job' = [job EXCEPT ![t] = NoJob]
      /\ Open' = Open \ Range(job[t].recs)
      /\ \A m \in Msgs : fate'[m] = "unborn" <=> fate[m] = "unborn"
      /\ SavedInKlines'
  BY EndJobFates DEF SaverInv
<1>2. job \in [Tasks -> Jobs] /\ Open \subseteq Msgs
  BY DEF SaverInv, Shape, Open
<1>3. Acc(job["periodic"].recs, job["main"].recs, batch, inbox, Open)
  BY DEF SaverInv, AccNow
<1>4. CASE t = "main"
  <2>1. job'["main"].recs = <<>> /\ job'["periodic"] = job["periodic"]
    BY <1>1, <1>2, <1>4 DEF NoJob, Tasks
  <2> QED
    BY <1>1, <1>2, <1>3, <1>4, <2>1, AccEndMain DEF AccNow, SaverInv, Numbered
<1>5. CASE t = "periodic"
  <2>1. job'["periodic"].recs = <<>> /\ job'["main"] = job["main"]
    BY <1>1, <1>2, <1>5 DEF NoJob, Tasks
  <2> QED
    BY <1>1, <1>2, <1>3, <1>5, <2>1, AccEndPeriodic DEF AccNow, SaverInv, Numbered
<1> QED
  BY <1>4, <1>5 DEF Tasks

\* Steps that move no message and settle none.
LEMMA QuietStep ==
  ASSUME SaverInv, UNCHANGED <<batch, inbox, published, fate, klines>>,
         job'["main"].recs = job["main"].recs,
         job'["periodic"].recs = job["periodic"].recs
  PROVE  Numbered' /\ AccNow' /\ SavedInKlines'
BY DEF SaverInv, Numbered, AccNow, Open, SavedInKlines, Saved

LEMMA PublishAccounts ==
  ASSUME SaverInv, Publish
  PROVE  Numbered' /\ AccNow' /\ SavedInKlines'
<1>1. published' \in Msgs /\ published' = published + 1 /\ published \in Nat
  BY DataSaverAssumption DEF Publish, SaverInv, Shape, Msgs
<1>2. fate[published'] = "unborn"
  BY <1>1 DEF SaverInv, Numbered
<1>3. PICK f \in {"missed", "open"} :
        /\ fate' = [fate EXCEPT ![published'] = f]
        /\ f = "missed" => main = "down"
        /\ inbox' = IF f = "missed" THEN inbox ELSE Append(inbox, published')
  BY <1>1 DEF Publish, Mark, SaverInv, Shape
<1>4. fate \in [Msgs -> Fates]
  BY DEF SaverInv, Shape
<1>5. Saved' = Saved /\ SavedInKlines'
  <2>1. Saved' = Saved
    BY <1>1, <1>2, <1>3, <1>4 DEF Saved
  <2> QED
    BY <2>1 DEF Publish, db, SaverInv, SavedInKlines
<1>6. Numbered'
  BY <1>1, <1>2, <1>3, <1>4 DEF SaverInv, Numbered, Msgs
<1>7. job' = job /\ batch' = batch
  BY DEF Publish
<1>8. AccNow'
  <2>1. CASE f = "missed"
    <3>1. Open' = Open
      BY <1>1, <1>2, <1>3, <1>4, <2>1 DEF Open
    <3> QED
      BY <1>3, <1>7, <2>1, <3>1 DEF SaverInv, AccNow
  <2>2. CASE f = "open"
    <3>1. Open' = Open \cup {published'}
      BY <1>1, <1>3, <1>4, <2>2 DEF Open
    <3>2. \A y \in Open : y < published'
      BY <1>1 DEF SaverInv, Numbered, Open, Msgs
    <3>3. Acc(job["periodic"].recs, job["main"].recs, batch,
              Append(inbox, published'), Open \cup {published'})
      BY <1>1, <3>2, AccPublish DEF SaverInv, AccNow, Shape
    <3> QED
      BY <1>3, <1>7, <2>2, <3>1, <3>3 DEF AccNow
  <2> QED
    BY <2>1, <2>2
<1> QED
  BY <1>5, <1>6, <1>8

LEMMA ReceiveAccounts ==
  ASSUME SaverInv, Receive
  PROVE  Numbered' /\ AccNow' /\ SavedInKlines'
<1> DEFINE full == AtMaxBatch(batch)
           kept == IF full THEN Tail(batch) ELSE batch
           new  == Append(kept, Head(inbox))
           gone == IF full THEN {Head(batch)} ELSE {}
           P    == job["periodic"].recs
<1>1. /\ batch \in Seq(Msgs) /\ inbox \in Seq(Msgs) /\ inbox /= <<>>
      /\ job \in [Tasks -> Jobs] /\ fate \in [Msgs -> Fates] /\ Open \subseteq Msgs
  BY DEF Receive, SaverInv, Shape, Open
<1>2. full => batch /= <<>>
  BY DataSaverAssumption, <1>1 DEF AtMaxBatch
<1>3. job["main"] = NoJob /\ job["main"].recs = <<>>
  BY DEF Receive, SaverInv, Control, NoJob, Tasks
<1>4. Acc(P, <<>>, batch, inbox, Open)
  BY <1>3 DEF SaverInv, AccNow
<1>5. kept \in Seq(Msgs) /\ Acc(P, <<>>, kept, inbox, Open \ gone)
  <2>1. CASE full
    BY <1>1, <1>2, <1>4, <2>1, AccDropOldest
  <2>2. CASE ~full
    BY <1>1, <1>4, <2>2
  <2> QED
    BY <2>1, <2>2
<1>6. Acc(P, <<>>, new, Tail(inbox), Open \ gone)
  <2> HIDE DEF kept, gone, P
  <2> QED
    BY <1>1, <1>5, AccReceive
<1>7. fate' = [m \in Msgs |-> IF m \in gone THEN "overflow" ELSE fate[m]]
  BY DEF Receive, Mark
<1>8. gone \subseteq Open
  BY <1>1, <1>2, <1>4, RangeHeadTail DEF Acc
<1>9. Open' = Open \ gone /\ Saved' = Saved
  BY <1>7, <1>8 DEF Open, Saved
<1>10. Numbered' /\ SavedInKlines'
  BY <1>7, <1>8, <1>9 DEF Receive, db, SaverInv, Numbered, SavedInKlines, Open
<1>11. inbox' = Tail(inbox)
  BY DEF Receive
<1>12. \/ TakeBatch("main", new)
       \/ batch' = new /\ UNCHANGED <<job, main>>
  BY DEF Receive
<1> HIDE DEF new, gone
<1>13. AccNow'
  <2>1. CASE TakeBatch("main", new)
    <3>1. /\ job'["main"].recs = new /\ job'["periodic"].recs = P
          /\ batch' = <<>>
      BY <1>1, <2>1 DEF TakeBatch, NewJob, NoJob, Tasks
    <3>2. Acc(P, new, <<>>, Tail(inbox), Open \ gone)
      BY <1>6, AccTakeMain
    <3> QED
      BY <1>9, <1>11, <3>1, <3>2 DEF AccNow
  <2>2. CASE batch' = new /\ UNCHANGED <<job, main>>
    BY <1>3, <1>6, <1>9, <1>11, <2>2 DEF AccNow
  <2> QED
    BY <1>12, <2>1, <2>2
<1> QED
  BY <1>10, <1>13

\* The steps that hand the whole batch to a task.
LEMMA TakeBatchAccounts ==
  ASSUME SaverInv, FlushTimer \/ Close
  PROVE  Numbered' /\ AccNow' /\ SavedInKlines'
<1>1. job \in [Tasks -> Jobs]
  BY DEF SaverInv, Shape
<1>2. UNCHANGED <<inbox, published, fate, klines>>
  BY DEF FlushTimer, Close, db
<1>3. Numbered' /\ SavedInKlines' /\ Open' = Open
  BY <1>2 DEF SaverInv, Numbered, SavedInKlines, Saved, Open
<1>4. CASE FlushTimer /\ TakeBatch("periodic", batch)
  <2>1. batch /= <<>> \/ UNCHANGED <<job, batch, periodic>>
    BY <1>4 DEF FlushTimer, TimerWrites
  <2>2. CASE batch /= <<>>
    <3>1. job["main"].recs = <<>> /\ job["periodic"].recs = <<>>
      BY <1>4, <2>2 DEF FlushTimer, SaverInv, Control, NoJob, Tasks
    <3>2. Acc(batch, <<>>, <<>>, inbox, Open)
      BY <3>1, AccTakePeriodic DEF SaverInv, AccNow
    <3>3. /\ job'["periodic"].recs = batch /\ job'["main"].recs = <<>>
          /\ batch' = <<>>
      BY <1>1, <1>4, <3>1 DEF TakeBatch, NewJob, NoJob, Tasks
    <3> QED
      BY <1>2, <1>3, <3>2, <3>3 DEF AccNow
  <2> QED
    BY <1>2, <2>1, <2>2, QuietStep
<1>5. CASE Close /\ TakeBatch("main", batch)
  <2>1. job["main"].recs = <<>>
    BY <1>5 DEF Close, SaverInv, Control, NoJob, Tasks
  <2>2. Acc(job["periodic"].recs, batch, <<>>, inbox, Open)
    BY <2>1, AccTakeMain DEF SaverInv, AccNow
  <2>3. /\ job'["main"].recs = batch /\ job'["periodic"] = job["periodic"]
        /\ batch' = <<>>
    BY <1>1, <1>5 DEF TakeBatch, NewJob, NoJob, Tasks
  <2> QED
    BY <1>2, <1>3, <2>2, <2>3 DEF AccNow
<1>6. CASE UNCHANGED <<job, batch>>
  BY <1>2, <1>6, QuietStep
<1> QED
  BY <1>4, <1>5, <1>6 DEF FlushTimer, Close

LEMMA ExitAccounts ==
  ASSUME SaverInv, Exit
  PROVE  Numbered' /\ AccNow' /\ SavedInKlines'
<1>1. job["main"].recs = <<>> /\ job["periodic"].recs = <<>>
  BY DEF Exit, SaverInv, Control, NoJob, Tasks
<1>2. Open = Range(batch) \cup Range(inbox)
  BY <1>1, RangeEmpty DEF SaverInv, AccNow, Acc
<1>3. Open' = {} /\ Saved' = Saved
  BY <1>2 DEF Exit, Open, Saved
<1>4. \A m \in Msgs : fate'[m] = "unborn" <=> fate[m] = "unborn"
  BY <1>2 DEF Exit, Open
<1>5. /\ batch' = <<>> /\ inbox' = <<>> /\ job' = job
      /\ klines' = klines /\ published' = published
  BY DEF Exit, db
<1> QED
  BY <1>1, <1>3, <1>4, <1>5, AccEmpty
     DEF AccNow, SaverInv, Numbered, SavedInKlines

LEMMA CrashAccounts ==
  ASSUME SaverInv, Crash
  PROVE  Numbered' /\ AccNow' /\ SavedInKlines'
<1>1. PICK done \in SUBSET {t \in Tasks : CanCommit(t)} :
        /\ klines' = klines \cup UNION {CandlesIn(job[t].recs) : t \in done}
        /\ fate'   = [m \in Msgs |->
                        IF m \in UNION {Range(job[t].recs) : t \in done} THEN "saved"
                        ELSE IF fate[m] = "open" THEN "crashed" ELSE fate[m]]
  BY DEF Crash
<1> DEFINE saved == UNION {Range(job[t].recs) : t \in done}
<1>2. \A t \in done : Range(job[t].recs) \subseteq Open
  BY DEF SaverInv, AccNow, Acc, Tasks
<1>3. saved \subseteq Open
  BY <1>2
<1>4. /\ Open' = {} /\ Saved' = Saved \cup saved
      /\ \A m \in Msgs : fate'[m] = "unborn" <=> fate[m] = "unborn"
  BY <1>1, <1>3 DEF Open, Saved
<1>5. klines' = klines \cup {CandleOf[m] : m \in saved}
  <2>1. \A t \in done : CandlesIn(job[t].recs) = {CandleOf[m] : m \in Range(job[t].recs)}
    BY DEF CandlesIn, Range
  <2> QED
    BY <1>1, <2>1
<1>6. SavedInKlines'
  BY <1>4, <1>5 DEF SaverInv, SavedInKlines
<1>7. /\ batch' = <<>> /\ inbox' = <<>> /\ published' = published
      /\ job'["main"].recs = <<>> /\ job'["periodic"].recs = <<>>
  BY DEF Crash, NoJob, Tasks
<1> QED
  BY <1>4, <1>6, <1>7, AccEmpty DEF AccNow, SaverInv, Numbered

LEMMA AccountStep ==
  SaverInv /\ [Next]_vars => Numbered' /\ AccNow' /\ SavedInKlines'
<1> SUFFICES ASSUME SaverInv, [Next]_vars
             PROVE  Numbered' /\ AccNow' /\ SavedInKlines'
  OBVIOUS
<1>1. CASE Publish
  BY <1>1, PublishAccounts
<1>2. CASE Receive
  BY <1>2, ReceiveAccounts
<1>3. CASE FlushTimer \/ Close
  BY <1>3, TakeBatchAccounts
<1>4. ASSUME NEW t \in Tasks, Ends(t)
      PROVE  Numbered' /\ AccNow' /\ SavedInKlines'
  BY <1>4, EndJobAccounts, EndsByEndJob DEF Losses
<1>5. ASSUME NEW t \in Tasks, Works(t)
      PROVE  Numbered' /\ AccNow' /\ SavedInKlines'
  <2>1. PICK j \in Jobs : /\ job' = [job EXCEPT ![t] = j]
                          /\ j.recs = job[t].recs
    BY <1>5, WorksType DEF SaverInv
  <2>2. /\ job'["main"].recs = job["main"].recs
        /\ job'["periodic"].recs = job["periodic"].recs
    BY <2>1 DEF SaverInv, Shape, Tasks
  <2>3. UNCHANGED <<batch, inbox, published, fate, klines>>
    BY <1>5, WorksLeaves
  <2> QED
    BY <2>2, <2>3, QuietStep
<1>6. CASE Subscribe \/ StartUp \/ ConnectError \/ ListenError \/ StopPeriodic
  <2>1. UNCHANGED <<batch, inbox, published, fate, klines, job>>
    BY <1>6 DEF Subscribe, StartUp, ConnectError, ListenError, StopPeriodic, db
  <2> QED
    BY <2>1, QuietStep
<1>7. CASE Interrupt
  <2>1. CASE UNCHANGED <<job, dims, klines, fate>>
    BY <1>7, <2>1, QuietStep DEF Interrupt
  <2>2. CASE \E committed \in BOOLEAN : EndJob("main", committed, "cancelled")
    BY <1>7, <2>2, EndJobAccounts DEF Interrupt, Tasks, Losses
  <2> QED
    BY <1>7, <2>1, <2>2 DEF Interrupt
<1>8. CASE CancelPeriodic
  BY <1>8, EndJobAccounts DEF CancelPeriodic, Tasks, Losses
<1>9. CASE Exit
  BY <1>9, ExitAccounts
<1>10. CASE Crash
  BY <1>10, CrashAccounts
<1>11. CASE UNCHANGED vars
  BY <1>11, QuietStep DEF vars
<1> QED
  BY <1>1, <1>2, <1>3, <1>4, <1>5, <1>6, <1>7, <1>8, <1>9, <1>10, <1>11, NextIs

LEMMA InitAccounts == Init => Control /\ Numbered /\ AccNow /\ SavedInKlines
<1> SUFFICES ASSUME Init PROVE Control /\ Numbered /\ AccNow /\ SavedInKlines
  OBVIOUS
<1>1. Control
  BY DEF Init, Control, NoJob, Tasks
<1>2. Numbered
  BY DEF Init, Numbered, Msgs
<1>3. Open = {} /\ Saved = {}
  BY DEF Init, Open, Saved
<1>4. AccNow
  BY <1>3, AccEmpty DEF Init, AccNow, NoJob, Tasks
<1>5. SavedInKlines
  BY <1>3 DEF Init, SavedInKlines
<1> QED
  BY <1>1, <1>2, <1>4, <1>5

\* The inductive invariant holds.
THEOREM SaverInvariant == Spec => []SaverInv
<1>1. Init => SaverInv
  BY InitType, InitAccounts DEF SaverInv
<1>2. SaverInv /\ [Next]_vars => SaverInv'
  BY TypeStep, ControlStep, AccountStep DEF SaverInv
<1> QED
  BY <1>1, <1>2, PTL DEF Spec

\* What the process holds are the messages not yet settled, once each and in
\* the order of their publication, through every interleaving of the two
\* flushers and every failure.
THEOREM NothingForgotten == Spec => []Accounted
<1>1. SaverInv => Accounted
  BY AccountedIsAcc DEF SaverInv
<1> QED
  BY <1>1, SaverInvariant, PTL

\* klines holds exactly the candles of the records that count as saved.
THEOREM SavedExactly == Spec => []SavedInKlines
<1>1. SaverInv => SavedInKlines
  BY DEF SaverInv
<1> QED
  BY <1>1, SaverInvariant, PTL

-----------------------------------------------------------------------------
(* DataSaver implements RecordSink. *)

\* A step publishes one message, or settles some of the open ones.
Born(m) ==
  /\ fate[m] = "unborn"
  /\ \E f \in {"open", "missed"} : fate' = [fate EXCEPT ![m] = f]

SettledOnly ==
  \A m \in Msgs : \/ fate'[m] = fate[m]
                  \/ fate[m] = "open" /\ fate'[m] \in {"saved"} \cup Losses

LEMMA EndJobSettles ==
  ASSUME SaverInv, NEW t \in Tasks, NEW committed \in BOOLEAN,
         NEW loss \in Losses, EndJob(t, committed, loss)
  PROVE  SettledOnly
<1>1. Range(job[t].recs) \subseteq Open
  BY DEF SaverInv, AccNow, Acc, Tasks
<1> QED
  BY <1>1 DEF EndJob, Mark, Open, SettledOnly

LEMMA FateStep ==
  ASSUME SaverInv, [Next]_vars
  PROVE  (\E m \in Msgs : Born(m)) \/ SettledOnly
<1>1. CASE Publish
  <2>1. published' \in Msgs /\ published' = published + 1 /\ published \in Nat
    BY <1>1, DataSaverAssumption DEF Publish, SaverInv, Shape, Msgs
  <2>2. fate[published'] = "unborn"
    BY <2>1 DEF SaverInv, Numbered
  <2>3. \E f \in {"open", "missed"} : fate' = [fate EXCEPT ![published'] = f]
    BY <1>1, <2>1 DEF Publish, Mark, SaverInv, Shape
  <2> QED
    BY <2>1, <2>2, <2>3 DEF Born
<1>2. CASE Receive
  <2>1. AtMaxBatch(batch) => Head(batch) \in Open
    <3>1. AtMaxBatch(batch) => batch /= <<>>
      BY DataSaverAssumption DEF AtMaxBatch, SaverInv, Shape
    <3> QED
      BY <3>1, RangeHeadTail DEF SaverInv, Shape, AccNow, Acc
  <2> QED
    BY <1>2, <2>1 DEF Receive, Mark, Open, SettledOnly, Losses
<1>3. ASSUME NEW t \in Tasks, Ends(t)
      PROVE  SettledOnly
  BY <1>3, EndJobSettles, EndsByEndJob DEF Losses
<1>4. ASSUME UNCHANGED fate
      PROVE  SettledOnly
  BY <1>4 DEF SettledOnly
<1>5. ASSUME NEW t \in Tasks, Works(t)
      PROVE  SettledOnly
  BY <1>4, <1>5, WorksLeaves
<1>6. CASE \/ FlushTimer \/ Close \/ Subscribe \/ StartUp \/ ConnectError
           \/ ListenError \/ StopPeriodic
  BY <1>4, <1>6 DEF FlushTimer, Close, Subscribe, StartUp, ConnectError,
                    ListenError, StopPeriodic
<1>7. CASE Interrupt
  BY <1>4, <1>7, EndJobSettles DEF Interrupt, Tasks, Losses
<1>8. CASE CancelPeriodic
  BY <1>8, EndJobSettles DEF CancelPeriodic, Tasks, Losses
<1>9. CASE Exit
  <2>1. Range(batch) \cup Range(inbox) \subseteq Open
    BY DEF SaverInv, AccNow, Acc
  <2> QED
    BY <1>9, <2>1 DEF Exit, Open, SettledOnly, Losses
<1>10. CASE Crash
  <2>1. PICK done \in SUBSET {t \in Tasks : CanCommit(t)} :
          fate' = [m \in Msgs |->
                     IF m \in UNION {Range(job[t].recs) : t \in done} THEN "saved"
                     ELSE IF fate[m] = "open" THEN "crashed" ELSE fate[m]]
    BY <1>10 DEF Crash
  <2>2. UNION {Range(job[t].recs) : t \in done} \subseteq Open
    BY DEF SaverInv, AccNow, Acc, Tasks
  <2> QED
    BY <2>1, <2>2 DEF Open, SettledOnly, Losses
<1>11. CASE UNCHANGED vars
  BY <1>4, <1>11 DEF vars
<1> QED
  BY <1>1, <1>2, <1>3, <1>5, <1>6, <1>7, <1>8, <1>9, <1>10, <1>11, NextIs

LEMMA HoldingIsOpen == SaverInv => Holding = Open
BY AccountedIsAcc DEF SaverInv, Accounted

LEMMA SinkInit == Init /\ SaverInv => Sink!Init
<1> SUFFICES ASSUME Init, SaverInv PROVE Sink!Init
  OBVIOUS
<1>1. Open = {} /\ Saved = {} /\ Lost = {}
  BY DEF Init, Open, Saved, Lost, Losses
<1> QED
  BY <1>1, HoldingIsOpen DEF Sink!Init

LEMMA SinkStep ==
  SaverInv /\ SaverInv' /\ [Next]_vars => [Sink!Next]_(Sink!vars)
<1> SUFFICES ASSUME SaverInv, SaverInv', [Next]_vars
             PROVE  [Sink!Next]_(Sink!vars)
  OBVIOUS
<1>1. Holding = Open /\ Holding' = Open'
  BY HoldingIsOpen, AccountedIsAcc DEF SaverInv, Accounted, AccNow, Acc, Holding, Queues
<1>2. fate \in [Msgs -> Fates] /\ fate' \in [Msgs -> Fates]
  BY DEF SaverInv, Shape
<1>3. ASSUME NEW m \in Msgs, Born(m)
      PROVE  Sink!Next
  <2>1. PICK f \in {"open", "missed"} : fate' = [fate EXCEPT ![m] = f]
    BY <1>3 DEF Born
  <2>2. m \in Sink!Unknown
    BY <1>1, <1>3 DEF Born, Sink!Unknown, Open, Saved, Lost, Losses
  <2>3. CASE f = "open"
    <3>1. Open' = Open \cup {m} /\ Saved' = Saved /\ Lost' = Lost
      BY <1>2, <1>3, <2>1, <2>3 DEF Born, Open, Saved, Lost, Losses
    <3> QED
      BY <1>1, <2>2, <3>1 DEF Sink!Next, Sink!Accept
  <2>4. CASE f = "missed"
    <3>1. Open' = Open /\ Saved' = Saved /\ Lost' = Lost \cup {m}
      BY <1>2, <1>3, <2>1, <2>4 DEF Born, Open, Saved, Lost, Losses
    <3> QED
      BY <1>1, <2>2, <3>1 DEF Sink!Next, Sink!Miss
  <2> QED
    BY <2>3, <2>4
<1>4. CASE SettledOnly
  <2> DEFINE S == {m \in Open : fate'[m] = "saved"}
             D == {m \in Open : fate'[m] \in Losses}
  <2>1. S \cap D = {} /\ S \subseteq Open /\ D \subseteq Open
    BY DEF Losses
  <2>2. Open' = Open \ (S \cup D)
    BY <1>2, <1>4 DEF SettledOnly, Open, Losses
  <2>3. Saved' = Saved \cup S
    BY <1>2, <1>4 DEF SettledOnly, Open, Saved, Losses
  <2>4. Lost' = Lost \cup D
    BY <1>2, <1>4 DEF SettledOnly, Open, Lost, Losses
  <2>5. Sink!Settle(S, D)
    BY <1>1, <2>1, <2>2, <2>3, <2>4 DEF Sink!Settle
  <2> HIDE DEF S, D
  <2> QED
    BY <1>1, <2>1, <2>5 DEF Sink!Next
<1> QED
  BY <1>3, <1>4, FateStep

\* The worker implements RecordSink: each record it accepts is settled once,
\* and nothing saved or given up changes again.
THEOREM SaverRefinesSink == Spec => SinkSpec
<1>1. Init /\ SaverInv => Sink!Init
  BY SinkInit
<1>2. SaverInv /\ SaverInv' /\ [Next]_vars => [Sink!Next]_(Sink!vars)
  BY SinkStep
<1> QED
  BY <1>1, <1>2, SaverInvariant, PTL DEF Spec, SinkSpec, Sink!Spec

-----------------------------------------------------------------------------
Injected == Range(faults)

\* Every name has a committed row, and every id the worker knows is one.
Backed ==
  /\ \A n \in Names : \E row \in dims : row[1] = n
  /\ cache \subseteq dims
  /\ \A t \in Tasks : job[t].held \subseteq dims /\ job[t].used \subseteq dims

\* A flush was ended to resolve a deadlock.
Deadlocked == \E m \in Msgs : fate[m] = "deadlocked"

\* Why a task is no longer in its loop.
Reasons ==
  /\ periodic = "failed" => "db" \in Injected \/ Deadlocked
  /\ main \in {"stop", "close", "closeFlush", "exit"} =>
       Injected \cap {"redis", "db", "stop"} /= {} \/ Deadlocked
  /\ main = "exit" /\ batch /= <<>> => "db" \in Injected \/ Deadlocked

Excused ==
  \A m \in Msgs :
    /\ fate[m] = "failed" => "db" \in Injected
    /\ fate[m] = "abandoned" => "db" \in Injected \/ Deadlocked
    /\ fate[m] = "crashed" => "crash" \in Injected
    /\ fate[m] \in {"cancelled", "unread"} =>
         Injected \cap {"redis", "db", "stop"} /= {} \/ Deadlocked

CauseInv == Backed /\ Reasons /\ Excused

-----------------------------------------------------------------------------
LEMMA AdvanceUsed ==
  ASSUME NEW j \in Jobs, NEW c
  PROVE  Advance(j, c).used \subseteq j.used \cup c
BY DEF Advance, Dictionary, Jobs

LEMMA FaultInjects ==
  ASSUME Shape, NEW kind, Fault(kind)
  PROVE  Injected' = Injected \cup {kind}
BY RangeAppend DEF Fault, Shape, Injected

LEMMA NoJobUses == NoJob.held = {} /\ NoJob.used = {}
BY DEF NoJob

LEMMA NewJobUses == ASSUME NEW b PROVE NewJob(b).held = {} /\ NewJob(b).used = {}
BY DEF NewJob, NoJob


\* The foreign key check finds every row: no rollback takes one away.
LEMMA ForeignKeysAlwaysHold ==
  ASSUME Shape, Backed, NEW t \in Tasks
  PROVE  ForeignKeyHolds(t)
BY DEF Backed, ForeignKeyHolds, Referred

LEMMA BackedStep == Shape /\ Backed /\ [Next]_vars => Backed'
<1> SUFFICES ASSUME Shape, Backed, [Next]_vars PROVE Backed'
  OBVIOUS
<1>0. job \in [Tasks -> Jobs]
  BY DEF Shape
<1>1. ASSUME dims \subseteq dims', cache' \subseteq dims',
             \A t \in Tasks : /\ job'[t].held \subseteq dims'
                              /\ job'[t].used \subseteq dims'
      PROVE  Backed'
  BY <1>1 DEF Backed
<1>2. ASSUME dims \subseteq dims', cache' \subseteq cache,
             \A t \in Tasks : job'[t] \in {job[t], NoJob}
      PROVE  Backed'
  <2>1. \A t \in Tasks : /\ job'[t].held \subseteq dims'
                         /\ job'[t].used \subseteq dims'
    BY <1>2, NoJobUses DEF Backed
  <2> QED
    BY <1>1, <1>2, <2>1 DEF Backed
<1>3. ASSUME NEW t \in Tasks, NEW b, TakeBatch(t, b), UNCHANGED <<dims, cache>>
      PROVE  Backed'
  <2>1. \A o \in Tasks : /\ job'[o].held \subseteq dims'
                         /\ job'[o].used \subseteq dims'
    BY <1>0, <1>3, NewJobUses DEF TakeBatch, Backed
  <2> QED
    BY <1>1, <1>3, <2>1 DEF Backed
<1>4. ASSUME NEW t \in Tasks, NEW committed \in BOOLEAN, NEW loss,
             EndJob(t, committed, loss), cache' = cache
      PROVE  Backed'
  BY <1>0, <1>2, <1>4 DEF EndJob
<1>5. ASSUME UNCHANGED <<dims, job>>, cache' \subseteq cache
      PROVE  Backed'
  BY <1>2, <1>5
<1>6. CASE Publish \/ Subscribe \/ StartUp \/ ConnectError \/ ListenError
           \/ StopPeriodic \/ Exit
  BY <1>5, <1>6 DEF Publish, Subscribe, StartUp, ConnectError, ListenError,
                    StopPeriodic, Exit, db
<1>7. CASE Receive \/ FlushTimer \/ Close
  BY <1>3, <1>5, <1>7 DEF Receive, FlushTimer, Close, Tasks, db
<1>8. ASSUME NEW t \in Tasks, Begin(t)
      PROVE  Backed'
  <2>1. /\ job' = [job EXCEPT ![t] = Advance(job[t], cache)]
        /\ UNCHANGED <<dims, cache>>
    BY <1>8 DEF Begin, db
  <2>2. Advance(job[t], cache).held = job[t].held
    BY <1>0, AdvanceType DEF Shape
  <2>3. Advance(job[t], cache).used \subseteq job[t].used \cup dims
    BY <1>0, AdvanceUsed DEF Backed
  <2> QED
    BY <1>0, <1>1, <2>1, <2>2, <2>3 DEF Backed
<1>9. ASSUME NEW t \in Tasks, Resolve(t)
      PROVE  Backed'
  <2> DEFINE name  == Head(job[t].todo)
             known == {row \in dims : row[1] = name}
             owner == [job[t] EXCEPT !.held = @ \cup known]
  <2>1. name \in Names
    BY <1>9, HeadTailProperties DEF Resolve, Shape, Jobs
  <2>2. known /= {} /\ known \subseteq dims
    BY <2>1 DEF Backed
  <2>3. cache' = {row \in cache : row[1] /= name} \cup known
    BY <1>9, <2>2 DEF Resolve
  <2>4. cache' \subseteq dims
    BY <2>2, <2>3 DEF Backed
  <2>5. job' = [job EXCEPT ![t] = Advance(owner, cache')]
    BY <1>9, <2>2 DEF Resolve
  <2>6. /\ owner \in Jobs /\ owner.used = job[t].used
        /\ owner.held = job[t].held \cup known
    BY <1>0, <2>2 DEF Shape, Jobs, Checking
  <2> HIDE DEF owner, known
  <2>7. Advance(owner, cache').held = owner.held
    BY <2>4, <2>6, AdvanceType DEF Shape
  <2>8. Advance(owner, cache').used \subseteq owner.used \cup dims
    BY <2>4, <2>6, AdvanceUsed
  <2>9. dims' = dims
    BY <1>9 DEF Resolve
  <2>10. \A o \in Tasks : /\ job'[o].held \subseteq dims'
                          /\ job'[o].used \subseteq dims'
    BY <1>0, <2>2, <2>5, <2>6, <2>7, <2>8, <2>9 DEF Backed
  <2> QED
    BY <1>1, <2>4, <2>9, <2>10
<1>10. ASSUME NEW t \in Tasks, Ends(t)
       PROVE  Backed'
  BY <1>4, <1>10, EndsByEndJob
<1>11. CASE Interrupt
  BY <1>4, <1>5, <1>11 DEF Interrupt, Tasks
<1>12. CASE CancelPeriodic
  BY <1>4, <1>12 DEF CancelPeriodic, Tasks
<1>13. CASE Crash
  BY <1>0, <1>2, <1>13 DEF Crash
<1>14. CASE UNCHANGED vars
  BY <1>5, <1>14 DEF vars
<1>15. ASSUME NEW t \in Tasks, Insert(t) \/ Check(t)
       PROVE  Backed'
  <2>1. PICK j \in Jobs : /\ job' = [job EXCEPT ![t] = j]
                          /\ j.held = job[t].held /\ j.used = job[t].used
    BY <1>15, InsertType, CheckType
  <2>2. UNCHANGED <<dims, cache>>
    BY <1>15 DEF Insert, Check, db
  <2> QED
    BY <1>0, <1>1, <2>1, <2>2 DEF Backed
<1> QED
  BY <1>6, <1>7, <1>8, <1>9, <1>10, <1>11, <1>12, <1>13, <1>14, <1>15, NextIs
     DEF Works

\* A step that injects no fault and changes no fate but these.
LEMMA ExcusedUnless ==
  ASSUME Excused, Injected \subseteq Injected', Deadlocked => Deadlocked',
         \A m \in Msgs : \/ fate'[m] = fate[m]
                         \/ fate'[m] \in {"unborn", "open", "saved", "missed", "overflow",
                                         "deadlocked"}
                         \/ fate'[m] = "failed" /\ "db" \in Injected'
                         \/ fate'[m] = "abandoned" /\ ("db" \in Injected' \/ Deadlocked')
                         \/ fate'[m] = "crashed" /\ "crash" \in Injected'
                         \/ /\ fate'[m] \in {"cancelled", "unread"}
                            /\ \/ Injected' \cap {"redis", "db", "stop"} /= {}
                               \/ Deadlocked'
  PROVE  Excused'
<1> DEFINE Dead  == Deadlocked
           Dead2 == Deadlocked'
<1>1. Dead => Dead2
  OBVIOUS
<1>2. \A m \in Msgs :
        /\ fate[m] = "failed" => "db" \in Injected
        /\ fate[m] = "abandoned" => "db" \in Injected \/ Dead
        /\ fate[m] = "crashed" => "crash" \in Injected
        /\ fate[m] \in {"cancelled", "unread"} =>
             Injected \cap {"redis", "db", "stop"} /= {} \/ Dead
  BY DEF Excused
<1>3. \A m \in Msgs :
        \/ fate'[m] = fate[m]
        \/ fate'[m] \in {"unborn", "open", "saved", "missed", "overflow", "deadlocked"}
        \/ fate'[m] = "failed" /\ "db" \in Injected'
        \/ fate'[m] = "abandoned" /\ ("db" \in Injected' \/ Dead2)
        \/ fate'[m] = "crashed" /\ "crash" \in Injected'
        \/ /\ fate'[m] \in {"cancelled", "unread"}
           /\ Injected' \cap {"redis", "db", "stop"} /= {} \/ Dead2
  OBVIOUS
<1> HIDE DEF Dead, Dead2
<1>4. \A m \in Msgs :
        /\ fate'[m] = "failed" => "db" \in Injected'
        /\ fate'[m] = "abandoned" => "db" \in Injected' \/ Dead2
        /\ fate'[m] = "crashed" => "crash" \in Injected'
        /\ fate'[m] \in {"cancelled", "unread"} =>
             Injected' \cap {"redis", "db", "stop"} /= {} \/ Dead2
  BY <1>1, <1>2, <1>3
<1> QED
  BY <1>4 DEF Excused, Dead2

\* What is deadlocked stays so, and a deadlock leaves records that are.
LEMMA DeadlockedStays ==
  ASSUME SaverInv, [Next]_vars, Deadlocked
  PROVE  Deadlocked'
<1>1. CASE SettledOnly
  BY <1>1 DEF SettledOnly, Deadlocked
<1>2. ASSUME NEW m \in Msgs, Born(m)
      PROVE  Deadlocked'
  <2>1. fate \in [Msgs -> Fates]
    BY DEF SaverInv, Shape
  <2> QED
    BY <1>2, <2>1 DEF Born, Deadlocked
<1> QED
  BY <1>1, <1>2, FateStep

LEMMA DeadlockLeaves ==
  ASSUME SaverInv, NEW t \in Tasks, Deadlock(t)
  PROVE  Deadlocked'
<1>1. job[t].stage /= "idle"
  BY WaitingCalls DEF Deadlock
<1>2. job[t].recs \in Seq(Msgs) /\ job[t].recs /= <<>>
  BY <1>1 DEF SaverInv, Control, Shape, Jobs
<1>3. Head(job[t].recs) \in Range(job[t].recs) /\ Head(job[t].recs) \in Msgs
  BY <1>2, RangeHeadTail
<1>4. fate'[Head(job[t].recs)] = "deadlocked"
  BY <1>3 DEF Deadlock, EndJob, Mark
<1> QED
  BY <1>3, <1>4 DEF Deadlocked

LEMMA EndJobFate ==
  ASSUME NEW t \in Tasks, NEW committed \in BOOLEAN, NEW loss,
         EndJob(t, committed, loss)
  PROVE  \A m \in Msgs : fate'[m] \in {fate[m], "saved", loss}
BY DEF EndJob, Mark

LEMMA CauseStep ==
  SaverInv /\ CauseInv /\ [Next]_vars => Reasons' /\ Excused'
<1> SUFFICES ASSUME SaverInv, CauseInv, [Next]_vars
             PROVE  Reasons' /\ Excused'
  OBVIOUS
<1> USE DeadlockedStays
<1>0. Shape /\ Control
  BY DEF SaverInv
<1>1. ASSUME faults' = faults
      PROVE  Injected' = Injected
  BY <1>1 DEF Injected
<1>2. CASE Publish
  BY <1>1, <1>2, ExcusedUnless DEF Publish, Mark, CauseInv, Reasons
<1>3. CASE Receive
  <2>1. main = "listen" /\ main' \in {"listen", "sizeFlush"} /\ periodic' = periodic
    BY <1>3 DEF Receive
  <2>2. \A m \in Msgs : fate'[m] \in {fate[m], "overflow"}
    BY <1>3 DEF Receive, Mark
  <2> QED
    BY <1>1, <1>3, <2>1, <2>2, ExcusedUnless DEF Receive, CauseInv, Reasons
<1>4. CASE Subscribe \/ StartUp
  BY <1>1, <1>4, ExcusedUnless DEF Subscribe, StartUp, CauseInv, Reasons
<1>5. CASE FlushTimer
  <2>1. batch' \in {batch, <<>>} /\ main' = main /\ fate' = fate
        /\ periodic' /= "failed" /\ faults' = faults
    BY <1>5 DEF FlushTimer, TakeBatch
  <2> QED
    BY <1>1, <2>1, ExcusedUnless DEF CauseInv, Reasons
<1>6. CASE Close
  <2>1. /\ main = "close" /\ main' \in {"exit", "closeFlush"} /\ batch' = <<>>
        /\ UNCHANGED <<periodic, fate, faults>>
    BY <1>6 DEF Close, TakeBatch
  <2> QED
    BY <1>1, <2>1, ExcusedUnless DEF CauseInv, Reasons
<1>7. ASSUME NEW t \in Tasks, Works(t)
      PROVE  Reasons' /\ Excused'
  BY <1>1, <1>7, WorksLeaves, ExcusedUnless DEF CauseInv, Reasons
<1>8. ASSUME NEW t \in Tasks, Commit(t)
      PROVE  Reasons' /\ Excused'
  <2>1. \A m \in Msgs : fate'[m] \in {fate[m], "saved"}
    BY <1>8 DEF Commit, EndJob, Mark
  <2>2. /\ UNCHANGED <<batch, faults>>
        /\ \/ /\ t = "main" /\ periodic' = periodic
              /\ main' = IF main = "closeFlush" THEN "exit" ELSE "listen"
           \/ t = "periodic" /\ periodic' = "sleep" /\ main' = main
    BY <1>8 DEF Commit, Return, PeriodicAfter
  <2>3. main = "closeFlush" => batch = <<>>
    BY <1>0 DEF Control
  <2> QED
    BY <1>1, <2>1, <2>2, <2>3, ExcusedUnless DEF CauseInv, Reasons
<1>9. ASSUME NEW t \in Tasks, Violate(t)
      PROVE  FALSE
  BY <1>0, <1>9, ForeignKeysAlwaysHold DEF Violate, CauseInv
<1>10. ASSUME NEW t \in Tasks, DbError(t)
       PROVE  Reasons' /\ Excused'
  <2>1. Injected' = Injected \cup {"db"}
    BY <1>0, <1>10, FaultInjects DEF DbError
  <2>2. \A m \in Msgs : fate'[m] \in {fate[m], "saved", "failed"}
    BY <1>10, EndJobFate DEF DbError
  <2> QED
    BY <2>1, <2>2, ExcusedUnless DEF CauseInv, Reasons
<1>11. CASE ConnectError
  <2>1. Injected' = Injected \cup {"db"}
    BY <1>0, <1>11, FaultInjects DEF ConnectError
  <2> QED
    BY <1>11, <2>1, ExcusedUnless DEF ConnectError, CauseInv, Reasons
<1>12. CASE ListenError
  <2>1. Injected' = Injected \cup {"redis"}
    BY <1>0, <1>12, FaultInjects DEF ListenError
  <2> QED
    BY <1>12, <2>1, ExcusedUnless DEF ListenError, CauseInv, Reasons
<1>13. CASE Interrupt
  <2>1. Injected' = Injected \cup {"stop"}
    BY <1>0, <1>13, FaultInjects DEF Interrupt
  <2>2. \A m \in Msgs : fate'[m] \in {fate[m], "saved", "cancelled"}
    BY <1>13, EndJobFate DEF Interrupt, Tasks
  <2>3. /\ main' = "stop" \/ (main' = "exit" /\ main \in {"connecting", "closeFlush"})
        /\ UNCHANGED <<batch, periodic>>
    BY <1>13 DEF Interrupt
  <2>4. main \in {"connecting", "closeFlush"} => batch = <<>>
    BY <1>0 DEF Control
  <2> QED
    BY <2>1, <2>2, <2>3, <2>4, ExcusedUnless DEF CauseInv, Reasons
<1>14. CASE StopPeriodic
  BY <1>1, <1>14, ExcusedUnless
     DEF StopPeriodic, AfterPeriodic, CauseInv, Reasons
<1>15. CASE CancelPeriodic
  <2>1. \A m \in Msgs : fate'[m] \in {fate[m], "saved", "cancelled"}
    BY <1>15, EndJobFate DEF CancelPeriodic, Tasks
  <2>2. \/ main' = "close" /\ Injected' = Injected
        \/ main' = "exit" /\ Injected' = Injected \cup {"db"}
    BY <1>0, <1>1, <1>15, FaultInjects DEF CancelPeriodic
  <2>3. main = "stop" /\ periodic' = "off"
    BY <1>15 DEF CancelPeriodic
  <2> QED
    BY <2>1, <2>2, <2>3, ExcusedUnless DEF CauseInv, Reasons
<1>16. CASE Exit
  <2>1. /\ main = "exit" /\ main' = "down" /\ periodic' = "off"
        /\ batch' = <<>> /\ faults' = faults
    BY <1>16 DEF Exit
  <2>2. \A m \in Msgs : \/ fate'[m] \in {fate[m], "unread"}
                        \/ fate'[m] = "abandoned" /\ batch /= <<>>
    BY <1>16, RangeEmpty DEF Exit
  <2> QED
    BY <1>1, <2>1, <2>2, ExcusedUnless DEF CauseInv, Reasons
<1>17. CASE Crash
  <2>1. Injected' = Injected \cup {"crash"}
    BY <1>0, <1>17, FaultInjects DEF Crash
  <2>2. \A m \in Msgs : fate'[m] \in {fate[m], "saved", "crashed"}
    BY <1>17 DEF Crash
  <2>3. main' = "down" /\ periodic' = "off"
    BY <1>17 DEF Crash
  <2> QED
    BY <2>1, <2>2, <2>3, ExcusedUnless DEF CauseInv, Reasons
<1>18. CASE UNCHANGED vars
  BY <1>1, <1>18, ExcusedUnless DEF vars, CauseInv, Reasons
<1>19. ASSUME NEW t \in Tasks, Deadlock(t)
       PROVE  Reasons' /\ Excused'
  <2>1. \A m \in Msgs : fate'[m] \in {fate[m], "deadlocked"}
    BY <1>19 DEF Deadlock, EndJob, Mark
  <2>2. Deadlocked'
    BY <1>19, DeadlockLeaves
  <2> QED
    BY <1>1, <1>19, <2>1, <2>2, ExcusedUnless DEF Deadlock, CauseInv, Reasons
<1> QED
  BY <1>2, <1>3, <1>4, <1>5, <1>6, <1>7, <1>8, <1>9, <1>10, <1>11, <1>12,
     <1>13, <1>14, <1>15, <1>16, <1>17, <1>18, <1>19, NextIs DEF Ends

LEMMA InitCauses == Init /\ SeedNames = Names => CauseInv
<1> SUFFICES ASSUME Init, SeedNames = Names PROVE CauseInv
  OBVIOUS
<1>1. \A n \in Names : \E row \in dims : row[1] = n
  <2>1. PICK ids : dims = {<<n, ids[n]>> : n \in SeedNames}
    BY DEF Init
  <2> SUFFICES ASSUME NEW n \in Names PROVE \E row \in dims : row[1] = n
    OBVIOUS
  <2>2. <<n, ids[n]>> \in dims
    BY <2>1
  <2>3. <<n, ids[n]>>[1] = n
    OBVIOUS
  <2> QED
    BY <2>2, <2>3
<1>2. Backed
  BY <1>1, NoJobUses DEF Init, Backed
<1>3. Reasons /\ Excused
  BY DEF Init, Reasons, Excused
<1> QED
  BY <1>2, <1>3 DEF CauseInv

\* With the symbol and interval rows in place, no flush fails by itself but for a
\* deadlock with the other one: every other loss of a record handed to the worker
\* has a fault of its surroundings, or a deadlock, before it, and what is left in
\* the batch at the exit a database error or a deadlock.
THEOREM LossesExplained == Spec => []LossHasCause
<1> DEFINE Inv == SeedNames = Names => CauseInv
<1>1. Init => Inv
  BY InitCauses
<1>2. SaverInv /\ Inv /\ [Next]_vars => Inv'
  BY BackedStep, CauseStep DEF CauseInv, SaverInv
<1>3. Inv => LossHasCause
  BY DEF CauseInv, Excused, LossHasCause, Injected, Deadlocked
<1> HIDE DEF Inv
<1> QED
  BY <1>1, <1>2, <1>3, SaverInvariant, PTL DEF Spec

-----------------------------------------------------------------------------
\* The id caches.  Whatever a transaction holds is in the cache, and a process
\* starts with an empty one.
Remembered == \A t \in Tasks : NamesIn(job[t].held) \subseteq NamesIn(cache)
Fresh == main \in {"down", "connecting"} => cache = {}

CacheInv == Remembered /\ Fresh /\ CacheBacked /\ NoUpsertCycle

\* A task stops only for a name that is not in the cache: the names it passes
\* over are an initial segment of its list, and the first after them is missing.
LEMMA AdvanceStops ==
  ASSUME NEW j \in Jobs, NEW c, Advance(j, c).stage = "resolve"
  PROVE  Head(Advance(j, c).todo) \notin NamesIn(c)
<1> DEFINE n == Len(j.todo)
           hits == {i \in DOMAIN j.todo : \A k \in 1..i : j.todo[k] \in NamesIn(c)}
           T == (1..(n + 1)) \ hits
<1>1. j.todo \in Seq(Names) /\ n \in Nat /\ DOMAIN j.todo = 1..n
  BY DEF Jobs
<1>2. PICK m \in T : \A k \in T : m <= k
  <2>1. T \in SUBSET Nat /\ n + 1 \in T
    BY <1>1
  <2> HIDE DEF T
  <2> QED
    BY <2>1, NatSetMin
<1>3. m \in 1..(n + 1) /\ m \notin hits
  BY <1>2
<1>4. hits = 1..(m - 1)
  <2>1. ASSUME NEW i \in 1..(m - 1)
        PROVE  i \in hits
    <3>1. i \in 1..(n + 1) /\ ~(m <= i)
      BY <1>1, <1>3
    <3> QED
      BY <1>2, <3>1
  <2>2. ASSUME NEW i \in hits
        PROVE  i \in 1..(m - 1)
    <3>1. i \in 1..n /\ \A k \in 1..i : j.todo[k] \in NamesIn(c)
      BY <1>1
    <3>2. CASE m <= i
      <4>1. m \in 1..n /\ \A k \in 1..m : k \in 1..i
        BY <1>1, <1>3, <3>1, <3>2
      <4> QED
        BY <1>1, <1>3, <3>1, <4>1
    <3> QED
      BY <1>1, <1>3, <3>1, <3>2
  <2> HIDE DEF hits
  <2> QED
    BY <2>1, <2>2
<1>5. Cardinality(hits) = m - 1
  <2>1. 1 \in Int /\ m - 1 \in Int
    BY <1>1, <1>3
  <2>2. Cardinality(1..(m - 1)) = IF 1 > m - 1 THEN 0 ELSE (m - 1) - 1 + 1
    BY <2>1, FS_Interval
  <2> HIDE DEF hits
  <2> QED
    BY <1>1, <1>3, <1>4, <2>2
<1>6. /\ Advance(j, c).stage = IF Cardinality(hits) = n THEN "insert" ELSE "resolve"
      /\ Advance(j, c).todo = SubSeq(j.todo, Cardinality(hits) + 1, n)
  BY DEF Advance, Dictionary, Jobs
<1>7. m \in 1..n
  <2> HIDE DEF hits
  <2> QED
    BY <1>1, <1>3, <1>5, <1>6
<1>8. Head(Advance(j, c).todo) = j.todo[m]
  <2> HIDE DEF hits
  <2>1. Advance(j, c).todo = SubSeq(j.todo, m, n)
    BY <1>1, <1>3, <1>5, <1>6
  <2>2. Head(SubSeq(j.todo, m, n)) = j.todo[m]
    BY <1>1, <1>7
  <2> QED
    BY <2>1, <2>2
<1>9. \A k \in 1..(m - 1) : j.todo[k] \in NamesIn(c)
  <2>1. ASSUME NEW k \in 1..(m - 1)
        PROVE  j.todo[k] \in NamesIn(c)
    <3>1. k \in hits /\ k \in 1..k
      BY <1>3, <1>4
    <3> QED
      BY <3>1
  <2> QED
    BY <2>1
<1>10. PICK k \in 1..m : j.todo[k] \notin NamesIn(c)
  BY <1>1, <1>3, <1>7
<1>11. k = m
  BY <1>3, <1>9, <1>10
<1> QED
  BY <1>8, <1>10, <1>11

\* What a lookup that returns leaves in the cache and in its transaction.
LEMMA ResolveRemembers ==
  ASSUME Shape, NEW t \in Tasks, Resolve(t)
  PROVE  \E rows : /\ rows \subseteq Rows
                   /\ \A row \in cache : row \in cache' \/ row[1] \in NamesIn(rows)
                   /\ cache' \subseteq cache \cup rows /\ rows \subseteq cache'
                   /\ \E j \in Jobs : /\ job' = [job EXCEPT ![t] = Advance(j, cache')]
                                      /\ j.held = job[t].held \cup rows
<1> DEFINE name  == Head(job[t].todo)
           known == {row \in dims : row[1] = name}
           rows  == IF known = {} THEN {<<name, nextId>>} ELSE known
           owner == [job[t] EXCEPT !.held = @ \cup rows]
<1>1. job[t] \in Jobs /\ job[t].stage = "resolve"
  BY DEF Resolve, Shape
<1>2. name \in Names
  BY <1>1, HeadTailProperties DEF Jobs
<1>3. rows \subseteq Rows
  BY <1>2 DEF Shape, Rows
<1>4. name \in NamesIn(rows)
  <2>1. CASE known = {}
    BY <2>1 DEF NamesIn
  <2>2. CASE known /= {}
    BY <2>2 DEF NamesIn
  <2> QED
    BY <2>1, <2>2
<1>5. /\ cache' = {row \in cache : row[1] /= name} \cup rows
      /\ job' = [job EXCEPT ![t] = Advance(owner, cache')]
  BY DEF Resolve
<1> HIDE DEF rows, name
<1>6. owner \in Jobs /\ owner.held = job[t].held \cup rows
  BY <1>1, <1>3 DEF Jobs, Checking
<1> QED
  BY <1>3, <1>4, <1>5, <1>6

\* A lock cycle needs a task that stopped last for a name which the other holds,
\* and thus for one that is in the cache.
LEMMA LocksStep ==
  Shape /\ Control /\ Remembered /\ NoUpsertCycle /\ [Next]_vars
    => Remembered' /\ NoUpsertCycle'
<1> SUFFICES ASSUME Shape, Control, Remembered, NoUpsertCycle, [Next]_vars
             PROVE  Remembered' /\ NoUpsertCycle'
  OBVIOUS
<1>0. job \in [Tasks -> Jobs] /\ NamesIn({}) = {}
  BY DEF Shape, NamesIn
<1>1. ASSUME cache' = cache,
             \A t \in Tasks : \/ job'[t] = job[t]
                              \/ /\ job'[t].held \subseteq job[t].held
                                 /\ job'[t].stage /= "resolve"
      PROVE  Remembered' /\ NoUpsertCycle'
  <2>1. Remembered'
    BY <1>0, <1>1 DEF Remembered, NamesIn
  <2>2. NoUpsertCycle'
    <3>1. SUFFICES ASSUME \A t \in Tasks : job'[t].stage = "resolve"
                   PROVE  NoUpsertCycle'
      BY DEF NoUpsertCycle
    <3>2. \A t \in Tasks : job'[t] = job[t]
      BY <1>1, <3>1
    <3> QED
      BY <3>2 DEF NoUpsertCycle
  <2> QED
    BY <2>1, <2>2
<1>2. ASSUME NEW t \in Tasks, NEW j \in Jobs,
             job' = [job EXCEPT ![t] = Advance(j, cache')],
             Advance(j, cache').held = j.held,
             NamesIn(cache) \subseteq NamesIn(cache'),
             NamesIn(j.held) \subseteq NamesIn(cache')
      PROVE  Remembered' /\ NoUpsertCycle'
  <2>1. \A o \in Tasks : NamesIn(job'[o].held) \subseteq NamesIn(cache')
    BY <1>0, <1>2 DEF Remembered
  <2>2. job'[t].stage = "resolve" => Head(job'[t].todo) \notin NamesIn(cache')
    BY <1>0, <1>2, AdvanceStops
  <2> QED
    BY <2>1, <2>2 DEF Remembered, NoUpsertCycle
<1>3. ASSUME NEW t \in Tasks, NEW b, TakeBatch(t, b), cache' = cache
      PROVE  Remembered' /\ NoUpsertCycle'
  <2>1. \A o \in Tasks : \/ job'[o] = job[o]
                         \/ job'[o].held = {} /\ job'[o].stage /= "resolve"
    BY <1>0, <1>3 DEF TakeBatch, NewJob, NoJob
  <2> QED
    BY <1>1, <1>3, <2>1
<1>4. ASSUME NEW t \in Tasks, NEW committed, NEW loss, EndJob(t, committed, loss),
             cache' = cache
      PROVE  Remembered' /\ NoUpsertCycle'
  <2>1. \A o \in Tasks : \/ job'[o] = job[o]
                         \/ job'[o].held = {} /\ job'[o].stage /= "resolve"
    BY <1>0, <1>4 DEF EndJob, NoJob
  <2> QED
    BY <1>1, <1>4, <2>1
<1>5. ASSUME UNCHANGED <<job, cache>>
      PROVE  Remembered' /\ NoUpsertCycle'
  BY <1>5 DEF Remembered, NoUpsertCycle
<1>6. ASSUME cache' = {}, \A t \in Tasks : job'[t] = NoJob
      PROVE  Remembered' /\ NoUpsertCycle'
  <2>1. \A t \in Tasks : job'[t].held = {} /\ job'[t].stage /= "resolve"
    BY <1>6 DEF NoJob
  <2>2. "main" \in Tasks
    BY DEF Tasks
  <2> QED
    BY <1>0, <2>1, <2>2 DEF Remembered, NoUpsertCycle
<1>7. CASE Publish \/ Subscribe \/ StartUp \/ ConnectError \/ ListenError
           \/ StopPeriodic
  BY <1>5, <1>7 DEF Publish, Subscribe, StartUp, ConnectError, ListenError,
                    StopPeriodic
<1>8. CASE Receive \/ FlushTimer \/ Close
  BY <1>3, <1>5, <1>8 DEF Receive, FlushTimer, Close, Tasks
<1>9. ASSUME NEW t \in Tasks, Begin(t)
      PROVE  Remembered' /\ NoUpsertCycle'
  <2>1. job' = [job EXCEPT ![t] = Advance(job[t], cache')] /\ cache' = cache
    BY <1>9 DEF Begin
  <2>2. Advance(job[t], cache').held = job[t].held
    BY <1>0, <2>1, AdvanceType DEF Shape
  <2> QED
    BY <1>0, <1>2, <2>1, <2>2 DEF Remembered
<1>10. ASSUME NEW t \in Tasks, Resolve(t)
       PROVE  Remembered' /\ NoUpsertCycle'
  <2>1. PICK rows : /\ rows \subseteq Rows
                    /\ \A row \in cache : row \in cache' \/ row[1] \in NamesIn(rows)
                    /\ cache' \subseteq cache \cup rows /\ rows \subseteq cache'
                    /\ \E j \in Jobs : /\ job' = [job EXCEPT ![t] = Advance(j, cache')]
                                       /\ j.held = job[t].held \cup rows
    BY <1>10, ResolveRemembers
  <2>2. PICK j \in Jobs : /\ job' = [job EXCEPT ![t] = Advance(j, cache')]
                          /\ j.held = job[t].held \cup rows
    BY <2>1
  <2>3. NamesIn(cache) \subseteq NamesIn(cache') /\ NamesIn(rows) \subseteq NamesIn(cache')
    BY <2>1 DEF NamesIn
  <2>4. NamesIn(j.held) \subseteq NamesIn(cache')
    <3>1. NamesIn(j.held) = NamesIn(job[t].held) \cup NamesIn(rows)
      BY <2>2 DEF NamesIn
    <3> QED
      BY <2>3, <3>1 DEF Remembered
  <2>5. Advance(j, cache').held = j.held
    <3>1. cache' \subseteq Rows
      BY <2>1 DEF Shape
    <3> QED
      BY <3>1, AdvanceType
  <2> QED
    BY <1>2, <2>2, <2>3, <2>4, <2>5
<1>11. ASSUME NEW t \in Tasks, Ends(t)
       PROVE  Remembered' /\ NoUpsertCycle'
  BY <1>4, <1>11, EndsByEndJob
<1>12. CASE Interrupt \/ CancelPeriodic
  BY <1>4, <1>5, <1>12 DEF Interrupt, CancelPeriodic, Tasks
<1>13. CASE Exit
  BY <1>6, <1>13 DEF Exit, Control, Tasks
<1>14. CASE Crash
  BY <1>6, <1>14 DEF Crash
<1>15. CASE UNCHANGED vars
  BY <1>5, <1>15 DEF vars
<1>16. ASSUME NEW t \in Tasks, Insert(t) \/ Check(t)
       PROVE  Remembered' /\ NoUpsertCycle'
  <2>1. PICK j \in Jobs : /\ job' = [job EXCEPT ![t] = j]
                          /\ j.held = job[t].held /\ j.stage /= "resolve"
    BY <1>16, InsertType, CheckType
  <2>2. cache' = cache
    BY <1>16 DEF Insert, Check
  <2> QED
    BY <1>0, <1>1, <2>1, <2>2
<1> QED
  BY <1>7, <1>8, <1>9, <1>10, <1>11, <1>12, <1>13, <1>14, <1>15, <1>16, NextIs
     DEF Works

\* While both tasks run, each transaction has ended by its commit.
LEMMA BackingStep ==
  Shape /\ Control /\ Fresh /\ CacheBacked /\ [Next]_vars => Fresh' /\ CacheBacked'
<1> SUFFICES ASSUME Shape, Control, Fresh, CacheBacked, [Next]_vars
             PROVE  Fresh' /\ CacheBacked'
  OBVIOUS
<1>0. job \in [Tasks -> Jobs] /\ Tasks = {"main", "periodic"}
  BY DEF Shape, Tasks
<1>1. ASSUME main' \in {"stop", "close", "closeFlush", "exit"}
      PROVE  Fresh' /\ CacheBacked'
  BY <1>1 DEF Fresh, CacheBacked
<1>2. ASSUME UNCHANGED <<main, periodic, cache, dims>>,
             \A t \in Tasks : job[t].held \subseteq job'[t].held
      PROVE  Fresh' /\ CacheBacked'
  BY <1>0, <1>2 DEF Fresh, CacheBacked
<1>3. CASE Publish
  BY <1>2, <1>3 DEF Publish, db
<1>4. CASE Subscribe
  BY <1>4 DEF Subscribe, Fresh, CacheBacked
<1>5. CASE StartUp
  BY <1>5 DEF StartUp, Fresh, CacheBacked
<1>6. CASE ConnectError \/ ListenError \/ Interrupt \/ StopPeriodic \/ CancelPeriodic
           \/ Close
  BY <1>1, <1>6 DEF ConnectError, ListenError, Interrupt, StopPeriodic, AfterPeriodic,
                    CancelPeriodic, Close
<1>7. CASE Receive
  <2>1. job["main"].held = {}
    BY <1>0, <1>7 DEF Receive, Control, NoJob
  <2>2. job["main"].held \subseteq job'["main"].held /\ job'["periodic"] = job["periodic"]
    BY <1>0, <1>7, <2>1 DEF Receive, TakeBatch
  <2>3. main = "listen" /\ main' \in {"listen", "sizeFlush"}
        /\ UNCHANGED <<periodic, cache, dims>>
    BY <1>7 DEF Receive, db
  <2> QED
    BY <2>2, <2>3 DEF Fresh, CacheBacked
<1>8. CASE FlushTimer
  <2>1. job["periodic"].held = {}
    BY <1>0, <1>8 DEF FlushTimer, Control, NoJob
  <2>2. job["periodic"].held \subseteq job'["periodic"].held /\ job'["main"] = job["main"]
    BY <1>0, <1>8, <2>1 DEF FlushTimer, TakeBatch
  <2>3. periodic = "sleep" /\ UNCHANGED <<main, cache, dims>>
    BY <1>8 DEF FlushTimer, db
  <2> QED
    BY <2>2, <2>3 DEF Fresh, CacheBacked
<1>9. ASSUME NEW t \in Tasks, Begin(t)
      PROVE  Fresh' /\ CacheBacked'
  <2>1. job' = [job EXCEPT ![t] = Advance(job[t], cache)]
        /\ UNCHANGED <<main, periodic, cache, dims>>
    BY <1>9 DEF Begin, db
  <2>2. Advance(job[t], cache).held = job[t].held
    BY <1>0, AdvanceType DEF Shape
  <2> QED
    BY <1>0, <1>2, <2>1, <2>2
<1>10. ASSUME NEW t \in Tasks, Resolve(t)
       PROVE  Fresh' /\ CacheBacked'
  <2>1. PICK rows : /\ cache' \subseteq cache \cup rows /\ rows \subseteq cache'
                    /\ \E j \in Jobs : /\ job' = [job EXCEPT ![t] = Advance(j, cache')]
                                       /\ j.held = job[t].held \cup rows
    BY <1>10, ResolveRemembers
  <2>2. PICK j \in Jobs : /\ job' = [job EXCEPT ![t] = Advance(j, cache')]
                          /\ j.held = job[t].held \cup rows
    BY <2>1
  <2>3. cache' \subseteq Rows
    BY <1>10, ResolveType
  <2>4. job'[t].held = job[t].held \cup rows
    BY <1>0, <2>2, <2>3, AdvanceType
  <2>5. \A o \in Tasks \ {t} : job'[o] = job[o]
    BY <1>0, <2>2
  <2>6. UNCHANGED <<main, periodic, dims>>
    BY <1>10 DEF Resolve
  <2>7. main \notin {"down", "connecting"}
    BY <1>0, <1>10 DEF Resolve, Control
  <2> QED
    BY <1>0, <2>1, <2>4, <2>5, <2>6, <2>7 DEF Fresh, CacheBacked
<1>11. ASSUME NEW t \in Tasks, Commit(t)
       PROVE  Fresh' /\ CacheBacked'
  <2>1. /\ dims' = dims \cup job[t].held /\ UNCHANGED cache
        /\ \A o \in Tasks \ {t} : job'[o] = job[o]
        /\ job[t].stage /= "idle"
    BY <1>0, <1>11 DEF Commit, EndJob, CanCommit
  <2>2. CASE t = "main"
    <3>1. UNCHANGED periodic /\ main \in {"sizeFlush", "closeFlush"}
      BY <1>11, <2>1, <2>2 DEF Commit, Return, Control
    <3>2. main' = IF main = "closeFlush" THEN "exit" ELSE "listen"
      BY <1>11, <2>2 DEF Commit, Return
    <3> QED
      BY <1>0, <2>1, <2>2, <3>1, <3>2 DEF Fresh, CacheBacked
  <2>3. CASE t = "periodic"
    <3>1. UNCHANGED main /\ periodic = "flush"
      BY <1>11, <2>1, <2>3 DEF Commit, Return, Control
    <3>2. main \notin {"down", "connecting"}
      BY <3>1 DEF Control
    <3> QED
      BY <1>0, <2>1, <2>3, <3>1, <3>2 DEF Fresh, CacheBacked
  <2> QED
    BY <1>0, <2>2, <2>3
<1>12. ASSUME NEW t \in Tasks, Violate(t) \/ Deadlock(t) \/ DbError(t)
       PROVE  Fresh' /\ CacheBacked'
  <2>1. Return(t, FALSE) /\ UNCHANGED cache
    BY <1>12 DEF Violate, Deadlock, DbError
  <2>2. CASE t = "main"
    BY <1>1, <2>1, <2>2 DEF Return
  <2>3. CASE t = "periodic"
    <3>1. UNCHANGED main /\ periodic' = "failed"
      BY <2>1, <2>3 DEF Return, PeriodicAfter
    <3> QED
      BY <2>1, <3>1 DEF Fresh, CacheBacked
  <2> QED
    BY <1>0, <2>2, <2>3
<1>13. CASE Exit \/ Crash
  BY <1>13 DEF Exit, Crash, Fresh, CacheBacked
<1>14. CASE UNCHANGED vars
  BY <1>14 DEF vars, Fresh, CacheBacked
<1>15. ASSUME NEW t \in Tasks, Insert(t) \/ Check(t)
       PROVE  Fresh' /\ CacheBacked'
  <2>1. PICK j \in Jobs : job' = [job EXCEPT ![t] = j] /\ j.held = job[t].held
    BY <1>15, InsertType, CheckType
  <2>2. UNCHANGED <<main, periodic, cache, dims>>
    BY <1>15 DEF Insert, Check, db
  <2> QED
    BY <1>0, <1>2, <2>1, <2>2
<1> QED
  BY <1>3, <1>4, <1>5, <1>6, <1>7, <1>8, <1>9, <1>10, <1>11, <1>12, <1>13, <1>14,
     <1>15, NextIs DEF Works, Ends

LEMMA CacheInvariant == Spec => []CacheInv
<1>1. Init => CacheInv
  <2> SUFFICES ASSUME Init PROVE CacheInv
    OBVIOUS
  <2>1. /\ main = "down" /\ cache = {}
        /\ \A t \in Tasks : job[t].held = {} /\ job[t].stage /= "resolve"
    BY DEF Init, NoJob
  <2>2. "main" \in Tasks
    BY DEF Tasks
  <2> QED
    BY <2>1, <2>2 DEF CacheInv, Remembered, Fresh, CacheBacked, NoUpsertCycle, NamesIn
<1>2. SaverInv /\ CacheInv /\ [Next]_vars => CacheInv'
  BY LocksStep, BackingStep DEF CacheInv, SaverInv
<1> QED
  BY <1>1, <1>2, SaverInvariant, PTL DEF Spec

\* While both tasks run, every cached id is that of a row which is committed or
\* which an open transaction holds: a rollback that leaves one dangling ends
\* the task it happens in.
THEOREM CachesBacked == Spec => []CacheBacked
<1>1. CacheInv => CacheBacked
  BY DEF CacheInv
<1> QED
  BY <1>1, CacheInvariant, PTL

\* While both flushers look up ids, in whatever order their records name the same
\* rows, they do not wait for each other.
THEOREM LocksFree == Spec => []NoUpsertCycle
<1>1. CacheInv => NoUpsertCycle
  BY DEF CacheInv
<1> QED
  BY <1>1, CacheInvariant, PTL
=============================================================================
