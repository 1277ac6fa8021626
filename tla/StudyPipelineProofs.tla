------------------------ MODULE StudyPipelineProofs ------------------------
(***************************************************************************)
(* For any batches and cards: TypeOK; LevelNeverFalls, for one worker;     *)
(* StoredOnce; DoneMeansRecorded; NoLockCycle; LevelNeverInflated. And for *)
(* one worker and histories within HISTORY_LIMIT: LastTimesMatchHistory,   *)
(* LevelMatchesHistory and the refinement of StudyLedger.                  *)
(***************************************************************************)
EXTENDS StudyPipeline, StrengthProofs, SequenceTheorems

(***************************************************************************)
(* The inductive form of TypeOK, table by table. It adds that the tables   *)
(* are finite, which makes a query's result a sequence, and that a busy    *)
(* worker has a job.                                                       *)
(***************************************************************************)
JobsOK ==
  /\ IsPartial(jobs, JobIds, Job)
  /\ \A j \in DOMAIN jobs : jobs[j].state # "failed" =>
        jobs[j].attempts < MaxAttempts /\ jobs[j].stalls <= MaxStalls

TablesOK ==
  /\ rows \subseteq Row /\ IsFiniteSet(rows)
  /\ cardState \in [Card -> {"unborn", "live", "gone"}]
  /\ level \in [Card -> Level] /\ status \in [Card -> Status]
  /\ lastCorrect \in [Card -> Nat] /\ lastWrong \in [Card -> Nat]

CallsOK ==
  /\ pc \in [Worker -> Labels]
  /\ job \in [Worker -> JobIds \union {NoJob}]
  /\ \A w \in Worker : pc[w] # "idle" => job[w] \in JobIds
  /\ payload \in [Worker -> Seq(RawEvent)]
  /\ \A w \in Worker : DOMAIN payload[w] \subseteq 1 .. MaxBatch
  /\ DOMAIN owned = Worker
  /\ \A w \in Worker : IsPartial(owned[w], 1 .. MaxBatch, Event)

TxOK ==
  /\ DOMAIN seen = Worker /\ DOMAIN writes = Worker
  /\ \A w \in Worker : /\ IsPartial(seen[w], Card, Level)
                       /\ IsPartial(writes[w], Card, Columns)
                       /\ IsFiniteSet(inserted[w])
  /\ history \in [Worker -> Seq(Row)]
  /\ inserted \in [Worker -> SUBSET Row]

IInv == JobsOK /\ TablesOK /\ CallsOK /\ TxOK

-----------------------------------------------------------------------------
(* The helpers keep types.                                                  *)

LEMMA PutType ==
  ASSUME NEW S, NEW T, NEW f, IsPartial(f, S, T), NEW k \in S, NEW v \in T
  PROVE  IsPartial(Put(f, k, v), S, T)
BY DEF IsPartial, Put

LEMMA WithoutType ==
  ASSUME NEW S, NEW T, NEW f, IsPartial(f, S, T), NEW k
  PROVE  IsPartial(Without(f, k), S, T)
BY DEF IsPartial, Without

LEMMA EmptyType ==
  ASSUME NEW S, NEW T
  PROVE  IsPartial(<<>>, S, T)
BY DEF IsPartial

LEMMA AcceptedType ==
  ASSUME NEW b \in Accepted
  PROVE  /\ b.user \in User /\ b.events \in Seq(RawEvent)
         /\ DOMAIN b.events \subseteq 1 .. MaxBatch
         /\ JobId(b) \in JobIds
BY DataAssumption, QueueAssumption DEF Accepted, JobIds

LEMMA JobUser ==
  ASSUME NEW j \in JobIds
  PROVE  j.user \in User
<1>1. PICK b \in Accepted : j = JobId(b)
  BY DEF JobIds
<1>2. j.user = b.user
  BY <1>1 DEF JobId
<1> QED BY <1>2, AcceptedType

LEMMA StatusType ==
  ASSUME NEW l
  PROVE  StatusForLevel(l) \in Status
BY Zenon DEF StatusForLevel, Status

LEMMA NormalizeType ==
  ASSUME NEW raw \in RawEvent, Normalizable(raw)
  PROVE  NormalizeEvent(raw) \in Event
BY DEF RawEvent, Event, Normalizable, NormalizeEvent, IsGraded, Mode, None

LEMMA SkipDuplicatesType ==
  ASSUME NEW user \in User, NEW stored, NEW events,
         IsPartial(events, 1 .. MaxBatch, Event)
  PROVE  /\ SkipDuplicates(user, events, stored) \in SUBSET Row
         /\ IsFiniteSet(SkipDuplicates(user, events, stored))
<1> DEFINE I == {i \in DOMAIN events :
                   /\ <<user, events[i].id>> \notin Keys(stored)
                   /\ \A k \in DOMAIN events : k < i => events[k].id # events[i].id}
           R == {RowOf(user, events[i]) : i \in I}
<1>1. R \in SUBSET Row
  <2> SUFFICES ASSUME NEW i \in I PROVE RowOf(user, events[i]) \in Row
    OBVIOUS
  <2>1. events[i] \in Event
    BY DEF IsPartial
  <2> QED BY <2>1 DEF Event, RowOf, Row
<1>2. IsFiniteSet(I)
  <2>1. IsFiniteSet(1 .. MaxBatch)
    BY FS_Interval, QueueAssumption
  <2> QED BY <2>1, FS_Subset DEF IsPartial
<1>3. IsFiniteSet(R)
  <2> DEFINE f == [i \in I |-> RowOf(user, events[i])]
  <2>1. f \in Surjection(I, R)
    BY DEF Surjection
  <2> QED BY <1>2, <2>1, FS_Surjection
<1> QED BY <1>1, <1>3 DEF SkipDuplicates

LEMMA NewestFirstType ==
  ASSUME NEW S \in SUBSET Row, IsFiniteSet(S), NEW s \in NewestFirst(S)
  PROVE  s \in Seq(Row)
<1>1. Cardinality(S) \in Nat
  BY FS_CardinalityType
<1> QED BY <1>1 DEF NewestFirst, SetToSeqs

LEMMA TouchedFinite ==
  ASSUME CallsOK, NEW w \in Worker
  PROVE  /\ Touched(w) \in SUBSET Card /\ IsFiniteSet(Touched(w))
         /\ Cardinality(Touched(w)) \in Nat
<1> DEFINE f == [i \in DOMAIN owned[w] |-> owned[w][i].card]
<1>1. IsFiniteSet(DOMAIN owned[w])
  <2>1. IsFiniteSet(1 .. MaxBatch)
    BY FS_Interval, QueueAssumption
  <2> QED BY <2>1, FS_Subset DEF IsPartial, CallsOK
<1>2. f \in Surjection(DOMAIN owned[w], Touched(w))
  BY DEF Surjection, Touched
<1>3. IsFiniteSet(Touched(w))
  BY <1>1, <1>2, FS_Surjection
<1>4. Touched(w) \in SUBSET Card
  BY DEF CallsOK, IsPartial, Touched, Event
<1> QED BY <1>3, <1>4, FS_CardinalityType

LEMMA BucketType ==
  ASSUME NEW h \in Seq(Row), NEW c
  PROVE  /\ IsFiniteSet(DOMAIN Bucket(h, c))
         /\ \A i \in DOMAIN Bucket(h, c) : Bucket(h, c)[i].at \in Nat
<1>1. IsFiniteSet(DOMAIN h)
  BY FS_Interval
<1>2. DOMAIN Bucket(h, c) \subseteq DOMAIN h
  BY DEF Bucket
<1>3. \A i \in DOMAIN Bucket(h, c) : Bucket(h, c)[i] \in Row
  BY DEF Bucket
<1> QED BY <1>1, <1>2, <1>3, FS_Subset DEF Row, Time

\* The columns a worker writes have their types, and the level is no lower
\* than the one it read.
LEMMA RegradeType ==
  ASSUME NEW l \in Level, NEW c \in Card, NEW h \in Seq(Row)
  PROVE  /\ Regrade(l, c, Bucket(h, c)) \in Columns
         /\ l <= Regrade(l, c, Bucket(h, c)).level
<1> DEFINE b == Bucket(h, c)
           computed == FoldStrength(b, Baseline[c])
           new == IF l >= computed THEN l ELSE computed
<1>1. IsFiniteSet(DOMAIN b) /\ \A i \in DOMAIN b : b[i].at \in Nat
  BY BucketType
<1> HIDE DEF b
<1>2. computed \in Level
  BY <1>1, FoldInRange, DataAssumption
<1>3. new \in Level /\ l <= new
  BY <1>2 DEF Level, MaxLevel
<1> DEFINE st == StatusForLevel(new)
           lc == LastAt(b, TRUE)
           lw == LastAt(b, FALSE)
           r == [level |-> new, status |-> st, lastCorrect |-> lc, lastWrong |-> lw]
<1>4. st \in Status
  BY StatusType
<1>5. lc \in Nat /\ lw \in Nat
  BY <1>1, LastAtType
<1>6. Regrade(l, c, b) = r
  BY DEF Regrade
<1>7. r \in Columns /\ r.level = new
  <2> HIDE DEF new, st, lc, lw
  <2> QED BY <1>3, <1>4, <1>5 DEF Columns
<1> HIDE DEF r
<1> QED BY <1>3, <1>6, <1>7 DEF b

-----------------------------------------------------------------------------
(* Every step keeps IInv.                                                   *)

LEMMA EndTxType ==
  ASSUME TxOK, NEW w \in Worker, EndTx(w)
  PROVE  TxOK'
<1>1. IsFiniteSet({})
  BY FS_EmptySet
<1>2. <<>> \in Seq(Row)
  OBVIOUS
<1> QED BY <1>1, <1>2, EmptyType DEF TxOK, EndTx

LEMMA ReleaseType ==
  ASSUME CallsOK, TxOK, NEW w \in Worker, Release(w)
  PROVE  CallsOK' /\ TxOK'
<1>1. TxOK'
  BY EndTxType DEF Release
<1>2. CallsOK'
  <2>1. <<>> \in Seq(RawEvent)
    OBVIOUS
  <2> QED BY <2>1, EmptyType DEF CallsOK, Release, Labels
<1> QED BY <1>1, <1>2

LEMMA FailedType ==
  ASSUME IInv, NEW w \in Worker, NEW retriable \in BOOLEAN, Failed(w, retriable)
  PROVE  IInv'
<1>1. CallsOK' /\ TxOK'
  BY ReleaseType DEF IInv, Failed
<1>2. TablesOK'
  BY DEF IInv, TablesOK, Failed, dbVars, cardVars
<1>3. JobsOK'
  <2>1. CASE ~HoldsLock(w)
    BY <2>1 DEF IInv, JobsOK, Failed
  <2>2. CASE HoldsLock(w)
    <3> DEFINE j == job[w]
               st == IF retriable /\ jobs[j].attempts + 1 < MaxAttempts
                     THEN "delayed" ELSE "failed"
    <3>1. /\ j \in DOMAIN jobs /\ jobs[j] \in Job
          /\ jobs[j].attempts < MaxAttempts /\ jobs[j].stalls <= MaxStalls
      BY <2>2 DEF HoldsLock, IInv, JobsOK, IsPartial
    <3>2. /\ DOMAIN jobs' = DOMAIN jobs
          /\ \A k \in DOMAIN jobs : k # j => jobs'[k] = jobs[k]
          /\ jobs'[j] = [jobs[j] EXCEPT !.holder = None, !.attempts = @ + 1,
                                      !.state = st]
      BY <2>2, <3>1 DEF Failed, IInv, JobsOK, IsPartial
    <3>3. st \in {"delayed", "failed"}
      OBVIOUS
    <3>4. st # "failed" => jobs[j].attempts + 1 < MaxAttempts
      OBVIOUS
    <3> HIDE DEF st
    <3>7. jobs[j].attempts + 1 \in 0 .. MaxAttempts
      BY <3>1, QueueAssumption DEF Job
    <3>8. jobs'[j] \in Job
      BY <3>1, <3>2, <3>3, <3>7 DEF Job
    <3>5. jobs'[j].state = st /\ jobs'[j].attempts = jobs[j].attempts + 1
          /\ jobs'[j].stalls = jobs[j].stalls
      BY <3>1, <3>2 DEF Job
    <3>6. jobs' \in [DOMAIN jobs -> Job]
      BY <3>1, <3>2, <3>8, <2>2 DEF IInv, JobsOK, IsPartial, Failed
    <3> QED BY <3>1, <3>2, <3>4, <3>5, <3>6 DEF IInv, JobsOK, IsPartial
  <2> QED BY <2>1, <2>2
<1> QED BY <1>1, <1>2, <1>3 DEF IInv

\* A step that leaves the tables and the calls alone: only the queue changes.
LEMMA QueueType ==
  ASSUME IInv, Queue
  PROVE  IInv'
<1> USE DEF IInv
<1>1. ASSUME NEW b \in Accepted, Submit(b)
      PROVE  IInv'
  <2>1. NewJob(b) \in Job /\ JobId(b) \in JobIds
    BY QueueAssumption, AcceptedType DEF NewJob, Job
  <2>2. IsPartial(jobs', JobIds, Job)
    BY <1>1, <2>1, PutType DEF JobsOK, Submit
  <2>3. \A j \in DOMAIN jobs' : jobs'[j] = NewJob(b) \/
          (j \in DOMAIN jobs /\ jobs'[j] = jobs[j])
    BY <1>1 DEF Submit, Put
  <2>4. JobsOK'
    BY <2>2, <2>3, QueueAssumption DEF JobsOK, NewJob
  <2> QED BY <1>1, <2>4
        DEF TablesOK, CallsOK, TxOK, Submit, cardVars, workVars, txVars
<1>2. ASSUME NEW j \in DOMAIN jobs, Promote(j)
      PROVE  IInv'
  <2>1. jobs[j] \in Job /\ j \in JobIds
    BY DEF JobsOK, IsPartial
  <2>2. [jobs[j] EXCEPT !.state = "waiting"] \in Job
    BY <2>1 DEF Job
  <2>3. JobsOK'
    BY <1>2, <2>1, <2>2 DEF JobsOK, IsPartial, Promote, Job
  <2> QED BY <1>2, <2>3
        DEF TablesOK, CallsOK, TxOK, Promote, cardVars, workVars, txVars
<1>3. ASSUME NEW j \in DOMAIN jobs, Prune(j)
      PROVE  IInv'
  <2>1. IsPartial(jobs', JobIds, Job)
    BY <1>3, WithoutType DEF JobsOK, Prune
  <2>2. JobsOK'
    BY <1>3, <2>1 DEF JobsOK, Prune, Without
  <2> QED BY <1>3, <2>2
        DEF TablesOK, CallsOK, TxOK, Prune, cardVars, workVars, txVars
<1>4. ASSUME NEW j \in DOMAIN jobs, Stall(j)
      PROVE  IInv'
  <2> DEFINE st == IF jobs[j].stalls < MaxStalls THEN "waiting" ELSE "failed"
             new == [jobs[j] EXCEPT !.holder = None, !.stalls = @ + 1, !.state = st]
  <2>1. /\ jobs[j] \in Job /\ j \in JobIds
        /\ jobs[j].stalls <= MaxStalls /\ jobs[j].attempts < MaxAttempts
    BY <1>4 DEF JobsOK, IsPartial, Stall
  <2>2. jobs' = [jobs EXCEPT ![j] = new]
    BY <1>4, <2>1 DEF Stall, JobsOK, IsPartial, Job
  <2>3. /\ st \in {"waiting", "failed"}
        /\ st # "failed" => jobs[j].stalls + 1 <= MaxStalls
        /\ jobs[j].stalls + 1 \in 0 .. MaxStalls + 1
    BY <2>1, QueueAssumption DEF Job
  <2> HIDE DEF st
  <2>4. /\ new \in Job
        /\ new.state # "failed" => new.attempts < MaxAttempts /\ new.stalls <= MaxStalls
    BY <2>1, <2>3 DEF Job
  <2> HIDE DEF new
  <2>5. JobsOK'
    BY <2>1, <2>2, <2>4 DEF JobsOK, IsPartial
  <2> QED BY <1>4, <2>5
        DEF TablesOK, CallsOK, TxOK, Stall, cardVars, workVars, txVars
<1>5. ASSUME NEW w \in Worker, NEW j \in DOMAIN jobs, Fetch(w, j)
      PROVE  IInv'
  <2>1. jobs[j] \in Job /\ j \in JobIds
    BY DEF JobsOK, IsPartial
  <2>2. [jobs[j] EXCEPT !.state = "active", !.holder = w] \in Job
    BY <2>1 DEF Job
  <2>3. JobsOK'
    BY <1>5, <2>1, <2>2 DEF JobsOK, IsPartial, Fetch, Job
  <2>4. /\ jobs[j].body.events \in Seq(RawEvent)
        /\ DOMAIN jobs[j].body.events \subseteq 1 .. MaxBatch
    BY <2>1, AcceptedType DEF Job
  <2>5. CallsOK'
    BY <1>5, <2>1, <2>4 DEF CallsOK, Fetch, Labels
  <2> QED BY <1>5, <2>3, <2>5 DEF TablesOK, TxOK, Fetch, cardVars, txVars
<1> QED BY <1>1, <1>2, <1>3, <1>4, <1>5 DEF Queue

LEMMA TakeType ==
  ASSUME NEW s \in Seq(Row), NEW n \in Nat
  PROVE  Take(s, n) \in Seq(Row)
<1>1. CASE Len(s) <= n
  BY <1>1 DEF Take
<1>2. CASE ~(Len(s) <= n)
  <2>1. n < Len(s)
    BY <1>2
  <2>2. SubSeq(s, 1, n) \in Seq(Row)
    BY <2>1, SubSeqProperties
  <2> QED BY <1>2, <2>2 DEF Take
<1> QED BY <1>1, <1>2

\* Steps of a call that stay within its transaction: jobs, tables and the
\* worker's job and payload are as before.
LEMMA StepType ==
  ASSUME IInv, NEW w \in Worker,
         \/ CheckOwned(w) \/ InsertEvents(w) \/ ReadCards(w)
         \/ ReadHistory(w) \/ WriteCard(w)
  PROVE  IInv'
<1> USE DEF IInv
<1>1. JobsOK' /\ TablesOK'
  BY DEF JobsOK, TablesOK, CheckOwned, InsertEvents, ReadCards, ReadHistory,
         WriteCard, dbVars, cardVars
<1>2. CASE CheckOwned(w)
  <2> DEFINE mine == {i \in DOMAIN payload[w] :
                        MayStudy(Live, job[w].user, NormalizeEvent(payload[w][i]))}
             new == [i \in mine |-> NormalizeEvent(payload[w][i])]
             next == IF mine = {} THEN "ack" ELSE "insert"
  <2>1. \A i \in DOMAIN payload[w] :
          payload[w][i] \in RawEvent /\ Normalizable(payload[w][i])
    BY <1>2 DEF CallsOK, CheckOwned, Valid
  <2>2. mine \subseteq DOMAIN payload[w] /\ mine \subseteq 1 .. MaxBatch
    BY DEF CallsOK
  <2> HIDE DEF mine
  <2>3. IsPartial(new, 1 .. MaxBatch, Event)
    <3>1. \A i \in mine : NormalizeEvent(payload[w][i]) \in Event
      BY <2>1, <2>2, NormalizeType
    <3> QED BY <2>2, <3>1 DEF IsPartial
  <2>4. next \in Labels /\ pc[w] # "idle"
    BY <1>2 DEF Labels, CheckOwned
  <2>5. owned' = [owned EXCEPT ![w] = new] /\ pc' = [pc EXCEPT ![w] = next]
    BY <1>2 DEF CheckOwned, Goto, mine
  <2> HIDE DEF new, next
  <2>6. UNCHANGED <<job, payload, seen, history, inserted, writes>>
    BY <1>2 DEF CheckOwned, txVars
  <2>7. CallsOK'
    BY <2>3, <2>4, <2>5, <2>6 DEF CallsOK
  <2>8. TxOK'
    BY <2>6 DEF TxOK
  <2> QED BY <1>1, <2>7, <2>8
<1>3. ASSUME \/ InsertEvents(w) \/ ReadCards(w) \/ ReadHistory(w) \/ WriteCard(w)
      PROVE  CallsOK'
  <2>1. /\ pc[w] # "idle" /\ UNCHANGED <<job, payload, owned>>
        /\ pc' = pc \/ \E l \in Labels \ {"idle"} : pc' = [pc EXCEPT ![w] = l]
    BY <1>3 DEF InsertEvents, ReadCards, ReadHistory, WriteCard, Goto, Labels
  <2> QED BY <2>1 DEF CallsOK
<1>4. CASE InsertEvents(w)
  <2> DEFINE new == SkipDuplicates(job[w].user, owned[w], rows)
  <2>1. job[w] \in JobIds /\ IsPartial(owned[w], 1 .. MaxBatch, Event)
    BY <1>4 DEF CallsOK, InsertEvents
  <2>2. new \in SUBSET Row /\ IsFiniteSet(new)
    BY <2>1, JobUser, SkipDuplicatesType
  <2>3. /\ inserted' = [inserted EXCEPT ![w] = new]
        /\ UNCHANGED <<seen, history, writes>>
    BY <1>4 DEF InsertEvents
  <2> HIDE DEF new
  <2>4. TxOK'
    BY <2>2, <2>3 DEF TxOK
  <2> QED BY <1>1, <1>3, <1>4, <2>4
<1>5. CASE ReadCards(w)
  <2> DEFINE new == [c \in Touched(w) \cap Live |-> level[c]]
  <2>1. IsPartial(new, Card, Level)
    BY DEF IsPartial, Live, TablesOK
  <2>2. /\ seen' = [seen EXCEPT ![w] = new]
        /\ UNCHANGED <<history, inserted, writes>>
    BY <1>5 DEF ReadCards
  <2> HIDE DEF new
  <2>3. TxOK'
    BY <2>1, <2>2 DEF TxOK
  <2> QED BY <1>1, <1>3, <1>5, <2>3
<1>6. CASE ReadHistory(w)
  <2> DEFINE S == {r \in rows \union inserted[w] :
                     r.user = job[w].user /\ r.card \in Touched(w)}
             n == HistoryLimit * Cardinality(Touched(w))
  <2>1. PICK s \in NewestFirst(S) : history' = [history EXCEPT ![w] = Take(s, n)]
    BY <1>6 DEF ReadHistory
  <2>2. S \in SUBSET Row /\ IsFiniteSet(S)
    <3>1. IsFiniteSet(rows \union inserted[w])
      BY FS_Union DEF TablesOK, TxOK
    <3> QED BY <3>1, FS_Subset DEF TablesOK, TxOK
  <2>3. n \in Nat
    BY TouchedFinite, DataAssumption
  <2> HIDE DEF S, n
  <2>4. Take(s, n) \in Seq(Row)
    BY <2>2, <2>3, NewestFirstType, TakeType
  <2>5. UNCHANGED <<seen, inserted, writes>>
    BY <1>6 DEF ReadHistory
  <2>6. TxOK'
    BY <2>1, <2>4, <2>5 DEF TxOK
  <2> QED BY <1>1, <1>3, <1>6, <2>6
<1>7. CASE WriteCard(w)
  <2> DEFINE c == Head(todo[w])
             write == Regrade(seen[w][c], c, Bucket(history[w], c))
  <2>1. UNCHANGED <<seen, history, inserted>>
    BY <1>7 DEF WriteCard
  <2>2. CASE UNCHANGED writes
    <3>1. TxOK'
      BY <2>1, <2>2 DEF TxOK
    <3> QED BY <1>1, <1>3, <1>7, <3>1
  <2>3. CASE /\ c \in DOMAIN seen[w]
             /\ writes' = [writes EXCEPT ![w] = Put(writes[w], c, write)]
    <3>1. seen[w][c] \in Level /\ c \in Card /\ history[w] \in Seq(Row)
      BY <2>3 DEF TxOK, IsPartial
    <3> HIDE DEF c
    <3>2. write \in Columns
      BY <3>1, RegradeType
    <3> HIDE DEF write
    <3>3. IsPartial(Put(writes[w], c, write), Card, Columns)
      BY <3>1, <3>2, PutType DEF TxOK
    <3>4. TxOK'
      BY <2>1, <2>3, <3>3 DEF TxOK
    <3> QED BY <1>1, <1>3, <1>7, <3>4
  <2> QED BY <1>7, <2>2, <2>3 DEF WriteCard
<1> QED BY <1>2, <1>4, <1>5, <1>6, <1>7

LEMMA CommitType ==
  ASSUME IInv, NEW w \in Worker, Commit(w)
  PROVE  IInv'
<1> USE DEF IInv
<1>1. TxOK'
  BY EndTxType DEF Commit
<1>2. JobsOK' /\ CallsOK'
  <2>1. UNCHANGED <<jobs, job, payload, owned>> /\ pc' = [pc EXCEPT ![w] = "ack"]
        /\ pc[w] # "idle"
    BY DEF Commit, Goto
  <2> QED BY <2>1 DEF JobsOK, CallsOK, Labels
<1>3. rows' \subseteq Row /\ IsFiniteSet(rows')
  BY FS_Union DEF TablesOK, TxOK, Commit
<1>4. \A c \in DOMAIN writes[w] : c \in Card /\ writes[w][c] \in Columns
  BY DEF TxOK, IsPartial
<1>5. /\ level' \in [Card -> Level] /\ status' \in [Card -> Status]
      /\ lastCorrect' \in [Card -> Nat] /\ lastWrong' \in [Card -> Nat]
  BY <1>4 DEF TablesOK, Commit, Columns
<1>6. TablesOK'
  BY <1>3, <1>5 DEF TablesOK, Commit
<1> QED BY <1>1, <1>2, <1>6

LEMMA WorkType ==
  ASSUME IInv, Work
  PROVE  IInv'
<1>1. PICK w \in Worker : Process(w) \/ TxFails(w) \/ Crash(w)
  BY DEF Work
<1>2. CASE RejectPayload(w) \/ CardGone(w) \/ TxFails(w)
  BY <1>2, FailedType DEF RejectPayload, CardGone, TxFails
<1>3. CASE \/ CheckOwned(w) \/ InsertEvents(w) \/ ReadCards(w)
           \/ ReadHistory(w) \/ WriteCard(w)
  BY <1>3, StepType
<1>4. CASE Commit(w)
  BY <1>4, CommitType
<1>5. CASE Complete(w)
  <2>1. CallsOK' /\ TxOK'
    BY <1>5, ReleaseType DEF IInv, Complete
  <2>2. jobs' = jobs \/ jobs' = Without(jobs, job[w])
    BY <1>5 DEF Complete
  <2>3. JobsOK'
    <3>1. IsPartial(jobs', JobIds, Job)
      BY <2>2, WithoutType DEF IInv, JobsOK
    <3> QED BY <2>2, <3>1 DEF IInv, JobsOK, Without
  <2>4. TablesOK'
    BY <1>5 DEF IInv, TablesOK, Complete, dbVars, cardVars
  <2> QED BY <2>1, <2>3, <2>4 DEF IInv
<1>6. CASE Crash(w)
  <2>1. CallsOK' /\ TxOK'
    BY <1>6, ReleaseType DEF IInv, Crash
  <2> QED BY <1>6, <2>1 DEF IInv, JobsOK, TablesOK, Crash, dbVars, cardVars
<1> QED BY <1>1, <1>2, <1>3, <1>4, <1>5, <1>6 DEF Process

LEMMA EditType ==
  ASSUME IInv, Edit
  PROVE  IInv'
<1>1. /\ UNCHANGED <<jobs, rows, level, lastCorrect, lastWrong>>
      /\ UNCHANGED workVars
  BY DEF Edit, CreateCard, UpdateCard, RemoveCard, ResetProgress
<1>2. cardState' \in [Card -> {"unborn", "live", "gone"}]
  BY DEF IInv, TablesOK, Edit, CreateCard, UpdateCard, RemoveCard, ResetProgress
<1>3. status' \in [Card -> Status]
  <2>1. CASE \E c \in Card, s \in Patched : CreateCard(c, s) \/ UpdateCard(c, s)
    BY <2>1, DataAssumption DEF IInv, TablesOK, CreateCard, UpdateCard
  <2>2. CASE \E c \in Card : RemoveCard(c)
    BY <2>2 DEF IInv, TablesOK, RemoveCard
  <2>3. CASE \E m \in Module : ResetProgress(m)
    BY <2>3 DEF IInv, TablesOK, ResetProgress, Status
  <2> QED BY <2>1, <2>2, <2>3 DEF Edit
<1>4. TablesOK'
  BY <1>1, <1>2, <1>3 DEF IInv, TablesOK
<1>5. JobsOK' /\ CallsOK' /\ TxOK'
  BY <1>1 DEF IInv, JobsOK, CallsOK, TxOK, workVars, txVars
<1> QED BY <1>4, <1>5 DEF IInv

LEMMA InitType ==
  ASSUME Init
  PROVE  IInv
<1>1. JobsOK
  BY EmptyType DEF Init, JobsOK
<1>2. TablesOK
  <2>1. \A c \in Card : StatusForLevel(Baseline[c]) \in Status
    BY StatusType
  <2>2. status \in [Card -> Status]
    BY <2>1 DEF Init
  <2>3. lastCorrect \in [Card -> Nat] /\ lastWrong \in [Card -> Nat]
    BY DEF Init, NoTime
  <2> QED BY <2>2, <2>3, DataAssumption DEF Init, TablesOK
<1>3. CallsOK
  BY EmptyType DEF Init, CallsOK, Labels
<1>4. TxOK
  BY EmptyType, FS_EmptySet DEF Init, TxOK
<1> QED BY <1>1, <1>2, <1>3, <1>4 DEF IInv

LEMMA StepKeepsIInv ==
  ASSUME IInv, [Next]_vars
  PROVE  IInv'
<1>1. CASE Next
  BY <1>1, QueueType, WorkType, EditType DEF Next
<1>2. CASE UNCHANGED vars
  BY <1>2 DEF vars, workVars, txVars, cardVars,
              IInv, JobsOK, TablesOK, CallsOK, TxOK
<1> QED BY <1>1, <1>2

\* Every reachable state is typed, for any workers, batches, cards and bounds:
\* in particular a job not failed always has attempts and stalls left.
THEOREM TypeCorrect == Spec => []TypeOK
<1>1. Init => IInv
  BY InitType
<1>2. IInv /\ [Next]_vars => IInv'
  BY StepKeepsIInv
<1>3. IInv => TypeOK
  BY DEF IInv, JobsOK, TablesOK, CallsOK, TxOK, TypeOK
<1> QED BY <1>1, <1>2, <1>3, PTL DEF Spec

(***************************************************************************)
(* One worker: only its own commit changes a level, so what it read is     *)
(* still the level when it writes, and it writes no less than it read.     *)
(***************************************************************************)
ReadIsCurrent ==
  \A w \in Worker : \A c \in DOMAIN seen[w] : seen[w][c] = level[c]

WritesNoLess ==
  \A w \in Worker : \A c \in DOMAIN writes[w] : level[c] <= writes[w][c].level

LEMMA RollbackKeepsLevels ==
  ASSUME IInv, ReadIsCurrent, WritesNoLess, NEW w \in Worker,
         EndTx(w), UNCHANGED level
  PROVE  ReadIsCurrent' /\ WritesNoLess'
BY DEF IInv, TxOK, ReadIsCurrent, WritesNoLess, EndTx

LEMMA LevelStep ==
  ASSUME NEW w, Worker = {w}, IInv, ReadIsCurrent, WritesNoLess, [Next]_vars
  PROVE  /\ ReadIsCurrent' /\ WritesNoLess'
         /\ \A c \in Card : level[c] <= level'[c]
<1> USE DEF IInv
<1>1. \A c \in Card : level[c] \in Nat
  BY DEF TablesOK, Level
<1>2. CASE UNCHANGED <<level, seen, writes>>
  BY <1>1, <1>2 DEF ReadIsCurrent, WritesNoLess
<1>3. CASE EndTx(w) /\ UNCHANGED level
  BY <1>1, <1>3, RollbackKeepsLevels
<1>4. CASE ReadCards(w)
  BY <1>1, <1>4
     DEF ReadCards, ReadIsCurrent, WritesNoLess, TxOK, dbVars, cardVars
<1>5. CASE WriteCard(w)
  <2> DEFINE c == Head(todo[w])
             write == Regrade(seen[w][c], c, Bucket(history[w], c))
  <2>1. UNCHANGED <<level, seen>>
    BY <1>5 DEF WriteCard, dbVars, cardVars
  <2>2. CASE UNCHANGED writes
    BY <1>2, <2>1, <2>2
  <2>3. CASE /\ c \in DOMAIN seen[w]
             /\ writes' = [writes EXCEPT ![w] = Put(writes[w], c, write)]
    <3>1. seen[w][c] \in Level /\ c \in Card /\ history[w] \in Seq(Row)
      BY <2>3 DEF TxOK, IsPartial
    <3> HIDE DEF c
    <3>2. seen[w][c] <= write.level
      BY <3>1, RegradeType
    <3> HIDE DEF write
    <3>3. level[c] <= write.level
      BY <2>3, <3>2 DEF ReadIsCurrent
    <3> QED BY <1>1, <2>1, <2>3, <3>3 DEF ReadIsCurrent, WritesNoLess, TxOK, Put
  <2> QED BY <1>5, <2>2, <2>3 DEF WriteCard
<1>6. CASE Commit(w)
  <2>1. \A c \in Card : level'[c] = IF c \in DOMAIN writes[w]
                                   THEN writes[w][c].level ELSE level[c]
    BY <1>6 DEF Commit
  <2>2. \A c \in Card : level[c] <= level'[c]
    BY <1>1, <2>1 DEF WritesNoLess
  <2>3. DOMAIN seen'[w] = {} /\ DOMAIN writes'[w] = {}
    BY <1>6 DEF Commit, EndTx, TxOK
  <2> QED BY <2>2, <2>3 DEF ReadIsCurrent, WritesNoLess
<1>7. CASE Queue \/ Edit \/ UNCHANGED vars
  <2>1. UNCHANGED <<level, seen, writes>>
    BY <1>7 DEF Queue, Submit, Promote, Prune, Stall, Fetch, Edit, CreateCard,
                UpdateCard, RemoveCard, ResetProgress, vars, workVars, txVars, cardVars
  <2> QED BY <1>2, <2>1
<1>8. CASE Process(w) \/ TxFails(w) \/ Crash(w)
  <2>1. CASE CheckOwned(w) \/ InsertEvents(w) \/ ReadHistory(w)
    <3>1. UNCHANGED <<level, seen, writes>>
      BY <2>1 DEF CheckOwned, InsertEvents, ReadHistory, dbVars, cardVars, txVars
    <3> QED BY <1>2, <3>1
  <2>2. CASE \/ RejectPayload(w) \/ CardGone(w) \/ TxFails(w)
             \/ Complete(w) \/ Crash(w)
    <3>1. EndTx(w) /\ UNCHANGED level
      BY <2>2 DEF RejectPayload, CardGone, TxFails, Complete, Crash, Failed,
                  Release, dbVars, cardVars
    <3> QED BY <1>3, <3>1
  <2> QED BY <1>4, <1>5, <1>6, <1>8, <2>1, <2>2 DEF Process
<1> QED BY <1>7, <1>8 DEF Next, Work

\* With one worker no step lowers a card's strengthLevel, whatever the history
\* window forgot and however many retries, crashes and edits come in between.
THEOREM LevelsOnlyRise ==
  ASSUME NEW w, Worker = {w}
  PROVE  Spec => LevelNeverFalls
<1>1. Init => IInv /\ ReadIsCurrent /\ WritesNoLess
  BY InitType DEF Init, ReadIsCurrent, WritesNoLess
<1>2. /\ IInv /\ ReadIsCurrent /\ WritesNoLess /\ [Next]_vars
      => (IInv /\ ReadIsCurrent /\ WritesNoLess)'
  BY StepKeepsIInv, LevelStep
<1>3. IInv /\ ReadIsCurrent /\ WritesNoLess /\ [Next]_vars
      => [\A c \in Card : level'[c] >= level[c]]_vars
  <2> SUFFICES ASSUME IInv, ReadIsCurrent, WritesNoLess, [Next]_vars
               PROVE  \A c \in Card : level'[c] >= level[c]
    OBVIOUS
  <2>1. \A c \in Card : level[c] <= level'[c]
    BY LevelStep
  <2>2. level \in [Card -> Nat] /\ level' \in [Card -> Nat]
    BY StepKeepsIInv DEF IInv, TablesOK, Level
  <2> QED BY <2>1, <2>2
<1> QED BY <1>1, <1>2, <1>3, PTL DEF Spec, LevelNeverFalls

-----------------------------------------------------------------------------
(***************************************************************************)
(* Any number of workers. A row waits in inserted[w] until w commits: it   *)
(* must differ by its key from the rows stored meanwhile and from those    *)
(* every other open transaction may store.                                 *)
(***************************************************************************)
SameKey(r, s) == r.user = s.user /\ r.id = s.id

PendingOnce ==
  /\ \A w \in Worker : \A r, s \in inserted[w] : SameKey(r, s) => r = s
  /\ \A w \in Worker : \A r \in rows, s \in inserted[w] : ~SameKey(r, s)
  /\ \A v, w \in Worker : v # w =>
        \A r \in inserted[v], s \in inserted[w] : ~SameKey(r, s)

LEMMA SkipDuplicatesKeys ==
  ASSUME NEW user, NEW stored, NEW events, DOMAIN events \subseteq Nat,
         NEW r \in SkipDuplicates(user, events, stored)
  PROVE  /\ r.user = user /\ \E i \in DOMAIN events : r.id = events[i].id
         /\ <<r.user, r.id>> \notin Keys(stored)
         /\ \A s \in SkipDuplicates(user, events, stored) : SameKey(r, s) => r = s
<1> DEFINE Kept(i) == /\ <<user, events[i].id>> \notin Keys(stored)
                      /\ \A k \in DOMAIN events : k < i => events[k].id # events[i].id
<1>1. PICK i \in DOMAIN events : r = RowOf(user, events[i]) /\ Kept(i)
  BY DEF SkipDuplicates
<1>2. ASSUME NEW s \in SkipDuplicates(user, events, stored), SameKey(r, s)
      PROVE  r = s
  <2>1. PICK k \in DOMAIN events : s = RowOf(user, events[k]) /\ Kept(k)
    BY DEF SkipDuplicates
  <2>2. events[i].id = events[k].id
    BY <1>1, <1>2, <2>1 DEF SameKey, RowOf
  <2>3. ~(i < k) /\ ~(k < i)
    BY <1>1, <2>1, <2>2
  <2>4. i = k
    BY <2>3
  <2> QED BY <1>1, <2>1, <2>4
<1> QED BY <1>1, <1>2 DEF RowOf

LEMMA KeyStored ==
  ASSUME NEW S, NEW r \in S, NEW s, SameKey(r, s)
  PROVE  <<s.user, s.id>> \in Keys(S)
BY DEF SameKey, Keys

LEMMA PendingStep ==
  ASSUME IInv, StoredOnce, PendingOnce, [Next]_vars
  PROVE  StoredOnce' /\ PendingOnce'
<1> USE DEF IInv
<1>1. CASE UNCHANGED <<rows, inserted>>
  BY <1>1 DEF StoredOnce, PendingOnce
<1>2. ASSUME NEW w \in Worker, EndTx(w), UNCHANGED rows
      PROVE  StoredOnce' /\ PendingOnce'
  <2>1. \A v \in Worker : inserted'[v] \subseteq inserted[v]
    BY <1>2 DEF EndTx, TxOK
  <2> QED BY <1>2, <2>1 DEF StoredOnce, PendingOnce
<1>3. ASSUME NEW w \in Worker, InsertEvents(w)
      PROVE  StoredOnce' /\ PendingOnce'
  <2> DEFINE new == SkipDuplicates(job[w].user, owned[w], rows)
  <2>1. DOMAIN owned[w] \subseteq Nat
    BY DEF CallsOK, IsPartial
  <2>2. \A r \in new :
          /\ <<r.user, r.id>> \notin Keys(rows)
          /\ \A s \in new : SameKey(r, s) => r = s
    BY <2>1, SkipDuplicatesKeys
  <2>3. \A r \in new : \A v \in Worker \ {w} :
          <<r.user, r.id>> \notin Keys(inserted[v])
    <3> SUFFICES ASSUME NEW r \in new, NEW v \in Worker \ {w}
                 PROVE  <<r.user, r.id>> \notin Keys(inserted[v])
      OBVIOUS
    <3>1. PICK i \in DOMAIN owned[w] : r.id = owned[w][i].id /\ r.user = job[w].user
      BY <2>1, SkipDuplicatesKeys
    <3> QED BY <1>3, <3>1 DEF InsertEvents
  <2>4. rows' = rows /\ inserted' = [inserted EXCEPT ![w] = new]
    BY <1>3 DEF InsertEvents, dbVars
  <2> HIDE DEF new
  <2>5. \A r \in new : /\ \A s \in rows : ~SameKey(s, r)
                       /\ \A v \in Worker \ {w} : \A s \in inserted[v] : ~SameKey(s, r)
    BY <2>2, <2>3, KeyStored
  <2>6. inserted'[w] = new /\ \A v \in Worker \ {w} : inserted'[v] = inserted[v]
    BY <2>4 DEF TxOK
  <2>7. \A r, s : SameKey(r, s) <=> SameKey(s, r)
    BY DEF SameKey
  <2>8. PendingOnce'
    <3>1. \A v \in Worker : \A r, s \in inserted'[v] : SameKey(r, s) => r = s
      BY <2>2, <2>6 DEF PendingOnce
    <3>2. \A v \in Worker : \A r \in rows, s \in inserted'[v] : ~SameKey(r, s)
      BY <2>5, <2>6 DEF PendingOnce
    <3>3. ASSUME NEW u \in Worker, NEW v \in Worker, u # v,
                 NEW r \in inserted'[u], NEW s \in inserted'[v]
          PROVE  ~SameKey(r, s)
      <4>1. CASE u = w
        <5>1. r \in new /\ v \in Worker \ {w} /\ s \in inserted[v]
          BY <3>3, <4>1, <2>6
        <5>2. ~SameKey(s, r)
          BY <2>5, <5>1 DEF SameKey
        <5> QED BY <2>7, <5>2
      <4>2. CASE v = w
        <5>1. s \in new /\ u \in Worker \ {w} /\ r \in inserted[u]
          BY <3>3, <4>2, <2>6
        <5> QED BY <2>5, <5>1 DEF SameKey
      <4>3. CASE u # w /\ v # w
        BY <3>3, <4>3, <2>6 DEF PendingOnce
      <4> QED BY <4>1, <4>2, <4>3
    <3> QED BY <2>4, <3>1, <3>2, <3>3 DEF PendingOnce, SameKey
  <2> QED BY <2>4, <2>8 DEF StoredOnce
<1>4. ASSUME NEW w \in Worker, Commit(w)
      PROVE  StoredOnce' /\ PendingOnce'
  <2>1. /\ rows' = rows \union inserted[w]
        /\ inserted' = [inserted EXCEPT ![w] = {}]
    BY <1>4 DEF Commit, EndTx
  <2>2. inserted'[w] = {} /\ \A v \in Worker \ {w} : inserted'[v] = inserted[v]
    BY <2>1 DEF TxOK
  <2>3. StoredOnce'
    <3> SUFFICES ASSUME NEW r \in rows', NEW s \in rows', SameKey(r, s)
                 PROVE  r = s
      BY DEF StoredOnce, SameKey
    <3>1. SameKey(s, r)
      BY DEF SameKey
    <3> QED BY <2>1, <3>1 DEF StoredOnce, PendingOnce, SameKey
  <2>4. PendingOnce'
    <3>1. \A v \in Worker : \A r, s \in inserted'[v] : SameKey(r, s) => r = s
      BY <2>2 DEF PendingOnce
    <3>2. \A v \in Worker : \A r \in rows', s \in inserted'[v] : ~SameKey(r, s)
      BY <2>1, <2>2 DEF PendingOnce
    <3>3. \A u, v \in Worker : u # v =>
            \A r \in inserted'[u], s \in inserted'[v] : ~SameKey(r, s)
      BY <2>2 DEF PendingOnce
    <3> QED BY <3>1, <3>2, <3>3 DEF PendingOnce, SameKey
  <2> QED BY <2>3, <2>4
<1>5. CASE Queue \/ Edit \/ UNCHANGED vars
  <2>1. UNCHANGED <<rows, inserted>>
    BY <1>5 DEF Queue, Submit, Promote, Prune, Stall, Fetch, Edit, CreateCard,
                UpdateCard, RemoveCard, ResetProgress, vars, workVars, txVars
  <2> QED BY <1>1, <2>1
<1>6. ASSUME NEW w \in Worker, Process(w) \/ TxFails(w) \/ Crash(w)
      PROVE  StoredOnce' /\ PendingOnce'
  <2>1. CASE CheckOwned(w) \/ ReadCards(w) \/ ReadHistory(w) \/ WriteCard(w)
    <3>1. UNCHANGED <<rows, inserted>>
      BY <2>1 DEF CheckOwned, ReadCards, ReadHistory, WriteCard, dbVars, txVars
    <3> QED BY <1>1, <3>1
  <2>2. CASE \/ RejectPayload(w) \/ CardGone(w) \/ TxFails(w)
             \/ Complete(w) \/ Crash(w)
    <3>1. EndTx(w) /\ UNCHANGED rows
      BY <2>2 DEF RejectPayload, CardGone, TxFails, Complete, Crash, Failed,
                  Release, dbVars
    <3> QED BY <1>2, <3>1
  <2> QED BY <1>3, <1>4, <1>6, <2>1, <2>2 DEF Process
<1> QED BY <1>5, <1>6 DEF Next, Work

\* Any number of workers, deliveries and retries store an event of a user at
\* most once, whatever versions of it the batches carry.
THEOREM EventsStoredOnce == Spec => []StoredOnce
<1>1. Init => IInv /\ StoredOnce /\ PendingOnce
  BY InitType, DataAssumption DEF Init, StoredOnce, PendingOnce
<1>2. IInv /\ StoredOnce /\ PendingOnce /\ [Next]_vars
      => (IInv /\ StoredOnce /\ PendingOnce)'
  BY StepKeepsIInv, PendingStep
<1> QED BY <1>1, <1>2, PTL DEF Spec

(***************************************************************************)
(* DoneMeansRecorded: a worker that may still take its job off the queue   *)
(* holds the job's own payload, and by the time it does every event it     *)
(* owns is stored and the others cannot be.                                *)
(***************************************************************************)

BornAll(state, events) == \A i \in DOMAIN events : state[events[i].card] # "unborn"

\* A job has the id of its body, which names no card still to be created.
JobsNamed ==
  \A j \in DOMAIN jobs :
    j = JobId(jobs[j].body) /\ BornAll(cardState, jobs[j].body.events)

HoldersHavePayload ==
  \A w \in Worker :
    /\ BornAll(cardState, payload[w])
    /\ pc[w] # "idle" /\ HoldsLock(w) => payload[w] = jobs[job[w]].body.events

\* Past the ownership check an event is owned, or its card is gone for good or
\* was never the user's.
OwnedOrForeign(w) ==
  \A i \in DOMAIN payload[w] :
    \/ i \in DOMAIN owned[w] /\ owned[w][i].id = payload[w][i].id
    \/ ~MayStudy(Live, job[w].user, payload[w][i])

OwnedIn(w, S) ==
  \A i \in DOMAIN owned[w] : <<job[w].user, owned[w][i].id>> \in Keys(S)

Progress(w) ==
  /\ pc[w] \in {"insert", "cards", "history", "write", "ack"} => OwnedOrForeign(w)
  /\ pc[w] \in {"cards", "history", "write"} => OwnedIn(w, rows \union inserted[w])
  /\ pc[w] = "ack" => OwnedIn(w, rows)

DInv == JobsNamed /\ HoldersHavePayload /\ \A w \in Worker : Progress(w)

-----------------------------------------------------------------------------
LEMMA MoreKeys ==
  ASSUME NEW S, NEW T, S \subseteq T
  PROVE  Keys(S) \subseteq Keys(T)
BY DEF Keys

\* Skipping duplicates leaves every id stored: by an older row, or by the first
\* of the batch's events that carry it.
LEMMA SkippedAreStored ==
  ASSUME NEW user, NEW stored, NEW events, DOMAIN events \subseteq Nat,
         NEW i \in DOMAIN events
  PROVE  <<user, events[i].id>>
           \in Keys(stored \union SkipDuplicates(user, events, stored))
<1> DEFINE new == SkipDuplicates(user, events, stored)
           same == {k \in DOMAIN events : events[k].id = events[i].id}
<1>1. CASE <<user, events[i].id>> \in Keys(stored)
  BY <1>1, MoreKeys
<1>2. CASE <<user, events[i].id>> \notin Keys(stored)
  <2>1. same \in SUBSET Nat /\ same # {}
    OBVIOUS
  <2> HIDE DEF same
  <2>2. PICK k \in same : \A m \in same : k <= m
    BY <2>1, LeastNat
  <2>3. k \in DOMAIN events /\ events[k].id = events[i].id
    BY <2>2 DEF same
  <2>4. \A m \in DOMAIN events : m < k => events[m].id # events[k].id
    <3> SUFFICES ASSUME NEW m \in DOMAIN events, m < k, events[m].id = events[k].id
                 PROVE  FALSE
      OBVIOUS
    <3>1. m \in same /\ m \in Nat /\ k \in Nat
      BY <2>1, <2>2, <2>3 DEF same
    <3> QED BY <2>2, <3>1
  <2>5. RowOf(user, events[k]) \in new
    BY <1>2, <2>3, <2>4 DEF SkipDuplicates
  <2>6. /\ RowOf(user, events[k]).user = user
        /\ RowOf(user, events[k]).id = events[i].id
    BY <2>3 DEF RowOf
  <2>7. <<user, events[i].id>> \in Keys(new)
    BY <2>5, <2>6 DEF Keys
  <2> QED BY <2>7, MoreKeys
<1> QED BY <1>1, <1>2

\* A card that is not unborn and not live is gone, and stays so.
LEMMA StaysForeign ==
  ASSUME NEW event, cardState[event.card] # "unborn",
         \A c \in Card : cardState'[c] = cardState[c]
                         \/ cardState[c] = "unborn" \/ cardState'[c] = "gone",
         NEW user, ~MayStudy(Live, user, event)
  PROVE  ~MayStudy(Live', user, event)
BY DEF MayStudy, Live

\* Only CreateCard brings a card to life, and no step unmakes one.
LEMMA CardStates ==
  ASSUME IInv, [Next]_vars
  PROVE  \A c \in Card :
           /\ cardState[c] # "unborn" => cardState'[c] # "unborn"
           /\ \/ cardState'[c] = cardState[c]
              \/ cardState[c] = "unborn" \/ cardState'[c] = "gone"
<1>1. CASE Queue \/ UNCHANGED vars
  BY <1>1 DEF Queue, Submit, Promote, Prune, Stall, Fetch, vars, cardVars
<1>2. CASE Work
  BY <1>2 DEF Work, Process, TxFails, Crash, RejectPayload, CheckOwned,
              InsertEvents, ReadCards, ReadHistory, WriteCard, CardGone, Commit,
              Complete, Failed, dbVars, cardVars
<1>3. CASE Edit
  BY <1>3 DEF Edit, CreateCard, UpdateCard, RemoveCard, ResetProgress,
              IInv, TablesOK, Live
<1> QED BY <1>1, <1>2, <1>3 DEF Next

-----------------------------------------------------------------------------
\* A job keeps its body, and becomes held only by being fetched.
LEMMA JobSteps ==
  ASSUME IInv, [Next]_vars, NEW j \in DOMAIN jobs'
  PROVE  \/ \E b \in Accepted : Submit(b) /\ j = JobId(b) /\ jobs'[j] = NewJob(b)
         \/ /\ j \in DOMAIN jobs /\ jobs'[j].body = jobs[j].body
            /\ \/ jobs'[j].state # "active" \/ jobs'[j].holder = None
               \/ \E w \in Worker : Fetch(w, j) /\ jobs'[j].holder = w
               \/ jobs[j].state = "active" /\ jobs'[j].holder = jobs[j].holder
<1>1. \A k \in DOMAIN jobs : jobs[k] \in Job
  BY DEF IInv, JobsOK, IsPartial
<1>2. CASE UNCHANGED jobs \/ \E k : jobs' = Without(jobs, k)
  BY <1>2 DEF Without
<1>3. ASSUME NEW b \in Accepted, Submit(b)
      PROVE  \/ j = JobId(b) /\ jobs'[j] = NewJob(b)
             \/ j \in DOMAIN jobs /\ jobs'[j] = jobs[j]
  BY <1>3 DEF Submit, Put
<1>4. ASSUME NEW k \in DOMAIN jobs, Promote(k) \/ Stall(k)
      PROVE  /\ j \in DOMAIN jobs /\ jobs'[j].body = jobs[j].body
             /\ \/ jobs'[j].state # "active" \/ jobs'[j].holder = None
                \/ jobs'[j] = jobs[j]
  BY <1>1, <1>4 DEF Promote, Stall, Job
<1>5. ASSUME NEW w \in Worker, NEW k \in DOMAIN jobs, Fetch(w, k)
      PROVE  /\ j \in DOMAIN jobs /\ jobs'[j].body = jobs[j].body
             /\ \/ j = k /\ jobs'[j].holder = w
                \/ jobs'[j] = jobs[j]
  BY <1>1, <1>5 DEF Fetch, Job
<1>6. ASSUME NEW w \in Worker, NEW retriable \in BOOLEAN, Failed(w, retriable)
      PROVE  /\ j \in DOMAIN jobs /\ jobs'[j].body = jobs[j].body
             /\ jobs'[j].holder = None \/ jobs'[j] = jobs[j]
  <2> DEFINE st == IF retriable /\ jobs[job[w]].attempts + 1 < MaxAttempts
                   THEN "delayed" ELSE "failed"
  <2>1. UNCHANGED jobs \/ /\ job[w] \in DOMAIN jobs
                          /\ jobs' = [jobs EXCEPT ![job[w]].holder = None,
                                                  ![job[w]].attempts = @ + 1,
                                                  ![job[w]].state = st]
    BY <1>6 DEF Failed, HoldsLock
  <2> HIDE DEF st
  <2> QED BY <1>1, <2>1 DEF Job
<1>7. CASE Queue
  BY <1>2, <1>3, <1>4, <1>5, <1>7 DEF Queue, Prune
<1>8. CASE Edit \/ UNCHANGED vars
  BY <1>2, <1>8 DEF Edit, CreateCard, UpdateCard, RemoveCard, ResetProgress, vars
<1>9. CASE Work
  <2>1. PICK w \in Worker : Process(w) \/ TxFails(w) \/ Crash(w)
    BY <1>9 DEF Work
  <2>2. CASE RejectPayload(w) \/ CardGone(w) \/ TxFails(w)
    BY <1>6, <2>2 DEF RejectPayload, CardGone, TxFails
  <2>3. CASE Complete(w)
    BY <1>2, <2>3 DEF Complete
  <2>4. CASE \/ Crash(w) \/ CheckOwned(w) \/ InsertEvents(w) \/ ReadCards(w)
             \/ ReadHistory(w) \/ WriteCard(w) \/ Commit(w)
    BY <1>2, <2>4 DEF Crash, CheckOwned, InsertEvents, ReadCards, ReadHistory,
                      WriteCard, Commit
  <2> QED BY <2>1, <2>2, <2>3, <2>4 DEF Process
<1> QED BY <1>7, <1>8, <1>9 DEF Next

\* A call keeps its job and payload from the fetch to the release.
LEMMA CallSteps ==
  ASSUME IInv, [Next]_vars, NEW w \in Worker
  PROVE  \/ \E j \in DOMAIN jobs : Fetch(w, j)
         \/ pc'[w] = "idle" /\ payload'[w] = <<>>
         \/ pc'[w] = pc[w] /\ UNCHANGED <<job[w], payload[w], owned[w], inserted[w]>>
         \/ /\ Process(w) /\ UNCHANGED <<job, payload>>
            /\ pc[w] # "idle" /\ pc'[w] # "idle"
<1>1. CASE UNCHANGED workVars
  BY <1>1 DEF workVars, txVars
<1>2. ASSUME NEW v \in Worker, NEW j \in DOMAIN jobs, Fetch(v, j)
      PROVE  v = w \/ (pc'[w] = pc[w]
                       /\ UNCHANGED <<job[w], payload[w], owned[w], inserted[w]>>)
  BY <1>2 DEF IInv, CallsOK, Fetch, txVars
<1>3. ASSUME NEW v \in Worker, Release(v)
      PROVE  \/ v = w /\ pc'[w] = "idle" /\ payload'[w] = <<>>
             \/ pc'[w] = pc[w] /\ UNCHANGED <<job[w], payload[w], owned[w], inserted[w]>>
  BY <1>3 DEF IInv, CallsOK, TxOK, Release, EndTx
<1>4. ASSUME NEW v \in Worker,
             \/ CheckOwned(v) \/ InsertEvents(v) \/ ReadCards(v)
             \/ ReadHistory(v) \/ WriteCard(v) \/ Commit(v)
      PROVE  \/ v = w /\ UNCHANGED <<job, payload>> /\ pc[w] # "idle" /\ pc'[w] # "idle"
             \/ pc'[w] = pc[w] /\ UNCHANGED <<job[w], payload[w], owned[w], inserted[w]>>
  BY <1>4 DEF IInv, CallsOK, TxOK, CheckOwned, InsertEvents, ReadCards, ReadHistory,
              WriteCard, Commit, EndTx, Goto, txVars
<1>5. CASE Queue \/ Edit \/ UNCHANGED vars
  BY <1>1, <1>2, <1>5 DEF Queue, Submit, Promote, Prune, Stall, Edit, CreateCard,
                          UpdateCard, RemoveCard, ResetProgress, vars
<1>6. CASE Work
  <2>1. PICK v \in Worker : Process(v) \/ TxFails(v) \/ Crash(v)
    BY <1>6 DEF Work
  <2>2. CASE \/ RejectPayload(v) \/ CardGone(v) \/ TxFails(v)
             \/ Complete(v) \/ Crash(v)
    BY <1>3, <2>2 DEF RejectPayload, CardGone, TxFails, Complete, Crash, Failed
  <2>3. CASE \/ CheckOwned(v) \/ InsertEvents(v) \/ ReadCards(v)
             \/ ReadHistory(v) \/ WriteCard(v) \/ Commit(v)
    BY <1>4, <2>3 DEF Process
  <2> QED BY <2>1, <2>2, <2>3 DEF Process
<1> QED BY <1>5, <1>6 DEF Next

LEMMA BodyCards ==
  ASSUME IInv, NEW j \in DOMAIN jobs
  PROVE  /\ jobs[j].body \in Accepted
         /\ \A i \in DOMAIN jobs[j].body.events : jobs[j].body.events[i].card \in Card
<1>1. jobs[j].body \in Accepted
  BY DEF IInv, JobsOK, IsPartial, Job
<1>2. jobs[j].body.events \in Seq(RawEvent)
  BY <1>1, AcceptedType
<1>3. \A i \in DOMAIN jobs[j].body.events : jobs[j].body.events[i] \in RawEvent
  BY <1>2
<1> QED BY <1>1, <1>3 DEF RawEvent

LEMMA NamedStep ==
  ASSUME IInv, JobsNamed, [Next]_vars
  PROVE  JobsNamed'
<1> SUFFICES ASSUME NEW j \in DOMAIN jobs'
             PROVE  j = JobId(jobs'[j].body) /\ BornAll(cardState', jobs'[j].body.events)
  BY DEF JobsNamed, BornAll
<1>1. ASSUME NEW b \in Accepted, Submit(b), j = JobId(b), jobs'[j] = NewJob(b)
      PROVE  j = JobId(jobs'[j].body) /\ BornAll(cardState', jobs'[j].body.events)
  <2>1. jobs'[j].body = b
    BY <1>1 DEF NewJob
  <2> QED BY <1>1, <2>1 DEF Submit, BornAll, cardVars
<1>2. CASE j \in DOMAIN jobs /\ jobs'[j].body = jobs[j].body
  <2>1. \A i \in DOMAIN jobs[j].body.events :
          /\ jobs[j].body.events[i].card \in Card
          /\ cardState[jobs[j].body.events[i].card] # "unborn"
    BY <1>2, BodyCards DEF JobsNamed, BornAll
  <2> QED BY <1>2, <2>1, CardStates DEF JobsNamed, BornAll
<1> QED BY <1>1, <1>2, JobSteps

LEMMA HolderStep ==
  ASSUME IInv, JobsNamed, HoldersHavePayload, [Next]_vars
  PROVE  HoldersHavePayload'
<1> SUFFICES ASSUME NEW w \in Worker
             PROVE  /\ BornAll(cardState', payload'[w])
                    /\ (pc[w] # "idle" /\ HoldsLock(w))'
                       => payload'[w] = jobs'[job'[w]].body.events
  BY DEF HoldersHavePayload, BornAll
<1>1. payload[w] \in Seq(RawEvent) /\ BornAll(cardState, payload[w])
  BY DEF IInv, CallsOK, HoldersHavePayload
<1>2. \A i \in DOMAIN payload[w] : payload[w][i].card \in Card
  <2>1. \A i \in DOMAIN payload[w] : payload[w][i] \in RawEvent
    BY <1>1
  <2> QED BY <2>1 DEF RawEvent
<1>3. ASSUME NEW j \in DOMAIN jobs, Fetch(w, j)
      PROVE  /\ BornAll(cardState', payload'[w]) /\ job'[w] = j
             /\ payload'[w] = jobs'[j].body.events
  <2>1. /\ payload'[w] = jobs[j].body.events /\ job'[w] = j
        /\ UNCHANGED cardState
    BY <1>3 DEF Fetch, IInv, CallsOK, cardVars
  <2>2. jobs'[j].body = jobs[j].body
    BY <1>3 DEF Fetch, IInv, JobsOK, IsPartial, Job
  <2> QED BY <2>1, <2>2 DEF JobsNamed, BornAll
<1>4. CASE pc'[w] = "idle" /\ payload'[w] = <<>>
  BY <1>4 DEF BornAll
<1>5. CASE /\ UNCHANGED <<job[w], payload[w]>>
           /\ pc'[w] = pc[w] \/ (pc[w] # "idle" /\ pc'[w] # "idle")
  <2>1. BornAll(cardState', payload'[w])
    BY <1>1, <1>2, <1>5, CardStates DEF BornAll
  <2>2. ASSUME pc'[w] # "idle", HoldsLock(w)'
        PROVE  payload'[w] = jobs'[job'[w]].body.events
    <3> DEFINE j == job[w]
    <3>1. /\ j \in DOMAIN jobs' /\ jobs'[j].state = "active"
          /\ jobs'[j].holder = w /\ pc[w] # "idle"
      BY <1>5, <2>2 DEF HoldsLock
    <3>2. ~\E b \in Accepted : jobs'[j] = NewJob(b)
      <4>1. \A b : NewJob(b).state = "waiting"
        BY DEF NewJob
      <4> QED BY <3>1, <4>1
    <3>3. ~Fetch(w, j) /\ w # None
      BY <3>1, QueueAssumption DEF Fetch
    <3>4. /\ j \in DOMAIN jobs /\ jobs'[j].body = jobs[j].body
          /\ jobs[j].state = "active" /\ jobs[j].holder = w
      BY <3>1, <3>2, <3>3, JobSteps
    <3>5. HoldsLock(w)
      BY <3>4 DEF HoldsLock
    <3> QED BY <1>5, <3>1, <3>4, <3>5 DEF HoldersHavePayload
  <2> QED BY <2>1, <2>2
<1> QED BY <1>3, <1>4, <1>5, CallSteps

\* Rows and dead cards only accumulate.
LEMMA ProgressKept ==
  ASSUME IInv, HoldersHavePayload, [Next]_vars, rows \subseteq rows',
         NEW w \in Worker, Progress(w),
         UNCHANGED <<job[w], payload[w], owned[w], inserted[w]>>,
         \/ pc'[w] = pc[w]
         \/ /\ pc[w] \in {"cards", "history", "write"}
            /\ pc'[w] \in {"cards", "history", "write"}
  PROVE  Progress(w)'
<1>1. \A i \in DOMAIN payload[w] :
        /\ payload[w][i].card \in Card
        /\ cardState[payload[w][i].card] # "unborn"
  <2>1. payload[w] \in Seq(RawEvent) /\ BornAll(cardState, payload[w])
    BY DEF IInv, CallsOK, HoldersHavePayload
  <2>2. \A i \in DOMAIN payload[w] : payload[w][i] \in RawEvent
    BY <2>1
  <2> QED BY <2>1, <2>2 DEF BornAll, RawEvent
<1>2. OwnedOrForeign(w) => OwnedOrForeign(w)'
  <2> SUFFICES ASSUME OwnedOrForeign(w), NEW i \in DOMAIN payload[w],
                      ~(i \in DOMAIN owned[w] /\ owned[w][i].id = payload[w][i].id)
               PROVE  ~MayStudy(Live', job[w].user, payload[w][i])
    BY DEF OwnedOrForeign, MayStudy, Live
  <2>1. ~MayStudy(Live, job[w].user, payload[w][i])
    BY DEF OwnedOrForeign
  <2>2. \A c \in Card : cardState'[c] = cardState[c]
                         \/ cardState[c] = "unborn" \/ cardState'[c] = "gone"
    BY CardStates
  <2> QED BY <1>1, <2>1, <2>2, StaysForeign
<1>3. OwnedIn(w, rows) => OwnedIn(w, rows)'
  BY MoreKeys DEF OwnedIn
<1>4. OwnedIn(w, rows \union inserted[w]) => OwnedIn(w, rows \union inserted[w])'
  <2>1. Keys(rows \union inserted[w]) \subseteq Keys(rows' \union inserted'[w])
    BY MoreKeys
  <2> QED BY <2>1 DEF OwnedIn
<1> QED BY <1>2, <1>3, <1>4 DEF Progress

LEMMA RowsKept ==
  ASSUME [Next]_vars
  PROVE  rows \subseteq rows'
BY DEF Next, Queue, Submit, Promote, Prune, Stall, Fetch, Edit, CreateCard,
       UpdateCard, RemoveCard, ResetProgress, Work, Process, TxFails, Crash,
       RejectPayload, CheckOwned, InsertEvents, ReadCards, ReadHistory, WriteCard,
       CardGone, Commit, Complete, Failed, vars, dbVars

LEMMA ProgressStep ==
  ASSUME IInv, HoldersHavePayload, [Next]_vars, NEW w \in Worker, Progress(w)
  PROVE  Progress(w)'
<1> USE DEF IInv
<1>1. CASE pc'[w] \in {"idle", "check"}
  BY <1>1 DEF Progress
<1>2. CASE pc'[w] = pc[w] /\ UNCHANGED <<job[w], payload[w], owned[w], inserted[w]>>
  BY <1>2, RowsKept, ProgressKept
<1>3. CASE CheckOwned(w)
  <2> DEFINE mine == {i \in DOMAIN payload[w] :
                        MayStudy(Live, job[w].user, NormalizeEvent(payload[w][i]))}
  <2>1. /\ owned'[w] = [i \in mine |-> NormalizeEvent(payload[w][i])]
        /\ pc'[w] = IF mine = {} THEN "ack" ELSE "insert"
        /\ UNCHANGED <<job, payload, cardState>>
    BY <1>3 DEF CheckOwned, Goto, CallsOK, dbVars, cardVars
  <2>2. \A i \in DOMAIN payload[w] :
          /\ NormalizeEvent(payload[w][i]).id = payload[w][i].id
          /\ MayStudy(Live, job[w].user, NormalizeEvent(payload[w][i]))
             <=> MayStudy(Live, job[w].user, payload[w][i])
    BY DEF NormalizeEvent, MayStudy
  <2>3. OwnedOrForeign(w)'
    BY <2>1, <2>2 DEF OwnedOrForeign, Live
  <2>4. pc'[w] = "ack" => OwnedIn(w, rows)'
    BY <2>1 DEF OwnedIn
  <2> QED BY <2>1, <2>3, <2>4 DEF Progress
<1>4. CASE InsertEvents(w)
  <2>1. /\ inserted'[w] = SkipDuplicates(job[w].user, owned[w], rows)
        /\ pc'[w] = "cards" /\ pc[w] = "insert"
        /\ UNCHANGED <<rows, job, payload, owned, cardState>>
    BY <1>4 DEF InsertEvents, Goto, CallsOK, TxOK, dbVars, cardVars
  <2>2. DOMAIN owned[w] \subseteq Nat
    BY DEF CallsOK, IsPartial
  <2>3. OwnedIn(w, rows \union inserted[w])'
    BY <2>1, <2>2, SkippedAreStored DEF OwnedIn
  <2>4. OwnedOrForeign(w)'
    BY <2>1 DEF Progress, OwnedOrForeign, Live
  <2> QED BY <2>1, <2>3, <2>4 DEF Progress
<1>5. CASE ReadCards(w) \/ ReadHistory(w) \/ WriteCard(w)
  <2>1. /\ UNCHANGED <<job[w], payload[w], owned[w], inserted[w]>>
        /\ pc[w] \in {"cards", "history", "write"}
        /\ pc'[w] \in {"cards", "history", "write"}
    BY <1>5 DEF ReadCards, ReadHistory, WriteCard, Goto, CallsOK
  <2> QED BY <2>1, RowsKept, ProgressKept
<1>6. CASE Commit(w)
  <2>1. /\ rows' = rows \union inserted[w] /\ pc'[w] = "ack" /\ pc[w] = "write"
        /\ UNCHANGED <<job, payload, owned, cardState>>
    BY <1>6 DEF Commit, Goto, CallsOK
  <2>2. OwnedIn(w, rows)'
    BY <2>1 DEF Progress, OwnedIn
  <2>3. OwnedOrForeign(w)'
    BY <2>1 DEF Progress, OwnedOrForeign, Live
  <2> QED BY <2>1, <2>2, <2>3 DEF Progress
<1>7. CASE \E j \in DOMAIN jobs : Fetch(w, j)
  <2>1. pc'[w] = "check"
    BY <1>7 DEF Fetch, CallsOK
  <2> QED BY <1>1, <2>1
<1>8. CASE Process(w) /\ pc'[w] # "idle"
  <2>1. ASSUME RejectPayload(w) \/ CardGone(w) \/ Complete(w)
        PROVE  FALSE
    BY <1>8, <2>1 DEF RejectPayload, CardGone, Complete, Failed, Release, CallsOK
  <2> QED BY <1>3, <1>4, <1>5, <1>6, <1>8, <2>1 DEF Process
<1> QED BY <1>1, <1>2, <1>7, <1>8, CallSteps

-----------------------------------------------------------------------------
\* A job that leaves while it is active is completed by the worker holding it.
LEMMA LeavesByCompletion ==
  ASSUME IInv, [Next]_vars, NEW j \in DOMAIN jobs \ DOMAIN jobs', jobs[j].state = "active"
  PROVE  \E w \in Worker : pc[w] = "ack" /\ job[w] = j /\ HoldsLock(w)
<1>1. UNCHANGED jobs => FALSE
  OBVIOUS
<1>2. CASE Queue
  BY <1>2 DEF Queue, Submit, Put, Promote, Prune, Without, Stall, Fetch
<1>3. CASE Edit \/ UNCHANGED vars
  BY <1>1, <1>3 DEF Edit, CreateCard, UpdateCard, RemoveCard, ResetProgress, vars
<1>4. CASE Work
  <2>1. PICK w \in Worker : Process(w) \/ TxFails(w) \/ Crash(w)
    BY <1>4 DEF Work
  <2>2. ASSUME NEW retriable \in BOOLEAN, Failed(w, retriable)
        PROVE  FALSE
    BY <2>2 DEF Failed
  <2>3. CASE RejectPayload(w) \/ CardGone(w) \/ TxFails(w)
    BY <2>2, <2>3 DEF RejectPayload, CardGone, TxFails
  <2>4. CASE Complete(w)
    BY <2>4 DEF Complete, Without
  <2>5. CASE \/ Crash(w) \/ CheckOwned(w) \/ InsertEvents(w) \/ ReadCards(w)
             \/ ReadHistory(w) \/ WriteCard(w) \/ Commit(w)
    BY <1>1, <2>5 DEF Crash, CheckOwned, InsertEvents, ReadCards, ReadHistory,
                      WriteCard, Commit
  <2> QED BY <2>1, <2>3, <2>4, <2>5 DEF Process
<1> QED BY <1>2, <1>3, <1>4 DEF Next

LEMMA DoneIsRecorded ==
  ASSUME IInv, DInv, [Next]_vars, NEW j \in DOMAIN jobs \ DOMAIN jobs',
         jobs[j].state = "active"
  PROVE  Recorded(rows, Live, jobs[j].body)
<1>1. PICK w \in Worker : pc[w] = "ack" /\ job[w] = j /\ HoldsLock(w)
  BY LeavesByCompletion
<1>2. payload[w] = jobs[j].body.events
  BY <1>1 DEF DInv, HoldersHavePayload
<1>3. job[w].user = jobs[j].body.user
  <2>1. j.user = jobs[j].body.user
    <3>1. JobId(jobs[j].body).user = jobs[j].body.user
      BY DEF JobId
    <3> QED BY <3>1 DEF DInv, JobsNamed
  <2> QED BY <1>1, <2>1
<1>4. OwnedOrForeign(w) /\ OwnedIn(w, rows)
  BY <1>1 DEF DInv, Progress
<1> QED BY <1>2, <1>3, <1>4 DEF Recorded, OwnedOrForeign, OwnedIn

\* No crash, stall, retry or redelivery, with any number of workers, makes the
\* queue drop a batch as done while one of its answers is neither stored nor
\* for a card that is deleted or not the user's.
THEOREM DoneIsAlwaysRecorded == Spec => DoneMeansRecorded
<1>1. Init => IInv /\ DInv
  <2> SUFFICES ASSUME Init PROVE IInv /\ DInv
    OBVIOUS
  <2>1. DInv
    BY DEF Init, DInv, JobsNamed, HoldersHavePayload, BornAll, Progress
  <2> QED BY <2>1, InitType
<1>2. IInv /\ DInv /\ [Next]_vars => (IInv /\ DInv)'
  <2> SUFFICES ASSUME IInv, DInv, [Next]_vars PROVE IInv' /\ DInv'
    OBVIOUS
  <2>1. JobsNamed' /\ HoldersHavePayload'
    BY NamedStep, HolderStep DEF DInv
  <2>2. \A w \in Worker : Progress(w)'
    BY ProgressStep DEF DInv
  <2> QED BY <2>1, <2>2, StepKeepsIInv DEF DInv
<1>3. IInv /\ DInv /\ [Next]_vars
      => [\A j \in DOMAIN jobs \ DOMAIN jobs' :
            jobs[j].state = "active" => Recorded(rows, Live, jobs[j].body)]_vars
  BY DoneIsRecorded
<1> QED BY <1>1, <1>2, <1>3, PTL DEF Spec, DoneMeansRecorded

(***************************************************************************)
(* What a worker holds at each stage of its call.                          *)
(***************************************************************************)
NoTx(w) ==
  /\ seen[w] = <<>> /\ history[w] = <<>> /\ todo[w] = <<>>
  /\ inserted[w] = {} /\ writes[w] = <<>>

Stage(w) ==
  /\ pc[w] \in {"idle", "check", "insert", "ack"} => NoTx(w)
  /\ pc[w] \in {"idle", "check"} => owned[w] = <<>>
  /\ pc[w] = "cards" => seen[w] = <<>>
  /\ pc[w] \in {"cards", "history"} =>
       history[w] = <<>> /\ todo[w] = <<>> /\ writes[w] = <<>>

Stages ==
  /\ todo \in [Worker -> Seq(Card)]
  /\ \A w \in Worker : Stage(w)

\* A step leaves w's call as it is, starts it, ends its transaction, or is one
\* of the call's own.
LEMMA CallOrStep ==
  ASSUME IInv, Stages, [Next]_vars, NEW w \in Worker
  PROVE  \/ UNCHANGED <<pc[w], job[w], payload[w], owned[w], seen[w], history[w],
                        todo[w], inserted[w], writes[w]>>
         \/ \E j \in DOMAIN jobs : Fetch(w, j)
         \/ Release(w) /\ NoTx(w)' /\ pc'[w] = "idle" /\ owned'[w] = <<>>
         \/ /\ Commit(w) /\ NoTx(w)' /\ pc'[w] = "ack"
            /\ UNCHANGED <<job[w], payload[w], owned[w]>>
         \/ \/ CheckOwned(w) \/ InsertEvents(w) \/ ReadCards(w)
            \/ ReadHistory(w) \/ WriteCard(w)
<1> USE DEF IInv, CallsOK, TxOK, Stages
<1>1. CASE UNCHANGED workVars
  BY <1>1 DEF workVars, txVars
<1>2. ASSUME NEW v \in Worker, NEW j \in DOMAIN jobs, Fetch(v, j)
      PROVE  \/ v = w
             \/ UNCHANGED <<pc[w], job[w], payload[w], owned[w], seen[w], history[w],
                            todo[w], inserted[w], writes[w]>>
  BY <1>2 DEF Fetch, txVars
<1>3. ASSUME NEW v \in Worker, Release(v)
      PROVE  \/ v = w /\ NoTx(w)' /\ pc'[w] = "idle" /\ owned'[w] = <<>>
             \/ UNCHANGED <<pc[w], job[w], payload[w], owned[w], seen[w], history[w],
                            todo[w], inserted[w], writes[w]>>
  BY <1>3 DEF Release, EndTx, NoTx
<1>4. ASSUME NEW v \in Worker, Commit(v)
      PROVE  \/ /\ v = w /\ NoTx(w)' /\ pc'[w] = "ack"
                /\ UNCHANGED <<job[w], payload[w], owned[w]>>
             \/ UNCHANGED <<pc[w], job[w], payload[w], owned[w], seen[w], history[w],
                            todo[w], inserted[w], writes[w]>>
  BY <1>4 DEF Commit, EndTx, Goto, NoTx
<1>5. ASSUME NEW v \in Worker,
             \/ CheckOwned(v) \/ InsertEvents(v) \/ ReadCards(v)
             \/ ReadHistory(v) \/ WriteCard(v)
      PROVE  \/ v = w
             \/ UNCHANGED <<pc[w], job[w], payload[w], owned[w], seen[w], history[w],
                            todo[w], inserted[w], writes[w]>>
  BY <1>5 DEF CheckOwned, InsertEvents, ReadCards, ReadHistory, WriteCard, Goto, txVars
<1>6. CASE Queue \/ Edit \/ UNCHANGED vars
  BY <1>1, <1>2, <1>6 DEF Queue, Submit, Promote, Prune, Stall, Edit, CreateCard,
                          UpdateCard, RemoveCard, ResetProgress, vars
<1>7. CASE Work
  <2>1. PICK v \in Worker : Process(v) \/ TxFails(v) \/ Crash(v)
    BY <1>7 DEF Work
  <2>2. CASE \/ RejectPayload(v) \/ CardGone(v) \/ TxFails(v)
             \/ Complete(v) \/ Crash(v)
    <3>1. Release(v)
      BY <2>2 DEF RejectPayload, CardGone, TxFails, Complete, Crash, Failed
    <3> QED BY <3>1, <1>3
  <2>3. CASE Commit(v)
    BY <1>4, <2>3
  <2>4. CASE \/ CheckOwned(v) \/ InsertEvents(v) \/ ReadCards(v)
             \/ ReadHistory(v) \/ WriteCard(v)
    BY <1>5, <2>4
  <2> QED BY <2>1, <2>2, <2>3, <2>4 DEF Process
<1> QED BY <1>6, <1>7 DEF Next

\* touchedFlashcardIds, each card once, in the order of the ids.
LEMMA LockOrderLists ==
  ASSUME CallsOK, NEW w \in Worker
  PROVE  /\ LockOrder(owned[w]) \in Seq(Card)
         /\ DOMAIN LockOrder(owned[w]) \subseteq Nat
         /\ \A c \in Touched(w) :
              \E k \in DOMAIN LockOrder(owned[w]) : LockOrder(owned[w])[k] = c
         /\ \A k \in DOMAIN LockOrder(owned[w]) : LockOrder(owned[w])[k] \in Touched(w)
         /\ \A k, l \in DOMAIN LockOrder(owned[w]) :
              k < l => LockOrder(owned[w])[k] < LockOrder(owned[w])[l]
<1> DEFINE S == Touched(w)
           R == {p \in S \X S : p[1] < p[2]}
           o == InOrder(S, R)
<1>1. LockOrder(owned[w]) = o
  BY DEF LockOrder, Touched
<1>2. S \in SUBSET Card /\ IsFiniteSet(S) /\ S \subseteq Nat
  BY TouchedFinite, DataAssumption
<1>3. \A x, y \in S : <<x, y>> \in R <=> x < y
  OBVIOUS
<1> HIDE DEF S, R
<1>4. Orders(R, S)
  BY <1>2, <1>3 DEF Orders
<1>5. /\ Cardinality(S) \in Nat /\ o \in [1 .. Cardinality(S) -> S]
      /\ \A x \in S : \E k \in 1 .. Cardinality(S) : o[k] = x
      /\ \A k, l \in 1 .. Cardinality(S) : k < l => <<o[k], o[l]>> \in R
  BY <1>2, <1>4, InOrderLists
<1> HIDE DEF o
<1>6. o \in Seq(Card) /\ DOMAIN o = 1 .. Cardinality(S)
  <2>1. DOMAIN o = 1 .. Cardinality(S) /\ o \in [1 .. Cardinality(S) -> Card]
    BY <1>2, <1>5
  <2> QED BY <1>5, <2>1
<1>7. DOMAIN o \subseteq Nat /\ \A k \in DOMAIN o : o[k] \in S
  BY <1>5
<1>8. \A k, l \in DOMAIN o : k < l => o[k] < o[l]
  BY <1>3, <1>5, <1>6
<1>9. \A x \in S : \E k \in DOMAIN o : o[k] = x
  BY <1>5, <1>6
<1> QED BY <1>1, <1>6, <1>7, <1>8, <1>9 DEF S

LEMMA StagesStep ==
  ASSUME IInv, Stages, [Next]_vars
  PROVE  Stages'
<1> USE DEF IInv, CallsOK, TxOK, Stages
<1>1. todo' \in [Worker -> Seq(Card)]
  <2>1. CASE UNCHANGED todo
    BY <2>1
  <2>2. ASSUME NEW w \in Worker, EndTx(w) PROVE todo' \in [Worker -> Seq(Card)]
    <3>1. <<>> \in Seq(Card)
      OBVIOUS
    <3> QED BY <2>2, <3>1 DEF EndTx
  <2>3. ASSUME NEW w \in Worker, ReadHistory(w) PROVE todo' \in [Worker -> Seq(Card)]
    BY <2>3, LockOrderLists DEF ReadHistory
  <2>4. ASSUME NEW w \in Worker, WriteCard(w) PROVE todo' \in [Worker -> Seq(Card)]
    BY <2>4 DEF WriteCard
  <2>5. CASE Queue \/ Edit \/ UNCHANGED vars
    BY <2>1, <2>5 DEF Queue, Submit, Promote, Prune, Stall, Fetch, Edit, CreateCard,
                      UpdateCard, RemoveCard, ResetProgress, vars, workVars, txVars
  <2>6. ASSUME NEW w \in Worker, Process(w) \/ TxFails(w) \/ Crash(w)
        PROVE  todo' \in [Worker -> Seq(Card)]
    <3>1. CASE CheckOwned(w) \/ ReadCards(w) \/ InsertEvents(w)
      BY <2>1, <3>1 DEF CheckOwned, ReadCards, InsertEvents, txVars
    <3>2. CASE \/ RejectPayload(w) \/ CardGone(w) \/ TxFails(w)
               \/ Complete(w) \/ Crash(w) \/ Commit(w)
      <4>1. EndTx(w)
        BY <3>2 DEF RejectPayload, CardGone, TxFails, Complete, Crash, Commit,
                    Failed, Release
      <4> QED BY <2>2, <4>1
    <3> QED BY <2>3, <2>4, <2>6, <3>1, <3>2 DEF Process
  <2> QED BY <2>5, <2>6 DEF Next, Work
<1>2. ASSUME NEW w \in Worker PROVE Stage(w)'
  <2>1. CASE UNCHANGED <<pc[w], job[w], payload[w], owned[w], seen[w], history[w],
                         todo[w], inserted[w], writes[w]>>
    BY <2>1 DEF Stage, NoTx
  <2>2. CASE \E j \in DOMAIN jobs : Fetch(w, j)
    BY <2>2 DEF Fetch, Stage, NoTx, txVars
  <2>3. CASE NoTx(w)' /\ pc'[w] = "idle" /\ owned'[w] = <<>>
    BY <2>3 DEF Stage, NoTx
  <2>4. CASE NoTx(w)' /\ pc'[w] = "ack"
    BY <2>4 DEF Stage, NoTx
  <2>5. CASE CheckOwned(w)
    BY <2>5 DEF CheckOwned, Goto, Stage, NoTx, txVars
  <2>6. CASE InsertEvents(w)
    BY <2>6 DEF InsertEvents, Goto, Stage, NoTx
  <2>7. CASE ReadCards(w)
    BY <2>7 DEF ReadCards, Goto, Stage, NoTx
  <2>8. CASE ReadHistory(w)
    BY <2>8 DEF ReadHistory, Goto, Stage, NoTx
  <2>9. CASE WriteCard(w)
    BY <2>9 DEF WriteCard, Stage, NoTx
  <2> QED BY <2>1, <2>2, <2>3, <2>4, <2>5, <2>6, <2>7, <2>8, <2>9, CallOrStep
<1> QED BY <1>1, <1>2

LEMMA StagesInit ==
  ASSUME Init
  PROVE  Stages
BY DEF Init, Stages, Stage, NoTx

-----------------------------------------------------------------------------
(***************************************************************************)
(* Locks. A worker takes them in the order of the cards' ids, so what it   *)
(* still has to take is above all that it holds.                           *)
(***************************************************************************)
LockedBelow(w) ==
  /\ \A k, l \in DOMAIN todo[w] : k < l => todo[w][k] < todo[w][l]
  /\ \A c \in DOMAIN writes[w] : \A k \in DOMAIN todo[w] : c < todo[w][k]

LEMMA LockStep ==
  ASSUME IInv, Stages, [Next]_vars, NEW w \in Worker, LockedBelow(w)
  PROVE  LockedBelow(w)'
<1> USE DEF IInv, CallsOK, TxOK, Stages
<1>1. CASE UNCHANGED <<todo[w], writes[w]>>
  BY <1>1 DEF LockedBelow
<1>2. CASE NoTx(w)'
  BY <1>2 DEF LockedBelow, NoTx
<1>3. CASE \E j \in DOMAIN jobs : Fetch(w, j)
  BY <1>1, <1>3 DEF Fetch, txVars
<1>4. CASE CheckOwned(w) \/ InsertEvents(w) \/ ReadCards(w)
  BY <1>1, <1>4 DEF CheckOwned, InsertEvents, ReadCards, txVars
<1>5. CASE ReadHistory(w)
  <2>1. todo'[w] = LockOrder(owned[w]) /\ writes'[w] = <<>>
    BY <1>5 DEF ReadHistory, Stage
  <2> QED BY <2>1, LockOrderLists DEF LockedBelow
<1>6. CASE WriteCard(w)
  <2> DEFINE s == todo[w]
             c == Head(s)
  <2>1. /\ s \in Seq(Card) /\ s # <<>> /\ todo'[w] = Tail(s)
        /\ DOMAIN writes'[w] \subseteq DOMAIN writes[w] \union {c}
    BY <1>6 DEF WriteCard, Put
  <2>2. c = s[1] /\ 1 \in DOMAIN s
    BY <2>1
  <2>3. \A k \in DOMAIN Tail(s) : /\ k \in Nat /\ k + 1 \in DOMAIN s /\ 1 < k + 1
                                  /\ Tail(s)[k] = s[k + 1]
    BY <2>1
  <2> HIDE DEF s
  <2>4. \A k, l \in DOMAIN Tail(s) : k < l => Tail(s)[k] < Tail(s)[l]
    <3> SUFFICES ASSUME NEW k \in DOMAIN Tail(s), NEW l \in DOMAIN Tail(s), k < l
                 PROVE  Tail(s)[k] < Tail(s)[l]
      OBVIOUS
    <3>1. k + 1 < l + 1
      BY <2>3
    <3> QED BY <2>3, <3>1 DEF LockedBelow, s
  <2>5. \A k \in DOMAIN Tail(s) : c < Tail(s)[k]
    BY <2>2, <2>3 DEF LockedBelow, s
  <2>6. \A d \in DOMAIN writes[w] : \A k \in DOMAIN Tail(s) : d < Tail(s)[k]
    BY <2>3 DEF LockedBelow, s
  <2> QED BY <2>1, <2>4, <2>5, <2>6 DEF LockedBelow
<1> QED BY <1>1, <1>2, <1>3, <1>4, <1>5, <1>6, CallOrStep

\* Workers that wait for each other's card locks never form a cycle: among any
\* of them, the one that waits for the greatest id waits for none of the others.
THEOREM LocksNeverCycle == Spec => []NoLockCycle
<1> DEFINE LInv == \A w \in Worker : LockedBelow(w)
<1>1. Init => IInv /\ Stages /\ LInv
  BY InitType, StagesInit DEF Init, LockedBelow
<1>2. IInv /\ Stages /\ LInv /\ [Next]_vars => (IInv /\ Stages /\ LInv)'
  BY StepKeepsIInv, StagesStep, LockStep
<1>3. IInv /\ Stages /\ LInv => NoLockCycle
  <2> SUFFICES ASSUME IInv, Stages, LInv, NEW S \in (SUBSET Worker) \ {{}},
                      \A w \in S : \E v \in S : WaitsFor(w, v)
               PROVE  FALSE
    BY DEF NoLockCycle
  <2> DEFINE next(w) == Head(todo[w])
             wanted == {next(w) : w \in S}
  <2>1. \A w \in S : todo[w] # <<>> /\ todo[w] \in Seq(Card)
    BY DEF WaitsFor, Stages
  <2>2. \A w \in S : next(w) = todo[w][1] /\ 1 \in DOMAIN todo[w] /\ next(w) \in Nat
    <3> TAKE w \in S
    <3>1. Head(todo[w]) = todo[w][1] /\ 1 \in DOMAIN todo[w] /\ todo[w][1] \in Card
      BY <2>1
    <3> QED BY <3>1, DataAssumption
  <2>3. IsFiniteSet(wanted)
    <3> DEFINE f == [w \in S |-> next(w)]
    <3>1. f \in Surjection(S, wanted)
      BY DEF Surjection
    <3>2. IsFiniteSet(S)
      BY QueueAssumption, FS_Subset
    <3> QED BY <3>1, <3>2, FS_Surjection
  <2>4. wanted \in SUBSET Nat /\ wanted # {}
    BY <2>2
  <2> HIDE DEF wanted
  <2>5. Max(wanted) \in wanted /\ \A c \in wanted : c <= Max(wanted)
    BY <2>3, <2>4, GreatestNat
  <2>6. PICK w \in S : next(w) = Max(wanted)
    BY <2>5 DEF wanted
  <2>7. PICK v \in S : WaitsFor(w, v)
    OBVIOUS
  <2>8. next(w) < next(v)
    BY <2>2, <2>7 DEF WaitsFor, LockedBelow
  <2>9. next(v) <= next(w)
    BY <2>5, <2>6 DEF wanted
  <2> QED BY <2>2, <2>8, <2>9
<1> QED BY <1>1, <1>2, <1>3, PTL DEF Spec

(***************************************************************************)
(* Histories: the rows of a card, newest first, and the levels they earn.  *)
(***************************************************************************)
Lists(s, n, S) ==
  /\ s \in [1 .. n -> S]
  /\ \A i, k \in 1 .. n : i # k => s[i] # s[k]
  /\ \A r \in S : \E i \in 1 .. n : s[i] = r
  /\ \A i, k \in 1 .. n : i < k => s[i].at >= s[k].at

LEMMA NewestFirstLists ==
  ASSUME NEW S \in SUBSET Row, IsFiniteSet(S), NEW s \in NewestFirst(S)
  PROVE  /\ Cardinality(S) \in Nat /\ Lists(s, Cardinality(S), S)
         /\ s \in Seq(Row) /\ Len(s) = Cardinality(S) /\ Timed(s)
         /\ DOMAIN s = 1 .. Cardinality(S)
<1> DEFINE n == Cardinality(S)
<1>1. n \in Nat
  BY FS_CardinalityType
<1>2. /\ s \in [1 .. n -> S] /\ \A i, k \in 1 .. n : i # k => s[i] # s[k]
  BY DEF NewestFirst, SetToSeqs
<1>3. \A i, k \in 1 .. n : i < k => s[i].at >= s[k].at
  BY <1>2 DEF NewestFirst
<1>4. IsFiniteSet(1 .. n) /\ Cardinality(1 .. n) = n
  BY <1>1, FS_Interval
<1>5. \A r \in S : \E i \in 1 .. n : s[i] = r
  <2>1. s \in Injection(1 .. n, S)
    BY <1>2 DEF Injection, IsInjective
  <2>2. s \in Surjection(1 .. n, S)
    <3> HIDE DEF n
    <3>1. Cardinality(1 .. n) = Cardinality(S)
      BY <1>4 DEF n
    <3> QED BY <1>4, <2>1, <3>1, FS_Injection
  <2> QED BY <2>2 DEF Surjection
<1>6. \A i \in 1 .. n : s[i].at \in Nat
  BY <1>2 DEF Row, Time
<1>7. Timed(s)
  BY <1>1, <1>2, <1>4, <1>6 DEF Timed
<1> HIDE DEF n
<1>8. s \in Seq(Row) /\ Len(s) = n
  BY <1>1, <1>2
<1> QED BY <1>1, <1>2, <1>3, <1>5, <1>7, <1>8 DEF Lists, n

LEMMA ListsNewestFirst ==
  ASSUME NEW S, NEW n \in Nat, NEW s, Lists(s, n, S)
  PROVE  /\ IsFiniteSet(S) /\ Cardinality(S) = n
         /\ s \in NewestFirst(S)
<1>1. s \in Bijection(1 .. n, S)
  BY DEF Lists, Bijection, Injection, Surjection, IsInjective
<1>2. IsFiniteSet(1 .. n) /\ ExistsBijection(1 .. n, S)
  BY <1>1, FS_Interval DEF ExistsBijection
<1>3. IsFiniteSet(S) /\ Cardinality(S) = n
  BY <1>2, FS_Bijection, FS_CountingElements
<1>4. s \in SetToSeqs(S)
  BY <1>3 DEF Lists, SetToSeqs
<1> QED BY <1>3, <1>4 DEF Lists, NewestFirst

\* An empty history earns the baseline.
LEMMA NoRows ==
  ASSUME NEW b \in Level
  PROVE  /\ <<>> \in NewestFirst({}) /\ FoldStrength(<<>>, b) = b
         /\ \A correct : LastAt(<<>>, correct) = NoTime
<1>1. Lists(<<>>, 0, {})
  BY DEF Lists
<1>2. <<>> \in NewestFirst({})
  BY <1>1, ListsNewestFirst
<1>3. DOMAIN <<>> = {} /\ Cardinality({}) = 0
  BY FS_EmptySet
<1>4. FoldStrength(<<>>, b) = Levels(ByTime(<<>>), 0, b)[0]
  BY <1>3 DEF FoldStrength
<1>5. IsFold(Levels(ByTime(<<>>), 0, b), ByTime(<<>>), 0, b)
  BY LevelsIsFold
<1>6. Levels(ByTime(<<>>), 0, b)[0] = b
  BY <1>5 DEF IsFold
<1> QED BY <1>2, <1>3, <1>4, <1>6 DEF LastAt

\* The level l is one that the rows S can earn, or less.
Earned(l, S, b) == \E s \in NewestFirst(S) : l <= FoldStrength(s, b)

\* A row more goes in front of the first older one, and earns no less.
LEMMA EarnedByOneMore ==
  ASSUME NEW S \in SUBSET Row, IsFiniteSet(S), NEW x \in Row \ S,
         NEW b \in Level, NEW l \in Level, Earned(l, S, b)
  PROVE  Earned(l, S \union {x}, b)
<1> DEFINE n == Cardinality(S)
           T == S \union {x}
<1>1. PICK s \in NewestFirst(S) : l <= FoldStrength(s, b)
  BY DEF Earned
<1>2. n \in Nat /\ Lists(s, n, S) /\ Timed(s) /\ DOMAIN s = 1 .. n
  BY <1>1, NewestFirstLists
<1> HIDE DEF n
<1> DEFINE Older == {k \in 1 .. n + 1 : k = n + 1 \/ s[k].at < x.at}
<1>3. PICK r \in Older : \A k \in Older : r <= k
  <2>1. Older \in SUBSET Nat /\ n + 1 \in Older
    BY <1>2
  <2> HIDE DEF Older
  <2> QED BY <2>1, LeastNat
<1>4. /\ r \in 1 .. n + 1
      /\ \A k \in 1 .. n : s[k] \in S /\ s[k] \in Row /\ s[k].at \in Nat
      /\ x.at \in Nat
  BY <1>2, <1>3 DEF Lists, Row, Time
<1>5. \A k \in 1 .. n : k < r => s[k].at >= x.at
  BY <1>2, <1>3, <1>4
<1>6. \A k \in 1 .. n : r <= k => x.at >= s[k].at
  BY <1>2, <1>3, <1>4 DEF Lists
<1> DEFINE t == [k \in 1 .. n + 1 |-> IF k < r THEN s[k]
                                      ELSE IF k = r THEN x ELSE s[k - 1]]
<1>7. Lists(t, n + 1, T)
  <2>1. \A k \in 1 .. n + 1 : \/ k < r /\ k \in 1 .. n /\ t[k] = s[k]
                              \/ k = r /\ t[k] = x
                              \/ r < k /\ k - 1 \in 1 .. n /\ t[k] = s[k - 1]
    BY <1>2, <1>4
  <2> HIDE DEF t
  <2>2. \A k \in 1 .. n + 1 : t[k] \in T
    BY <1>4, <2>1
  <2>3. \A i, k \in 1 .. n + 1 : i # k => t[i] # t[k]
    BY <1>2, <1>4, <2>1 DEF Lists
  <2>4. ASSUME NEW y \in T PROVE \E i \in 1 .. n + 1 : t[i] = y
    <3>1. CASE y = x
      BY <1>4, <2>1, <3>1
    <3>2. CASE y # x
      <4>1. PICK i \in 1 .. n : s[i] = y
        BY <1>2, <3>2 DEF Lists
      <4>2. i \in 1 .. n + 1 /\ i + 1 \in 1 .. n + 1
        BY <1>2
      <4> QED BY <1>2, <1>4, <2>1, <4>1, <4>2 DEF t
    <3> QED BY <3>1, <3>2
  <2>5. \A i, k \in 1 .. n + 1 : i < k => t[i].at >= t[k].at
    <3> SUFFICES ASSUME NEW i \in 1 .. n + 1, NEW k \in 1 .. n + 1, i < k
                 PROVE  t[i].at >= t[k].at
      OBVIOUS
    <3>1. \A j, m \in 1 .. n : j < m => s[j].at >= s[m].at
      BY <1>2 DEF Lists
    <3>2. CASE k < r
      BY <2>1, <3>1, <3>2
    <3>3. CASE k = r
      BY <1>5, <2>1, <3>3
    <3>4. CASE r < k /\ i < r
      <4>1. k - 1 \in 1 .. n /\ i \in 1 .. n /\ r <= k - 1
        BY <2>1, <3>4
      <4> QED BY <2>1, <3>1, <3>4, <4>1
    <3>5. CASE r < k /\ i = r
      <4>1. k - 1 \in 1 .. n /\ r <= k - 1
        BY <2>1, <3>5
      <4> QED BY <1>6, <2>1, <3>5, <4>1
    <3>6. CASE r < k /\ r < i
      <4>1. k - 1 \in 1 .. n /\ i - 1 \in 1 .. n /\ i - 1 < k - 1
        BY <2>1, <3>6
      <4> QED BY <2>1, <3>1, <3>6, <4>1
    <3> QED BY <1>4, <3>2, <3>3, <3>4, <3>5, <3>6
  <2>6. t \in [1 .. n + 1 -> T]
    BY <2>2 DEF t
  <2> HIDE DEF T
  <2> QED BY <2>3, <2>4, <2>5, <2>6 DEF Lists
<1>8. DOMAIN t = 1 .. n + 1 /\ r \in DOMAIN t
  BY <1>4
<1>9. t \in NewestFirst(T)
  <2>1. n + 1 \in Nat
    BY <1>2
  <2> HIDE DEF t, T
  <2> QED BY <1>7, <2>1, ListsNewestFirst
<1>10. Timed(t)
  <2> HIDE DEF t
  <2>1. IsFiniteSet(1 .. n + 1)
    BY <1>2, FS_Interval
  <2>2. \A k \in 1 .. n + 1 : t[k].at \in Nat
    BY <1>4, <1>7 DEF Lists, Row, Time
  <2> QED BY <1>2, <1>8, <2>1, <2>2 DEF Timed
<1> DEFINE D == (DOMAIN t) \ {r}
           rest == [i \in D |-> t[i]]
           p == [i \in D |-> IF i < r THEN i ELSE i - 1]
<1>11. /\ \A i \in D : p[i] \in 1 .. n /\ rest[i] = s[p[i]]
       /\ \A i, k \in D : p[i] = p[k] => i = k
       /\ \A k \in 1 .. n : \E i \in D : p[i] = k
       /\ \A i, k \in D : i < k => p[i] < p[k]
  <2>1. \A i \in D : \/ i < r /\ p[i] = i /\ i \in 1 .. n /\ rest[i] = s[i]
                     \/ r < i /\ p[i] = i - 1 /\ i - 1 \in 1 .. n
                        /\ rest[i] = s[i - 1]
    BY <1>2, <1>4, <1>8
  <2>2. ASSUME NEW k \in 1 .. n PROVE \E i \in D : p[i] = k
    <3>1. CASE k < r
      <4>1. k \in D
        BY <1>2, <1>8, <3>1
      <4> QED BY <3>1, <4>1
    <3>2. CASE ~(k < r)
      <4>1. k + 1 \in D /\ ~(k + 1 < r) /\ (k + 1) - 1 = k
        BY <1>2, <1>4, <1>8, <3>2
      <4> QED BY <4>1
    <3> QED BY <3>1, <3>2
  <2>3. D \subseteq Int /\ r \in Int
    BY <1>4, <1>8
  <2> HIDE DEF D, rest, p
  <2> QED BY <2>1, <2>2, <2>3
<1>12. p \in Bijection(D, 1 .. n)
  <2>1. p \in [D -> 1 .. n]
    BY <1>11
  <2> HIDE DEF p, D
  <2> QED BY <1>11, <2>1 DEF Bijection, Injection, Surjection, IsInjective
<1>13. DOMAIN rest = D /\ rest = [i \in (DOMAIN t) \ {r} |-> t[i]]
  OBVIOUS
<1> HIDE DEF t, p, rest
<1>14. Timed(rest) /\ FoldStrength(rest, b) <= FoldStrength(t, b)
  <2> HIDE DEF D
  <2> QED BY <1>8, <1>10, <1>13, OneLess
<1>15. \A i, k \in D : <<i, k>> \in Before(rest) => <<p[i], p[k]>> \in Before(s)
  <2> SUFFICES ASSUME NEW i \in D, NEW k \in D, <<i, k>> \in Before(rest)
               PROVE  <<p[i], p[k]>> \in Before(s)
    OBVIOUS
  <2>1. p[i] \in DOMAIN s /\ p[k] \in DOMAIN s
        /\ rest[i] = s[p[i]] /\ rest[k] = s[p[k]]
    BY <1>2, <1>11
  <2> QED BY <1>11, <2>1 DEF Before
<1>16. FoldStrength(rest, b) = FoldStrength(s, b)
  <2>1. /\ p \in Bijection(DOMAIN rest, DOMAIN s)
        /\ \A i \in DOMAIN rest : rest[i] = s[p[i]]
        /\ \A i, k \in DOMAIN rest :
             <<i, k>> \in Before(rest) => <<p[i], p[k]>> \in Before(s)
    BY <1>2, <1>11, <1>12, <1>13, <1>15
  <2> QED BY <1>2, <1>14, <2>1, Reindexed
<1>17. l <= FoldStrength(t, b)
  <2>1. FoldStrength(t, b) \in Level /\ FoldStrength(s, b) \in Level
    BY <1>2, <1>10, FoldInRange DEF Timed
  <2> QED BY <1>1, <1>14, <1>16, <2>1 DEF Level
<1> QED BY <1>9, <1>17 DEF Earned

\* More rows earn no less.
LEMMA EarnedByMore ==
  ASSUME NEW T \in SUBSET Row, IsFiniteSet(T), NEW S \in SUBSET T,
         NEW b \in Level, NEW l \in Level, Earned(l, S, b)
  PROVE  Earned(l, T, b)
<1> DEFINE Lost(m) == \E U \in SUBSET T :
                        /\ Cardinality(T \ U) = m /\ Earned(l, U, b)
           Bad == {m \in Nat : Lost(m)}
<1>1. \A U \in SUBSET T : IsFiniteSet(T \ U) /\ Cardinality(T \ U) \in Nat
  <2> TAKE U \in SUBSET T
  <2>1. IsFiniteSet(T \ U)
    BY FS_Subset
  <2> QED BY <2>1, FS_CardinalityType
<1>2. Cardinality(T \ S) \in Bad
  BY <1>1
<1>3. PICK m \in Bad : \A k \in Bad : m <= k
  <2>1. Bad \in SUBSET Nat
    OBVIOUS
  <2> HIDE DEF Bad
  <2> QED BY <1>2, <2>1, LeastNat
<1>4. PICK U \in SUBSET T : Cardinality(T \ U) = m /\ Earned(l, U, b)
  BY <1>3
<1>5. CASE T \ U = {}
  <2>1. U = T
    BY <1>5
  <2> QED BY <1>4, <2>1
<1>6. CASE T \ U # {}
  <2>1. PICK x \in T \ U : TRUE
    BY <1>6
  <2>2. IsFiniteSet(U) /\ x \in Row \ U /\ U \in SUBSET Row
    BY <2>1, FS_Subset
  <2>3. Earned(l, U \union {x}, b)
    BY <1>4, <2>2, EarnedByOneMore
  <2> DEFINE V == T \ U
  <2>4. T \ (U \union {x}) = V \ {x}
    OBVIOUS
  <2>5. Cardinality(T \ (U \union {x})) = m - 1 /\ m \in Nat
    <3>1. IsFiniteSet(V) /\ x \in V /\ Cardinality(V) = m /\ m \in Nat
      BY <1>1, <1>4, <2>1
    <3> HIDE DEF V
    <3>2. Cardinality(V \ {x}) = m - 1
      BY <3>1, FS_RemoveElement
    <3> QED BY <2>4, <3>1, <3>2
  <2>6. U \union {x} \in SUBSET T
    BY <2>1
  <2>7. Cardinality(T \ (U \union {x})) \in Bad
    BY <1>1, <2>3, <2>6
  <2> HIDE DEF Bad
  <2> QED BY <1>3, <2>5, <2>7
<1> QED BY <1>5, <1>6

Found(events) == {events[i] : i \in DOMAIN events}

SortedRows(h) ==
  /\ \A i, k \in DOMAIN h : i # k => h[i] # h[k]
  /\ \A i, k \in DOMAIN h : i < k => h[i].at >= h[k].at

\* Both earn the same level and have the same last answers.
Agree(s, u, b) ==
  /\ FoldStrength(s, b) = FoldStrength(u, b)
  /\ \A correct \in BOOLEAN : LastAt(s, correct) = LastAt(u, correct)

\* The events a worker picks from its window for a card are rows of the card,
\* newest first but with gaps between their positions.
LEMMA BucketLists ==
  ASSUME NEW h \in Seq(Row), SortedRows(h), NEW c,
         NEW u, u = Bucket(h, c), NEW b \in Level
  PROVE  /\ Found(u) \in SUBSET Row /\ IsFiniteSet(Found(u)) /\ Timed(u)
         /\ \A r \in Found(u) : r.card = c /\ r.mode # None /\ \E i \in DOMAIN h : r = h[i]
         /\ \E s \in NewestFirst(Found(u)) : Agree(s, u, b)
<1> DEFINE D == DOMAIN u
           R == {p \in D \X D : p[1] < p[2]}
           m == Cardinality(D)
           o == InOrder(D, R)
           s == [k \in 1 .. m |-> u[o[k]]]
<1>1. /\ D \subseteq DOMAIN h /\ IsFiniteSet(D) /\ D \subseteq Nat
      /\ \A i \in D : u[i] = h[i] /\ u[i].card = c /\ u[i].mode # None
                      /\ u[i] \in Row /\ u[i].at \in Nat
  <2>1. DOMAIN h \subseteq Nat /\ \A i \in DOMAIN h : h[i] \in Row
    OBVIOUS
  <2>2. D \subseteq DOMAIN h
    BY DEF Bucket
  <2>3. \A i \in D : u[i] = h[i] /\ u[i].card = c /\ u[i].mode # None
    BY DEF Bucket
  <2>4. IsFiniteSet(D)
    BY BucketType
  <2>5. \A i \in D : u[i] \in Row /\ u[i].at \in Nat
    BY <2>1, <2>2, <2>3 DEF Row, Time
  <2> QED BY <2>1, <2>2, <2>3, <2>4, <2>5
<1>2. Timed(u)
  BY <1>1 DEF Timed
<1>3. \A x, y \in D : <<x, y>> \in R <=> x < y
  OBVIOUS
<1> HIDE DEF R, D
<1>4. Orders(R, D)
  BY <1>1, <1>3 DEF Orders
<1>5. /\ m \in Nat /\ o \in [1 .. m -> D]
      /\ \A x \in D : \E k \in 1 .. m : o[k] = x
      /\ \A k, l \in 1 .. m : k < l => <<o[k], o[l]>> \in R
  BY <1>1, <1>4, InOrderLists
<1> HIDE DEF o, m
<1>6. \A k, l \in 1 .. m : k < l => o[k] < o[l]
  BY <1>3, <1>5
<1>7. \A k, l \in 1 .. m : k # l => o[k] # o[l]
  <2>1. \A k \in 1 .. m : k \in Nat /\ o[k] \in Nat
    BY <1>1, <1>5
  <2> QED BY <1>6, <2>1
<1>8. o \in Bijection(1 .. m, D)
  BY <1>5, <1>7 DEF Bijection, Injection, Surjection, IsInjective
<1>9. Lists(s, m, Found(u))
  <2>1. s \in [1 .. m -> Found(u)]
    BY <1>5 DEF Found, D
  <2>2. \A k, l \in 1 .. m : k # l => s[k] # s[l]
    BY <1>1, <1>5, <1>7 DEF SortedRows
  <2>3. ASSUME NEW r \in Found(u) PROVE \E k \in 1 .. m : s[k] = r
    BY <1>5 DEF Found, D
  <2>4. \A k, l \in 1 .. m : k < l => s[k].at >= s[l].at
    BY <1>1, <1>5, <1>6 DEF SortedRows
  <2> HIDE DEF s
  <2> QED BY <2>1, <2>2, <2>3, <2>4 DEF Lists
<1>10. s \in NewestFirst(Found(u)) /\ IsFiniteSet(Found(u))
  <2> HIDE DEF s
  <2> QED BY <1>5, <1>9, ListsNewestFirst
<1>11. /\ DOMAIN s = 1 .. m
       /\ \A k \in 1 .. m : s[k] = u[o[k]] /\ o[k] \in D
  BY <1>5
<1> HIDE DEF s
<1>12. Timed(s)
  <2>1. IsFiniteSet(1 .. m)
    BY <1>5, FS_Interval
  <2> QED BY <1>1, <1>5, <1>11, <2>1 DEF Timed
<1>13. \A k, l \in DOMAIN s : <<k, l>> \in Before(s) => <<o[k], o[l]>> \in Before(u)
  <2> SUFFICES ASSUME NEW k \in DOMAIN s, NEW l \in DOMAIN s, <<k, l>> \in Before(s)
               PROVE  <<o[k], o[l]>> \in Before(u)
    OBVIOUS
  <2>1. s[k].at < s[l].at \/ (s[k].at = s[l].at /\ k < l)
    BY DEF Before
  <2> QED BY <1>6, <1>11, <2>1 DEF Before, D
<1>14. FoldStrength(s, b) = FoldStrength(u, b)
  <2>1. /\ o \in Bijection(DOMAIN s, DOMAIN u)
        /\ \A k \in DOMAIN s : s[k] = u[o[k]]
    BY <1>8, <1>11 DEF D
  <2> QED BY <1>2, <1>12, <1>13, <2>1, Reindexed
<1>15. ASSUME NEW correct PROVE LastAt(s, correct) = LastAt(u, correct)
  <2> DEFINE T(e) == {e[i].at : i \in {i \in DOMAIN e : e[i].correct = correct}}
  <2>1. T(s) = T(u)
    <3>1. \A i \in DOMAIN s : o[i] \in DOMAIN u /\ s[i] = u[o[i]]
      BY <1>11 DEF D
    <3>2. \A i \in DOMAIN u : \E k \in DOMAIN s : s[k] = u[i]
      BY <1>5, <1>11 DEF D
    <3> QED BY <3>1, <3>2
  <2> QED BY <2>1 DEF LastAt
<1>16. Found(u) \in SUBSET Row
       /\ \A r \in Found(u) : r.card = c /\ r.mode # None /\ \E i \in DOMAIN h : r = h[i]
  BY <1>1 DEF Found, D
<1>17. Agree(s, u, b)
  BY <1>14, <1>15 DEF Agree
<1> QED BY <1>2, <1>10, <1>16, <1>17

\* What a worker computes from its window is earned by any rows that hold the
\* card's part of it.
LEMMA BucketEarned ==
  ASSUME NEW h \in Seq(Row), SortedRows(h), NEW c \in Card,
         NEW S \in SUBSET Row, IsFiniteSet(S), Found(Bucket(h, c)) \subseteq S
  PROVE  /\ FoldStrength(Bucket(h, c), Baseline[c]) \in Level
         /\ Baseline[c] <= FoldStrength(Bucket(h, c), Baseline[c])
         /\ Earned(FoldStrength(Bucket(h, c), Baseline[c]), S, Baseline[c])
<1>1. PICK u, b : u = Bucket(h, c) /\ b = Baseline[c]
  OBVIOUS
<1>2. b \in Level
  BY <1>1, DataAssumption
<1>3. /\ Found(u) \in SUBSET S /\ Timed(u)
      /\ \E s \in NewestFirst(Found(u)) : FoldStrength(s, b) = FoldStrength(u, b)
  <2>1. \E s \in NewestFirst(Found(u)) : Agree(s, u, b)
    BY <1>1, <1>2, BucketLists
  <2>2. Timed(u)
    BY <1>1, <1>2, BucketLists
  <2> QED BY <1>1, <2>1, <2>2 DEF Agree
<1>4. FoldStrength(u, b) \in Level /\ b <= FoldStrength(u, b)
  BY <1>2, <1>3, FoldInRange DEF Timed
<1>5. Earned(FoldStrength(u, b), Found(u), b)
  BY <1>3, <1>4 DEF Earned, Level
<1>6. Earned(FoldStrength(u, b), S, b)
  BY <1>2, <1>3, <1>4, <1>5, EarnedByMore
<1> QED BY <1>1, <1>4, <1>6

(***************************************************************************)
(* Any number of workers: a level is never above what the stored answers   *)
(* earn. What a worker read was earned then, and rows only accumulate; what *)
(* it is about to write is earned by the rows it sees.                     *)
(***************************************************************************)
WindowOK(w) ==
  /\ SortedRows(history[w])
  /\ \A i \in DOMAIN history[w] :
        /\ history[w][i] \in rows \union inserted[w]
        /\ history[w][i].user = job[w].user

OwnCards(w) == \A c \in Touched(w) : Owner[Home[c]] = job[w].user

SeenEarned(w) ==
  \A c \in DOMAIN seen[w] :
    c \in Touched(w) /\ Earned(seen[w][c], Graded(rows, c), Baseline[c])

WritesEarned(w) ==
  \A c \in DOMAIN writes[w] :
    /\ Baseline[c] <= writes[w][c].level
    /\ Earned(writes[w][c].level, Graded(rows \union inserted[w], c), Baseline[c])

EarnedBy(w) == WindowOK(w) /\ OwnCards(w) /\ SeenEarned(w) /\ WritesEarned(w)

LevelsEarned ==
  \A c \in Card :
    Baseline[c] <= level[c] /\ Earned(level[c], Graded(rows, c), Baseline[c])

LEMMA GradedType ==
  ASSUME NEW S \in SUBSET Row, IsFiniteSet(S), NEW c
  PROVE  Graded(S, c) \in SUBSET Row /\ IsFiniteSet(Graded(S, c))
BY FS_Subset DEF Graded

LEMMA GradedMore ==
  ASSUME NEW T \in SUBSET Row, IsFiniteSet(T), NEW S \in SUBSET T, NEW c \in Card,
         NEW l \in Level, Earned(l, Graded(S, c), Baseline[c])
  PROVE  Earned(l, Graded(T, c), Baseline[c])
<1>1. PICK X, Y, b : X = Graded(S, c) /\ Y = Graded(T, c) /\ b = Baseline[c]
  OBVIOUS
<1>2. X \in SUBSET Y /\ Y \in SUBSET Row /\ IsFiniteSet(Y) /\ b \in Level
  BY <1>1, GradedType, DataAssumption DEF Graded
<1>3. Earned(l, Y, b)
  BY <1>1, <1>2, EarnedByMore
<1> QED BY <1>1, <1>3

LEMMA TakeSorted ==
  ASSUME NEW s \in Seq(Row), SortedRows(s), NEW n \in Nat
  PROVE  /\ SortedRows(Take(s, n))
         /\ \A i \in DOMAIN Take(s, n) : i \in DOMAIN s /\ Take(s, n)[i] = s[i]
<1>1. CASE Len(s) <= n
  BY <1>1 DEF Take
<1>2. CASE ~(Len(s) <= n)
  <2>1. /\ Take(s, n) = SubSeq(s, 1, n) /\ Len(s) \in Nat /\ n < Len(s)
        /\ DOMAIN s = 1 .. Len(s)
    BY <1>2 DEF Take
  <2>2. /\ DOMAIN SubSeq(s, 1, n) = 1 .. n
        /\ \A i \in 1 .. n : SubSeq(s, 1, n)[i] = s[i]
    BY <2>1
  <2>3. \A i \in 1 .. n : i \in DOMAIN s
    BY <2>1
  <2> QED BY <2>1, <2>2, <2>3 DEF SortedRows
<1> QED BY <1>1, <1>2

LEMMA RowsFinite ==
  ASSUME IInv, NEW w \in Worker
  PROVE  /\ rows \union inserted[w] \in SUBSET Row
         /\ IsFiniteSet(rows) /\ IsFiniteSet(rows \union inserted[w])
BY FS_Union DEF IInv, TablesOK, TxOK

LEMMA EarnedByStep ==
  ASSUME IInv, Stages, LevelsEarned, [Next]_vars, NEW w \in Worker, EarnedBy(w)
  PROVE  EarnedBy(w)'
<1> USE DEF IInv, CallsOK, TxOK, Stages
<1>0. /\ rows \subseteq rows' /\ IInv' /\ Stages'
      /\ rows' \union inserted'[w] \in SUBSET Row
      /\ IsFiniteSet(rows') /\ IsFiniteSet(rows' \union inserted'[w])
  <2>1. IInv' /\ Stages' /\ rows \subseteq rows'
    BY StepKeepsIInv, StagesStep, RowsKept
  <2>2. IInv' => /\ rows' \union inserted'[w] \in SUBSET Row
                 /\ IsFiniteSet(rows') /\ IsFiniteSet(rows' \union inserted'[w])
    BY FS_Union DEF TablesOK
  <2> QED BY <2>1, <2>2
<1>1. CASE UNCHANGED <<pc[w], job[w], payload[w], owned[w], seen[w], history[w],
                       todo[w], inserted[w], writes[w]>>
  <2>1. WindowOK(w)' /\ OwnCards(w)'
    BY <1>0, <1>1 DEF EarnedBy, WindowOK, OwnCards, Touched
  <2>2. SeenEarned(w)'
    <3> SUFFICES ASSUME NEW c \in DOMAIN seen[w]
                 PROVE  Earned(seen[w][c], Graded(rows', c), Baseline[c])
      BY <1>1 DEF SeenEarned, EarnedBy, Touched
    <3>1. c \in Card /\ seen[w][c] \in Level
      BY DEF IsPartial
    <3>2. Earned(seen[w][c], Graded(rows, c), Baseline[c])
      BY DEF EarnedBy, SeenEarned
    <3> QED BY <1>0, <3>1, <3>2, GradedMore
  <2>3. WritesEarned(w)'
    <3> SUFFICES ASSUME NEW c \in DOMAIN writes[w]
                 PROVE  Earned(writes[w][c].level,
                               Graded(rows' \union inserted'[w], c), Baseline[c])
      BY <1>1 DEF WritesEarned, EarnedBy
    <3>1. c \in Card /\ writes[w][c].level \in Level
      BY DEF IsPartial, Columns
    <3>2. Earned(writes[w][c].level, Graded(rows \union inserted[w], c), Baseline[c])
      BY DEF EarnedBy, WritesEarned
    <3>3. rows \union inserted[w] \in SUBSET (rows' \union inserted'[w])
      BY <1>0, <1>1
    <3> QED BY <1>0, <3>1, <3>2, <3>3, GradedMore
  <2> QED BY <2>1, <2>2, <2>3 DEF EarnedBy
<1>2. ASSUME NoTx(w)', OwnCards(w)' PROVE EarnedBy(w)'
  BY <1>2 DEF NoTx, EarnedBy, WindowOK, SortedRows, SeenEarned, WritesEarned
<1>3. CASE \E j \in DOMAIN jobs : Fetch(w, j)
  <2>1. NoTx(w)' /\ owned'[w] = <<>>
    BY <1>3 DEF Fetch, Stage, NoTx, txVars
  <2> QED BY <1>2, <2>1 DEF OwnCards, Touched
<1>4. CASE NoTx(w)' /\ owned'[w] = <<>>
  BY <1>2, <1>4 DEF OwnCards, Touched
<1>5. CASE NoTx(w)' /\ UNCHANGED <<job[w], payload[w], owned[w]>>
  BY <1>2, <1>5 DEF EarnedBy, OwnCards, Touched
<1>6. CASE CheckOwned(w)
  <2>1. NoTx(w)' /\ UNCHANGED job
    BY <1>6 DEF CheckOwned, Stage, NoTx, txVars
  <2>2. \A i \in DOMAIN owned'[w] : Owner[Home[owned'[w][i].card]] = job[w].user
    BY <1>6 DEF CheckOwned, MayStudy
  <2> QED BY <1>2, <2>1, <2>2 DEF OwnCards, Touched
<1>7. CASE InsertEvents(w)
  <2>1. /\ seen'[w] = <<>> /\ history'[w] = <<>> /\ writes'[w] = <<>>
        /\ UNCHANGED <<job, owned>>
    BY <1>7 DEF InsertEvents, Stage, NoTx
  <2> QED BY <2>1 DEF EarnedBy, WindowOK, SortedRows, OwnCards, Touched, SeenEarned,
                      WritesEarned
<1>8. CASE ReadCards(w)
  <2>1. /\ seen'[w] = [c \in Touched(w) \cap Live |-> level[c]]
        /\ history'[w] = <<>> /\ writes'[w] = <<>>
        /\ UNCHANGED <<rows, job, owned>>
    BY <1>8 DEF ReadCards, Stage, dbVars
  <2>2. SeenEarned(w)'
    BY <2>1 DEF SeenEarned, LevelsEarned, Live, Touched
  <2> QED BY <2>1, <2>2 DEF EarnedBy, WindowOK, SortedRows, OwnCards, Touched, WritesEarned
<1>9. CASE ReadHistory(w)
  <2> DEFINE S == {r \in rows \union inserted[w] :
                     r.user = job[w].user /\ r.card \in Touched(w)}
             n == HistoryLimit * Cardinality(Touched(w))
  <2>1. PICK s \in NewestFirst(S) : history'[w] = Take(s, n)
    BY <1>9 DEF ReadHistory
  <2>2. /\ writes'[w] = <<>>
        /\ UNCHANGED <<rows, job, owned, seen, inserted>>
    BY <1>9 DEF ReadHistory, Stage, dbVars
  <2>3. S \in SUBSET Row /\ IsFiniteSet(S)
    BY RowsFinite, FS_Subset
  <2>4. n \in Nat
    BY TouchedFinite, DataAssumption
  <2>5. \A r \in S : r \in rows \union inserted[w] /\ r.user = job[w].user
    OBVIOUS
  <2> HIDE DEF S, n
  <2>6. s \in Seq(Row) /\ SortedRows(s) /\ \A i \in DOMAIN s : s[i] \in S
    <3>1. s \in Seq(Row) /\ Lists(s, Cardinality(S), S) /\ DOMAIN s = 1 .. Cardinality(S)
      BY <2>3, NewestFirstLists
    <3> QED BY <3>1 DEF Lists, SortedRows
  <2>7. /\ SortedRows(Take(s, n))
        /\ \A i \in DOMAIN Take(s, n) : i \in DOMAIN s /\ Take(s, n)[i] = s[i]
    BY <2>4, <2>6, TakeSorted
  <2>8. WindowOK(w)'
    BY <2>1, <2>2, <2>5, <2>6, <2>7 DEF WindowOK
  <2> QED BY <2>2, <2>8 DEF EarnedBy, OwnCards, Touched, SeenEarned, WritesEarned
<1>10. CASE WriteCard(w)
  <2> DEFINE c == Head(todo[w])
             write == Regrade(seen[w][c], c, Bucket(history[w], c))
  <2>1. UNCHANGED <<rows, job, owned, seen, history, inserted>>
    BY <1>10 DEF WriteCard, dbVars
  <2>2. WindowOK(w)' /\ OwnCards(w)' /\ SeenEarned(w)'
    BY <2>1 DEF EarnedBy, WindowOK, OwnCards, Touched, SeenEarned
  <2>3. CASE UNCHANGED writes
    BY <2>1, <2>2, <2>3 DEF EarnedBy, WritesEarned
  <2>4. CASE /\ c \in DOMAIN seen[w]
             /\ writes' = [writes EXCEPT ![w] = Put(writes[w], c, write)]
    <3> DEFINE computed == FoldStrength(Bucket(history[w], c), Baseline[c])
               S == Graded(rows \union inserted[w], c)
    <3>1. /\ seen[w][c] \in Level /\ c \in Card /\ history[w] \in Seq(Row)
          /\ Owner[Home[c]] = job[w].user
          /\ Earned(seen[w][c], Graded(rows, c), Baseline[c])
      BY <2>4 DEF IsPartial, EarnedBy, OwnCards, SeenEarned
    <3>2. SortedRows(history[w]) /\ Baseline[c] \in Level
      BY <3>1, DataAssumption DEF EarnedBy, WindowOK
    <3>3. S \in SUBSET Row /\ IsFiniteSet(S)
      BY RowsFinite, GradedType
    <3> HIDE DEF c
    <3>4. Found(Bucket(history[w], c)) \subseteq S
      <4> SUFFICES ASSUME NEW r \in Found(Bucket(history[w], c)) PROVE r \in S
        OBVIOUS
      <4>1. r.card = c /\ r.mode # None /\ \E i \in DOMAIN history[w] : r = history[w][i]
        BY <3>1, <3>2, BucketLists
      <4> QED BY <3>1, <4>1 DEF Graded, EarnedBy, WindowOK
    <3> HIDE DEF S
    <3>5. /\ computed \in Level /\ Baseline[c] <= computed
          /\ Earned(computed, S, Baseline[c])
      BY <3>1, <3>2, <3>3, <3>4, BucketEarned
    <3>6. Earned(seen[w][c], S, Baseline[c])
      BY <3>1, RowsFinite, GradedMore DEF S
    <3> HIDE DEF computed
    <3>7. write.level = IF seen[w][c] >= computed THEN seen[w][c] ELSE computed
      BY DEF Regrade, computed
    <3>8. Baseline[c] <= write.level /\ Earned(write.level, S, Baseline[c])
      BY <3>1, <3>2, <3>5, <3>6, <3>7 DEF Level
    <3> HIDE DEF write
    <3>9. /\ DOMAIN writes'[w] = DOMAIN writes[w] \union {c}
          /\ \A d \in DOMAIN writes'[w] :
               writes'[w][d] = IF d = c THEN write ELSE writes[w][d]
      BY <2>4 DEF Put
    <3>10. WritesEarned(w)'
      BY <2>1, <3>8, <3>9 DEF S, WritesEarned, EarnedBy
    <3> QED BY <2>2, <3>10 DEF EarnedBy
  <2> QED BY <1>10, <2>3, <2>4 DEF WriteCard
<1> QED BY <1>1, <1>3, <1>4, <1>5, <1>6, <1>7, <1>8, <1>9, <1>10, CallOrStep

LEMMA CommitOrSame ==
  ASSUME [Next]_vars
  PROVE  \/ UNCHANGED <<rows, level, lastCorrect, lastWrong>>
         \/ \E w \in Worker : Commit(w)
BY DEF Next, Queue, Submit, Promote, Prune, Stall, Fetch, Edit, CreateCard,
       UpdateCard, RemoveCard, ResetProgress, Work, Process, TxFails, Crash,
       RejectPayload, CheckOwned, InsertEvents, ReadCards, ReadHistory, WriteCard,
       CardGone, Complete, Failed, vars, dbVars, cardVars

LEMMA LevelsEarnedStep ==
  ASSUME IInv, LevelsEarned, \A w \in Worker : EarnedBy(w), [Next]_vars
  PROVE  LevelsEarned'
<1>1. CASE UNCHANGED <<rows, level>>
  BY <1>1 DEF LevelsEarned
<1>2. ASSUME NEW w \in Worker, Commit(w) PROVE LevelsEarned'
  <2>1. /\ rows' = rows \union inserted[w]
        /\ \A c \in Card : level'[c] = IF c \in DOMAIN writes[w]
                                      THEN writes[w][c].level ELSE level[c]
    BY <1>2 DEF Commit
  <2>2. rows' \in SUBSET Row /\ IsFiniteSet(rows') /\ rows \in SUBSET rows'
    BY <2>1, RowsFinite
  <2> SUFFICES ASSUME NEW c \in Card
               PROVE  /\ Baseline[c] <= level'[c]
                      /\ Earned(level'[c], Graded(rows', c), Baseline[c])
    BY DEF LevelsEarned
  <2>3. CASE c \in DOMAIN writes[w]
    BY <2>1, <2>3 DEF EarnedBy, WritesEarned
  <2>4. CASE c \notin DOMAIN writes[w]
    <3>1. level[c] \in Level /\ Earned(level[c], Graded(rows, c), Baseline[c])
      BY DEF IInv, TablesOK, LevelsEarned
    <3>2. Earned(level[c], Graded(rows', c), Baseline[c])
      BY <2>2, <3>1, GradedMore
    <3> QED BY <2>1, <2>4, <3>2 DEF LevelsEarned
  <2> QED BY <2>3, <2>4
<1> QED BY <1>1, <1>2, CommitOrSame

LEMMA NoneGraded ==
  ASSUME NEW c
  PROVE  Graded(OldRows, c) = {}
BY DataAssumption DEF Graded

LEMMA EarnedInit ==
  ASSUME Init
  PROVE  LevelsEarned /\ \A w \in Worker : EarnedBy(w)
<1>1. \A w \in Worker : EarnedBy(w)
  BY DEF Init, EarnedBy, WindowOK, SortedRows, OwnCards, Touched, SeenEarned,
         WritesEarned
<1>2. ASSUME NEW c \in Card
      PROVE  /\ Baseline[c] <= level[c]
             /\ Earned(level[c], Graded(rows, c), Baseline[c])
  <2>1. level[c] = Baseline[c] /\ Graded(rows, c) = {} /\ Baseline[c] \in Level
    BY NoneGraded, DataAssumption DEF Init
  <2>2. PICK b \in Level : b = Baseline[c]
    BY <2>1
  <2>3. <<>> \in NewestFirst({}) /\ FoldStrength(<<>>, b) = b
    BY NoRows
  <2>4. Earned(b, {}, b)
    BY <2>3 DEF Earned, Level
  <2> QED BY <2>1, <2>2, <2>4 DEF Level
<1> QED BY <1>1, <1>2 DEF LevelsEarned

\* With any number of workers that overwrite each other's levels, no level is
\* below the baseline or above what the card's stored answers earn.
THEOREM LevelsNeverInflated == Spec => []LevelNeverInflated
<1> DEFINE EInv == LevelsEarned /\ \A w \in Worker : EarnedBy(w)
<1>1. Init => IInv /\ Stages /\ EInv
  BY InitType, StagesInit, EarnedInit
<1>2. IInv /\ Stages /\ EInv /\ [Next]_vars => (IInv /\ Stages /\ EInv)'
  <2> SUFFICES ASSUME IInv, Stages, EInv, [Next]_vars
               PROVE  IInv' /\ Stages' /\ EInv'
    OBVIOUS
  <2>1. \A w \in Worker : EarnedBy(w)'
    BY EarnedByStep
  <2> QED BY <2>1, StepKeepsIInv, StagesStep, LevelsEarnedStep
<1>3. IInv /\ Stages /\ EInv => LevelNeverInflated
  <2> SUFFICES ASSUME IInv, LevelsEarned, NEW c \in Live
               PROVE  /\ level[c] >= Baseline[c]
                      /\ \E s \in NewestFirst(Graded(rows, c)) :
                            level[c] <= FoldStrength(s, Baseline[c])
    BY DEF LevelNeverInflated
  <2>1. c \in Card /\ level[c] \in Level /\ Baseline[c] \in Level
    BY DataAssumption DEF Live, IInv, TablesOK
  <2> QED BY <2>1 DEF LevelsEarned, Earned, Level
<1> QED BY <1>1, <1>2, <1>3, PTL DEF Spec

(***************************************************************************)
(* One worker, and no card with more answers than the history query has    *)
(* room for: the columns of a card are those its stored answers earn, and  *)
(* the pipeline implements StudyLedger.                                    *)
(***************************************************************************)
Answers(S, c) == {r \in S : r.user = Owner[Home[c]] /\ r.card = c}

WithinLimit ==
  \A w \in Worker, c \in Card :
    Cardinality(Answers(rows \union inserted[w], c)) <= HistoryLimit

\* What a set holds in each of its parts bounds it.
LEMMA PartsBound ==
  ASSUME NEW S, IsFiniteSet(S), NEW T, IsFiniteSet(T), NEW n \in Nat,
         \A r \in S : r.card \in T,
         \A c \in T : Cardinality({r \in S : r.card = c}) <= n
  PROVE  Cardinality(S) <= n * Cardinality(T)
<1> DEFINE part(c) == {r \in S : r.card = c}
           size(c) == Cardinality(part(c))
           count == [c \in T |-> CHOOSE f : f \in Bijection(1 .. size(c), part(c))]
           At(r, x) == x[1] = r.card /\ count[r.card][x[2]] = r
           place == [r \in S |-> CHOOSE x \in T \X (1 .. n) : At(r, x)]
<1>1. ASSUME NEW c \in T
      PROVE  /\ size(c) \in Nat /\ size(c) <= n
             /\ count[c] \in Bijection(1 .. size(c), part(c))
  <2>1. IsFiniteSet(part(c))
    BY FS_Subset
  <2>2. size(c) \in Nat /\ ExistsBijection(1 .. size(c), part(c))
    BY <2>1, FS_CardinalityType
  <2>3. size(c) <= n
    OBVIOUS
  <2> HIDE DEF size, part
  <2> QED BY <2>2, <2>3 DEF ExistsBijection
<1> HIDE DEF count
<1>2. ASSUME NEW r \in S
      PROVE  \E x \in T \X (1 .. n) : At(r, x)
  <2>1. r.card \in T /\ r \in part(r.card)
    OBVIOUS
  <2> HIDE DEF part
  <2>2. size(r.card) \in Nat /\ size(r.card) <= n
        /\ \E k \in 1 .. size(r.card) : count[r.card][k] = r
    BY <1>1, <2>1 DEF Bijection, Surjection
  <2> HIDE DEF size
  <2>3. PICK k \in 1 .. size(r.card) : count[r.card][k] = r
    BY <2>2
  <2>4. <<r.card, k>> \in T \X (1 .. n) /\ At(r, <<r.card, k>>)
    BY <2>1, <2>2, <2>3
  <2> QED BY <2>4
<1>3. \A r \in S : place[r] \in T \X (1 .. n) /\ At(r, place[r])
  <2> HIDE DEF At
  <2> QED BY <1>2
<1>4. place \in Injection(S, T \X (1 .. n))
  <2>1. place \in [S -> T \X (1 .. n)]
    <3> HIDE DEF At
    <3> QED BY <1>2
  <2> HIDE DEF place
  <2>2. \A r, s \in S : place[r] = place[s] => r = s
    BY <1>3
  <2> QED BY <2>1, <2>2 DEF Injection, IsInjective
<1>5. IsFiniteSet(1 .. n) /\ Cardinality(1 .. n) = n
  BY FS_Interval
<1>6. /\ IsFiniteSet(T \X (1 .. n))
      /\ Cardinality(T \X (1 .. n)) = Cardinality(T) * Cardinality(1 .. n)
  BY <1>5, FS_Product
<1>7. Cardinality(S) <= Cardinality(T \X (1 .. n))
  BY <1>4, <1>6, FS_Injection
<1>8. Cardinality(T) \in Nat
  BY FS_CardinalityType
<1>9. PICK t \in Nat : t = Cardinality(T)
  BY <1>8
<1>10. t * n = n * t
  OBVIOUS
<1> QED BY <1>5, <1>6, <1>7, <1>9, <1>10

\* Within the limit nothing is cut off, so the window has all answers,
LEMMA WindowFits ==
  ASSUME NEW T, IsFiniteSet(T), NEW S \in SUBSET Row, IsFiniteSet(S),
         NEW user, NEW s \in NewestFirst({r \in S : r.user = user /\ r.card \in T}),
         \A c \in T : Owner[Home[c]] = user,
         \A c \in T : Cardinality(Answers(S, c)) <= HistoryLimit
  PROVE  Take(s, HistoryLimit * Cardinality(T)) = s
<1> DEFINE Q == {r \in S : r.user = user /\ r.card \in T}
<1>1. Q \in SUBSET Row /\ IsFiniteSet(Q) /\ \A r \in Q : r.card \in T
  BY FS_Subset
<1>2. ASSUME NEW c \in T PROVE Cardinality({r \in Q : r.card = c}) <= HistoryLimit
  <2>1. {r \in Q : r.card = c} = Answers(S, c)
    BY DEF Answers
  <2> QED BY <2>1
<1>3. HistoryLimit \in Nat
  BY DataAssumption
<1> HIDE DEF Q
<1>4. Cardinality(Q) <= HistoryLimit * Cardinality(T)
  BY <1>1, <1>2, <1>3, PartsBound
<1>5. Len(s) = Cardinality(Q)
  BY <1>1, NewestFirstLists DEF Q
<1> QED BY <1>4, <1>5 DEF Take

\* and each card's bucket all of the card's.
LEMMA BucketIsAll ==
  ASSUME NEW S \in SUBSET Row, IsFiniteSet(S), NEW c, NEW h \in Seq(Row), SortedRows(h),
         Cardinality(Answers(S, c)) <= HistoryLimit,
         \A i \in DOMAIN h : h[i] \in S /\ h[i].user = Owner[Home[c]],
         \A r \in Answers(S, c) : \E i \in DOMAIN h : h[i] = r
  PROVE  Found(Bucket(h, c)) = Graded(S, c)
<1> DEFINE mine == {i \in DOMAIN h : h[i].card = c /\ h[i].mode # None}
           earlier(i) == {k \in mine : k < i}
           A == Answers(S, c)
<1>1. mine \subseteq DOMAIN h /\ DOMAIN h = 1 .. Len(h) /\ Len(h) \in Nat
  OBVIOUS
<1>2. IsFiniteSet(mine)
  <2>1. IsFiniteSet(DOMAIN h)
    BY <1>1, FS_Interval
  <2> HIDE DEF mine
  <2> QED BY <1>1, <2>1, FS_Subset
<1>3. IsFiniteSet(A)
  BY FS_Subset DEF Answers
<1>4. Cardinality(mine) <= Cardinality(A) /\ Cardinality(mine) \in Nat
      /\ Cardinality(A) \in Nat
  <2> DEFINE f == [i \in mine |-> h[i]]
  <2>1. f \in [mine -> A]
    BY DEF Answers
  <2>2. \A i, k \in mine : f[i] = f[k] => i = k
    BY DEF SortedRows
  <2> HIDE DEF f, mine, A
  <2>3. f \in Injection(mine, A)
    BY <2>1, <2>2 DEF Injection, IsInjective
  <2> QED BY <1>2, <1>3, <2>3, FS_Injection, FS_CardinalityType
<1>5. ASSUME NEW i \in mine
      PROVE  Cardinality(earlier(i)) < HistoryLimit
  <2>1. i \in Nat
    BY <1>1
  <2> HIDE DEF mine
  <2>2. Cardinality(mine \ {i}) = Cardinality(mine) - 1
    BY <1>2, FS_RemoveElement
  <2>3. IsFiniteSet(mine \ {i})
    BY <1>2, FS_RemoveElement
  <2>4. earlier(i) \subseteq mine \ {i}
    BY <2>1
  <2> HIDE DEF earlier
  <2>5. Cardinality(earlier(i)) <= Cardinality(mine \ {i}) /\ IsFiniteSet(earlier(i))
    BY <2>3, <2>4, FS_Subset
  <2>6. Cardinality(earlier(i)) \in Nat
    BY <2>5, FS_CardinalityType
  <2> QED BY <1>4, <2>2, <2>5, <2>6, DataAssumption
<1>6. Bucket(h, c) = [i \in mine |-> h[i]]
  BY <1>5 DEF Bucket
<1>7. Found(Bucket(h, c)) = {h[i] : i \in mine}
  BY <1>6 DEF Found
<1>8. ASSUME NEW i \in mine PROVE h[i] \in Graded(S, c)
  BY DEF Graded
<1>9. ASSUME NEW r \in Graded(S, c) PROVE \E i \in mine : h[i] = r
  <2>1. r \in A /\ r.mode # None /\ r.card = c
    BY DEF Graded, Answers
  <2>2. PICK i \in DOMAIN h : h[i] = r
    BY <2>1
  <2> QED BY <2>1, <2>2
<1> QED BY <1>7, <1>8, <1>9

\* The columns that the rows S earn card c, whose level is l.
Earns(S, c, l, columns) ==
  \E s \in NewestFirst(Graded(S, c)) : columns = Regrade(l, c, s)

LEMMA BucketRegrades ==
  ASSUME NEW S, NEW c \in Card, NEW h \in Seq(Row), SortedRows(h), NEW l,
         Found(Bucket(h, c)) = Graded(S, c)
  PROVE  Earns(S, c, l, Regrade(l, c, Bucket(h, c)))
<1>1. PICK u, b : u = Bucket(h, c) /\ b = Baseline[c]
  OBVIOUS
<1>2. b \in Level
  BY <1>1, DataAssumption
<1>3. PICK s \in NewestFirst(Found(u)) : Agree(s, u, b)
  BY <1>1, <1>2, BucketLists
<1>4. Regrade(l, c, s) = Regrade(l, c, u)
  BY <1>1, <1>3 DEF Regrade, Agree
<1> QED BY <1>1, <1>3, <1>4 DEF Earns

-----------------------------------------------------------------------------
\* A call works on a batch of its job's user, past the check on one that can be
\* read; what it owns and inserts is the batch's.
CallBatch(w) ==
  /\ pc[w] # "idle" => \E b \in Accepted : payload[w] = b.events /\ job[w].user = b.user
  /\ pc[w] \notin {"idle", "check"} => Valid(payload[w])
  /\ \A i \in DOMAIN owned[w] :
        /\ i \in DOMAIN payload[w] /\ owned[w][i] = NormalizeEvent(payload[w][i])
        /\ owned[w][i].module = Home[owned[w][i].card]
  /\ \A r \in inserted[w] : \E i \in DOMAIN owned[w] : r = RowOf(job[w].user, owned[w][i])

LEMMA CallBatchStep ==
  ASSUME IInv, Stages, JobsNamed, [Next]_vars, NEW w \in Worker, CallBatch(w)
  PROVE  CallBatch(w)'
<1> USE DEF IInv, CallsOK, TxOK, Stages
<1>1. CASE UNCHANGED <<pc[w], job[w], payload[w], owned[w], seen[w], history[w],
                       todo[w], inserted[w], writes[w]>>
  BY <1>1 DEF CallBatch
<1>2. ASSUME NEW j \in DOMAIN jobs, Fetch(w, j) PROVE CallBatch(w)'
  <2>1. /\ pc[w] = "idle" /\ pc'[w] = "check" /\ job'[w] = j
        /\ payload'[w] = jobs[j].body.events /\ UNCHANGED <<owned, inserted>>
    BY <1>2 DEF Fetch, txVars
  <2>2. jobs[j].body \in Accepted /\ j = JobId(jobs[j].body)
    BY BodyCards DEF JobsNamed
  <2>3. j.user = jobs[j].body.user
    BY <2>2 DEF JobId
  <2>4. owned[w] = <<>> /\ inserted[w] = {}
    BY <2>1 DEF Stage, NoTx
  <2>5. owned'[w] = <<>> /\ inserted'[w] = {} /\ DOMAIN owned'[w] = {}
    BY <2>1, <2>4
  <2>6. \E b \in Accepted : payload'[w] = b.events /\ job'[w].user = b.user
    BY <2>1, <2>2, <2>3
  <2> QED BY <2>1, <2>5, <2>6 DEF CallBatch
<1>3. CASE Release(w) /\ NoTx(w)' /\ pc'[w] = "idle" /\ owned'[w] = <<>>
  BY <1>3 DEF CallBatch, NoTx
<1>4. CASE /\ Commit(w) /\ NoTx(w)' /\ pc'[w] = "ack"
           /\ UNCHANGED <<job[w], payload[w], owned[w]>>
  BY <1>4 DEF CallBatch, NoTx, Commit
<1>5. CASE CheckOwned(w)
  <2>1. /\ pc[w] = "check" /\ Valid(payload[w]) /\ pc'[w] \in {"ack", "insert"}
        /\ UNCHANGED <<job, payload, inserted>>
        /\ \A i \in DOMAIN owned'[w] :
             /\ i \in DOMAIN payload[w] /\ owned'[w][i] = NormalizeEvent(payload[w][i])
             /\ owned'[w][i].module = Home[owned'[w][i].card]
    BY <1>5 DEF CheckOwned, Goto, txVars, MayStudy
  <2>2. inserted[w] = {}
    BY <2>1 DEF Stage, NoTx
  <2> QED BY <2>1, <2>2 DEF CallBatch
<1>6. CASE InsertEvents(w)
  <2>1. /\ pc[w] = "insert" /\ pc'[w] = "cards" /\ UNCHANGED <<job, payload, owned>>
        /\ inserted'[w] = SkipDuplicates(job[w].user, owned[w], rows)
    BY <1>6 DEF InsertEvents, Goto
  <2>2. \A r \in inserted'[w] :
          \E i \in DOMAIN owned[w] : r = RowOf(job[w].user, owned[w][i])
    BY <2>1 DEF SkipDuplicates
  <2> QED BY <2>1, <2>2 DEF CallBatch
<1>7. CASE ReadCards(w) \/ ReadHistory(w) \/ WriteCard(w)
  <2>1. /\ pc[w] \notin {"idle", "check"} /\ pc'[w] \notin {"idle", "check"}
        /\ UNCHANGED <<job, payload, owned, inserted>>
    BY <1>7 DEF ReadCards, ReadHistory, WriteCard, Goto
  <2> QED BY <2>1 DEF CallBatch
<1> QED BY <1>1, <1>2, <1>3, <1>4, <1>5, <1>6, <1>7, CallOrStep

-----------------------------------------------------------------------------
\* The transaction's reads and writes cover the cards that still exist.
Covers(w) ==
  /\ DOMAIN writes[w] \subseteq Live \cap Touched(w)
  /\ pc[w] \in {"history", "write"} => Touched(w) \cap Live \subseteq DOMAIN seen[w]
  /\ pc[w] = "write" => \A c \in DOMAIN seen[w] :
        c \in DOMAIN writes[w] \/ \E k \in DOMAIN todo[w] : todo[w][k] = c

\* A card that a transaction has updated is not deleted before its end.
LEMMA LockedStaysLive ==
  ASSUME IInv, [Next]_vars, NEW w \in Worker, NEW c \in Live, c \in DOMAIN writes[w]
  PROVE  c \in Live'
<1>1. CASE UNCHANGED cardState
  BY <1>1 DEF Live
<1>2. ASSUME NEW d \in Card, NEW s \in Patched, CreateCard(d, s) PROVE c \in Live'
  BY <1>2 DEF CreateCard, Live, IInv, TablesOK
<1>3. ASSUME NEW d \in Card, RemoveCard(d) PROVE c \in Live'
  <2>1. d # c
    BY <1>3 DEF RemoveCard, Locked
  <2> QED BY <1>3, <2>1 DEF RemoveCard, Live, IInv, TablesOK
<1>4. CASE Queue \/ Work \/ UNCHANGED vars
  <2>1. UNCHANGED cardState
    BY <1>4 DEF Queue, Submit, Promote, Prune, Stall, Fetch, Work, Process, TxFails,
       Crash, RejectPayload, CheckOwned, InsertEvents, ReadCards, ReadHistory,
       WriteCard, CardGone, Commit, Complete, Failed, dbVars, cardVars, vars
  <2> QED BY <1>1, <2>1
<1>5. CASE Edit
  BY <1>1, <1>2, <1>3, <1>5 DEF Edit, UpdateCard, ResetProgress
<1> QED BY <1>4, <1>5 DEF Next

\* A card that a call touches exists or existed: none comes to life under it.
LEMMA TouchedBorn ==
  ASSUME IInv, HoldersHavePayload, NEW w \in Worker, CallBatch(w), NEW c \in Touched(w)
  PROVE  c \in Card /\ cardState[c] # "unborn"
<1>1. PICK i \in DOMAIN owned[w] : c = owned[w][i].card
  BY DEF Touched
<1>2. i \in DOMAIN payload[w] /\ owned[w][i] = NormalizeEvent(payload[w][i])
  BY <1>1 DEF CallBatch
<1>3. c = payload[w][i].card
  BY <1>1, <1>2 DEF NormalizeEvent
<1>4. c \in Card
  BY TouchedFinite DEF IInv
<1> QED BY <1>2, <1>3, <1>4 DEF HoldersHavePayload, BornAll

LEMMA LiveBefore ==
  ASSUME IInv, HoldersHavePayload, [Next]_vars, NEW w \in Worker, CallBatch(w),
         NEW c \in Touched(w), c \in Live'
  PROVE  c \in Live
<1>1. c \in Card /\ cardState[c] # "unborn"
  BY TouchedBorn
<1> QED BY <1>1, CardStates DEF Live

LEMMA HeadOrTail ==
  ASSUME NEW S, NEW s \in Seq(S), s # <<>>, NEW k \in DOMAIN s
  PROVE  s[k] = Head(s) \/ \E l \in DOMAIN Tail(s) : Tail(s)[l] = s[k]
<1>1. CASE k = 1
  BY <1>1
<1>2. CASE k # 1
  <2>1. k - 1 \in DOMAIN Tail(s) /\ Tail(s)[k - 1] = s[k]
    BY <1>2
  <2> QED BY <2>1
<1> QED BY <1>1, <1>2

LEMMA CoversStep ==
  ASSUME IInv, Stages, HoldersHavePayload, [Next]_vars, NEW w \in Worker,
         CallBatch(w), EarnedBy(w), Covers(w)
  PROVE  Covers(w)'
<1> USE DEF IInv, CallsOK, TxOK, Stages
<1>0. DOMAIN seen[w] \subseteq Touched(w)
  BY DEF EarnedBy, SeenEarned
<1>1. CASE UNCHANGED <<pc[w], job[w], payload[w], owned[w], seen[w], history[w],
                       todo[w], inserted[w], writes[w]>>
  <2>1. Touched(w)' = Touched(w)
    BY <1>1 DEF Touched
  <2>2. DOMAIN writes[w] \subseteq Live'
    BY LockedStaysLive DEF Covers
  <2>3. Touched(w) \cap Live' \subseteq Live
    BY LiveBefore
  <2> QED BY <1>1, <2>1, <2>2, <2>3 DEF Covers
<1>2. ASSUME NoTx(w)', pc'[w] \notin {"history", "write"} PROVE Covers(w)'
  BY <1>2 DEF Covers, NoTx
<1>3. CASE \E j \in DOMAIN jobs : Fetch(w, j)
  <2>1. NoTx(w)' /\ pc'[w] = "check"
    BY <1>3 DEF Fetch, Stage, NoTx, txVars
  <2> QED BY <1>2, <2>1
<1>4. CASE NoTx(w)' /\ pc'[w] \in {"idle", "ack"}
  BY <1>2, <1>4
<1>5. CASE CheckOwned(w)
  <2>1. NoTx(w)' /\ pc'[w] \in {"ack", "insert"}
    BY <1>5 DEF CheckOwned, Goto, Stage, NoTx, txVars
  <2> QED BY <1>2, <2>1
<1>6. CASE InsertEvents(w)
  <2>1. writes'[w] = <<>> /\ pc'[w] = "cards"
    BY <1>6 DEF InsertEvents, Goto, Stage, NoTx
  <2> QED BY <2>1 DEF Covers
<1>7. CASE ReadCards(w)
  <2>1. /\ writes'[w] = <<>> /\ pc'[w] = "history" /\ UNCHANGED <<owned, cardState>>
        /\ DOMAIN seen'[w] = Touched(w) \cap Live
    BY <1>7 DEF ReadCards, Goto, Stage, dbVars, cardVars
  <2> QED BY <2>1 DEF Covers, Touched, Live
<1>8. CASE ReadHistory(w)
  <2>1. /\ pc[w] = "history" /\ writes'[w] = <<>> /\ pc'[w] = "write"
        /\ UNCHANGED <<owned, cardState, seen>> /\ todo'[w] = LockOrder(owned[w])
    BY <1>8 DEF ReadHistory, Goto, Stage, dbVars, cardVars
  <2>2. \A c \in Touched(w) : \E k \in DOMAIN todo'[w] : todo'[w][k] = c
    BY <2>1, LockOrderLists
  <2>3. Touched(w)' = Touched(w) /\ Live' = Live
    BY <2>1 DEF Touched, Live
  <2>4. /\ DOMAIN writes'[w] = {} /\ Touched(w) \cap Live \subseteq DOMAIN seen[w]
        /\ \A c \in DOMAIN seen[w] : \E k \in DOMAIN todo'[w] : todo'[w][k] = c
    BY <1>0, <2>1, <2>2 DEF Covers
  <2> QED BY <2>1, <2>3, <2>4 DEF Covers
<1>9. CASE WriteCard(w)
  <2> DEFINE c == Head(todo[w])
  <2>1. /\ pc[w] = "write" /\ todo[w] # <<>> /\ todo'[w] = Tail(todo[w])
        /\ UNCHANGED <<pc, owned, cardState, seen>>
        /\ \/ /\ c \in Live /\ c \in DOMAIN seen[w]
              /\ DOMAIN writes'[w] = DOMAIN writes[w] \union {c}
           \/ c \notin DOMAIN seen[w] /\ UNCHANGED writes
    BY <1>9 DEF WriteCard, dbVars, cardVars, Put
  <2>2. Touched(w)' = Touched(w) /\ Live' = Live
    BY <2>1 DEF Touched, Live
  <2>3. todo[w] \in Seq(Card)
    OBVIOUS
  <2>4. \A k \in DOMAIN todo[w] :
          todo[w][k] = c \/ \E l \in DOMAIN todo'[w] : todo'[w][l] = todo[w][k]
    BY <2>1, <2>3, HeadOrTail
  <2> HIDE DEF c
  <2>5. CASE UNCHANGED writes /\ c \notin DOMAIN seen[w]
    BY <2>1, <2>2, <2>4, <2>5 DEF Covers
  <2>6. CASE /\ c \in Live /\ c \in DOMAIN seen[w]
             /\ DOMAIN writes'[w] = DOMAIN writes[w] \union {c}
    <3>1. pc'[w] = "write" /\ seen'[w] = seen[w] /\ pc[w] = "write"
      BY <2>1
    <3>2. DOMAIN writes'[w] \subseteq Live' \cap Touched(w)'
      BY <1>0, <2>2, <2>6 DEF Covers
    <3>3. Touched(w)' \cap Live' \subseteq DOMAIN seen'[w]
      BY <2>2, <3>1 DEF Covers
    <3>4. ASSUME NEW d \in DOMAIN seen[w], d \notin DOMAIN writes'[w]
          PROVE  \E l \in DOMAIN todo'[w] : todo'[w][l] = d
      <4>1. PICK k \in DOMAIN todo[w] : todo[w][k] = d
        BY <2>6, <3>1, <3>4 DEF Covers
      <4>2. d # c
        BY <2>6, <3>4
      <4> QED BY <2>4, <4>1, <4>2
    <3> QED BY <3>1, <3>2, <3>3, <3>4 DEF Covers
  <2> QED BY <2>1, <2>5, <2>6
<1> QED BY <1>0, <1>1, <1>3, <1>4, <1>5, <1>6, <1>7, <1>8, <1>9, CallOrStep

-----------------------------------------------------------------------------
\* Within the limit the window has every answer to the cards touched,
WindowFull(w) ==
  pc[w] = "write" =>
    \A r \in rows \union inserted[w] :
      r.user = job[w].user /\ r.card \in Touched(w) =>
        \E i \in DOMAIN history[w] : history[w][i] = r

\* so that what is written is what the rows earn that will be stored with it,
WritesEarn(w) ==
  \A c \in DOMAIN writes[w] :
    Earns(rows \union inserted[w], c, level[c], writes[w][c])

\* and a card has the columns that its rows earn.
Matched(S, c, l, right, wrong) ==
  \E s \in NewestFirst(Graded(S, c)) :
    /\ FoldStrength(s, Baseline[c]) <= l
    /\ right = LastAt(s, TRUE) /\ wrong = LastAt(s, FALSE)

CardsMatch ==
  \A c \in Card : cardState[c] # "gone" =>
    Matched(rows, c, level[c], lastCorrect[c], lastWrong[c])

\* Into the state of writing leads only the reading of the history.
LEMMA IntoWrite ==
  ASSUME IInv, Stages, [Next]_vars, NEW w \in Worker, pc'[w] = "write"
  PROVE  \/ UNCHANGED <<pc[w], job[w], payload[w], owned[w], seen[w], history[w],
                        todo[w], inserted[w], writes[w]>>
         \/ ReadHistory(w) \/ WriteCard(w)
<1> USE DEF IInv, CallsOK
<1>1. ASSUME \E j \in DOMAIN jobs : Fetch(w, j) PROVE FALSE
  BY <1>1 DEF Fetch
<1>2. ASSUME CheckOwned(w) \/ InsertEvents(w) \/ ReadCards(w) PROVE FALSE
  BY <1>2 DEF CheckOwned, InsertEvents, ReadCards, Goto
<1> QED BY <1>1, <1>2, CallOrStep

LEMMA OneCommits ==
  ASSUME NEW w, Worker = {w}, [Next]_vars
  PROVE  UNCHANGED <<rows, level, lastCorrect, lastWrong>> \/ Commit(w)
BY CommitOrSame

LEMMA WindowStep ==
  ASSUME NEW w, Worker = {w}, IInv, Stages, EarnedBy(w), WithinLimit, [Next]_vars,
         WindowFull(w)
  PROVE  WindowFull(w)'
<1> SUFFICES ASSUME pc'[w] = "write" PROVE WindowFull(w)'
  BY DEF WindowFull
<1> USE DEF IInv, CallsOK, TxOK
<1>1. UNCHANGED rows
  <2>1. ~Commit(w)
    BY DEF Commit, Goto
  <2> QED BY <2>1, OneCommits
<1>2. CASE UNCHANGED <<pc[w], job[w], payload[w], owned[w], seen[w], history[w],
                       todo[w], inserted[w], writes[w]>>
  <2>1. Touched(w)' = Touched(w)
    BY <1>2 DEF Touched
  <2> QED BY <1>1, <1>2, <2>1 DEF WindowFull
<1>3. CASE WriteCard(w)
  <2>1. Touched(w)' = Touched(w)
    BY <1>3 DEF Touched, WriteCard
  <2> QED BY <1>1, <1>3, <2>1 DEF WindowFull, WriteCard
<1>4. CASE ReadHistory(w)
  <2> DEFINE S == rows \union inserted[w]
             Q == {r \in S : r.user = job[w].user /\ r.card \in Touched(w)}
  <2>1. PICK s \in NewestFirst(Q) :
          history'[w] = Take(s, HistoryLimit * Cardinality(Touched(w)))
    BY <1>4 DEF ReadHistory
  <2>2. /\ UNCHANGED <<job, inserted>> /\ Touched(w)' = Touched(w)
    BY <1>4 DEF ReadHistory, Touched
  <2>3. S \in SUBSET Row /\ IsFiniteSet(S)
    BY RowsFinite
  <2>4. Touched(w) \in SUBSET Card /\ IsFiniteSet(Touched(w))
    BY TouchedFinite
  <2>5. \A c \in Touched(w) : /\ Owner[Home[c]] = job[w].user
                              /\ Cardinality(Answers(S, c)) <= HistoryLimit
    BY <2>4 DEF EarnedBy, OwnCards, WithinLimit
  <2>6. Take(s, HistoryLimit * Cardinality(Touched(w))) = s
    <3>1. PICK T, X, u : T = Touched(w) /\ X = S /\ u = job[w].user
      OBVIOUS
    <3> HIDE DEF S
    <3> QED BY <2>1, <2>3, <2>4, <2>5, <3>1, WindowFits
  <2>7. Q \in SUBSET Row /\ IsFiniteSet(Q)
    BY <2>3, FS_Subset
  <2> HIDE DEF Q
  <2>8. DOMAIN s = 1 .. Cardinality(Q) /\ Lists(s, Cardinality(Q), Q)
    BY <2>1, <2>7, NewestFirstLists
  <2>9. \A r \in Q : \E i \in DOMAIN s : s[i] = r
    BY <2>8 DEF Lists
  <2>10. history'[w] = s
    BY <2>1, <2>6
  <2> QED BY <1>1, <2>2, <2>9, <2>10 DEF WindowFull, Q
<1> QED BY <1>2, <1>3, <1>4, IntoWrite

LEMMA WriteStep ==
  ASSUME NEW w, Worker = {w}, IInv, Stages, ReadIsCurrent, EarnedBy(w), WithinLimit,
         WindowFull(w), [Next]_vars, WritesEarn(w)
  PROVE  WritesEarn(w)'
<1>0. IInv' /\ Stages'
  BY StepKeepsIInv, StagesStep
<1>1. CASE pc'[w] # "write"
  <2>1. pc'[w] \in Labels /\ Stages' /\ pc'[w] # "write"
    BY <1>0, <1>1 DEF IInv, CallsOK
  <2>2. DOMAIN writes'[w] = {}
    BY <2>1 DEF Stages, Stage, NoTx, Labels
  <2> QED BY <2>2 DEF WritesEarn
<1>2. CASE pc'[w] = "write"
  <2> USE DEF IInv, CallsOK, TxOK
  <2>1. UNCHANGED <<rows, level>>
    <3>1. ~Commit(w)
      BY <1>2 DEF Commit, Goto
    <3> QED BY <3>1, OneCommits
  <2>2. CASE UNCHANGED <<inserted[w], writes[w]>>
    BY <2>1, <2>2 DEF WritesEarn
  <2>3. CASE ReadHistory(w)
    BY <2>2, <2>3 DEF ReadHistory
  <2>4. CASE WriteCard(w)
    <3> DEFINE c == Head(todo[w])
    <3>1. /\ pc[w] = "write" /\ UNCHANGED inserted
          /\ \/ UNCHANGED writes
             \/ /\ c \in DOMAIN seen[w]
                /\ writes' = [writes EXCEPT ![w] =
                     Put(@, c, Regrade(seen[w][c], c, Bucket(history[w], c)))]
      BY <2>4 DEF WriteCard
    <3> HIDE DEF c
    <3>2. CASE c \in DOMAIN seen[w]
      <4>1. c \in Card /\ c \in Touched(w) /\ seen[w][c] = level[c]
        BY <3>2 DEF ReadIsCurrent, EarnedBy, SeenEarned, IsPartial
      <4>2. PICK S, h, l : S = rows \union inserted[w] /\ h = history[w] /\ l = level[c]
        OBVIOUS
      <4>3. S \in SUBSET Row /\ IsFiniteSet(S) /\ h \in Seq(Row) /\ SortedRows(h)
        BY <4>2, RowsFinite DEF EarnedBy, WindowOK
      <4>4. Owner[Home[c]] = job[w].user
        BY <4>1 DEF EarnedBy, OwnCards
      <4>5. Cardinality(Answers(S, c)) <= HistoryLimit
        BY <4>1, <4>2 DEF WithinLimit
      <4>6. \A i \in DOMAIN h : h[i] \in S /\ h[i].user = Owner[Home[c]]
        BY <4>2, <4>4 DEF EarnedBy, WindowOK
      <4>7. \A r \in Answers(S, c) : \E i \in DOMAIN h : h[i] = r
        BY <3>1, <4>1, <4>2, <4>4 DEF WindowFull, Answers
      <4>8. Found(Bucket(h, c)) = Graded(S, c)
        BY <4>3, <4>5, <4>6, <4>7, BucketIsAll
      <4>9. Earns(S, c, l, Regrade(l, c, Bucket(h, c)))
        BY <4>1, <4>3, <4>8, BucketRegrades
      <4>10. CASE UNCHANGED writes
        BY <2>2, <3>1, <4>10
      <4>11. CASE writes' = [writes EXCEPT ![w] =
                     Put(@, c, Regrade(seen[w][c], c, Bucket(history[w], c)))]
        <5>1. writes'[w] = Put(writes[w], c, Regrade(l, c, Bucket(h, c)))
          BY <4>1, <4>2, <4>11
        <5>2. \A d \in DOMAIN writes'[w] :
                \/ d = c /\ writes'[w][d] = Regrade(l, c, Bucket(h, c))
                \/ d \in DOMAIN writes[w] /\ writes'[w][d] = writes[w][d]
          BY <5>1 DEF Put
        <5> QED BY <2>1, <3>1, <4>2, <4>9, <5>2 DEF WritesEarn
      <4> QED BY <3>1, <4>10, <4>11
    <3>3. CASE UNCHANGED writes
      BY <2>2, <3>1, <3>3
    <3> QED BY <3>1, <3>2, <3>3
  <2> QED BY <1>2, <2>2, <2>3, <2>4, IntoWrite
<1> QED BY <1>1, <1>2

\* A card that exists and that a commit does not write gains no answer by it.
LEMMA GainsAreWritten ==
  ASSUME IInv, HoldersHavePayload, NEW w \in Worker, CallBatch(w), Covers(w), Commit(w),
         NEW r \in inserted[w]
  PROVE  r.card \in DOMAIN writes[w] \/ cardState[r.card] = "gone"
<1>1. PICK i \in DOMAIN owned[w] : r = RowOf(job[w].user, owned[w][i])
  BY DEF CallBatch
<1>2. r.card \in Touched(w)
  BY <1>1 DEF RowOf, Touched
<1>3. r.card \in Card /\ cardState[r.card] # "unborn"
  BY <1>2, TouchedBorn
<1>4. r.card \in Live \/ cardState[r.card] = "gone"
  BY <1>3 DEF IInv, TablesOK, Live
<1>5. pc[w] = "write" /\ todo[w] = <<>>
  BY DEF Commit
<1> QED BY <1>2, <1>4, <1>5 DEF Covers

LEMMA CommitColumns ==
  ASSUME IInv, NEW w \in Worker, Commit(w), NEW c \in Card
  PROVE  /\ rows' = rows \union inserted[w] /\ UNCHANGED cardState
         /\ c \in DOMAIN writes[w] =>
              /\ level'[c] = writes[w][c].level /\ status'[c] = writes[w][c].status
              /\ lastCorrect'[c] = writes[w][c].lastCorrect
              /\ lastWrong'[c] = writes[w][c].lastWrong
         /\ c \notin DOMAIN writes[w] =>
              /\ level'[c] = level[c] /\ status'[c] = status[c]
              /\ lastCorrect'[c] = lastCorrect[c] /\ lastWrong'[c] = lastWrong[c]
BY DEF Commit

LEMMA MatchStep ==
  ASSUME NEW w, Worker = {w}, IInv, HoldersHavePayload, CallBatch(w), Covers(w),
         WritesEarn(w), CardsMatch, [Next]_vars
  PROVE  CardsMatch'
<1>1. CASE UNCHANGED <<rows, level, lastCorrect, lastWrong>>
  <2>1. \A c \in Card : cardState'[c] # "gone" => cardState[c] # "gone"
    BY CardStates
  <2> QED BY <1>1, <2>1 DEF CardsMatch
<1>2. CASE Commit(w)
  <2> SUFFICES ASSUME NEW c \in Card, cardState[c] # "gone"
               PROVE  Matched(rows', c, level'[c], lastCorrect'[c], lastWrong'[c])
    BY <1>2 DEF CardsMatch, Commit
  <2>1. rows' = rows \union inserted[w]
    BY <1>2 DEF Commit
  <2>2. CASE c \in DOMAIN writes[w]
    <3>1. PICK s \in NewestFirst(Graded(rows \union inserted[w], c)) :
            writes[w][c] = Regrade(level[c], c, s)
      BY <2>2 DEF WritesEarn, Earns
    <3>2. /\ level'[c] = Regrade(level[c], c, s).level
          /\ lastCorrect'[c] = Regrade(level[c], c, s).lastCorrect
          /\ lastWrong'[c] = Regrade(level[c], c, s).lastWrong
      BY <1>2, <2>2, <3>1, CommitColumns
    <3>3. FoldStrength(s, Baseline[c]) \in Level /\ level[c] \in Level
      <4>1. PICK G : G = Graded(rows \union inserted[w], c)
        OBVIOUS
      <4>2. G \in SUBSET Row /\ IsFiniteSet(G)
        BY <4>1, RowsFinite, GradedType
      <4>3. Timed(s) /\ DOMAIN s = 1 .. Cardinality(G) /\ Cardinality(G) \in Nat
        BY <3>1, <4>1, <4>2, NewestFirstLists
      <4> QED BY <4>3, FoldInRange, DataAssumption DEF Timed, Level, IInv, TablesOK
    <3>4. FoldStrength(s, Baseline[c]) <= level'[c]
      BY <3>2, <3>3 DEF Regrade, Level
    <3>5. lastCorrect'[c] = LastAt(s, TRUE) /\ lastWrong'[c] = LastAt(s, FALSE)
      BY <3>2 DEF Regrade
    <3> QED BY <2>1, <3>1, <3>4, <3>5 DEF Matched
  <2>3. CASE c \notin DOMAIN writes[w]
    <3>1. \A r \in inserted[w] : r.card # c
      BY <1>2, <2>3, GainsAreWritten
    <3>2. Graded(rows', c) = Graded(rows, c)
      BY <2>1, <3>1 DEF Graded
    <3>3. Matched(rows, c, level[c], lastCorrect[c], lastWrong[c])
      BY DEF CardsMatch
    <3>4. Matched(rows', c, level[c], lastCorrect[c], lastWrong[c])
      BY <3>2, <3>3 DEF Matched
    <3> QED BY <1>2, <2>3, <3>4, CommitColumns
  <2> QED BY <2>2, <2>3
<1> QED BY <1>1, <1>2, OneCommits

-----------------------------------------------------------------------------
\* What holds of the one worker w while no card outgrows the history window.
OneWorker(w) ==
  /\ IInv /\ Stages /\ JobsNamed /\ HoldersHavePayload
  /\ ReadIsCurrent /\ WritesNoLess /\ LevelsEarned /\ EarnedBy(w)
  /\ CallBatch(w) /\ Covers(w) /\ WindowFull(w) /\ WritesEarn(w) /\ CardsMatch

LEMMA OneWorkerInit ==
  ASSUME NEW w, Worker = {w}, Init
  PROVE  OneWorker(w)
<1>1. JobsNamed /\ HoldersHavePayload /\ ReadIsCurrent /\ WritesNoLess
  BY DEF Init, JobsNamed, HoldersHavePayload, BornAll, ReadIsCurrent, WritesNoLess
<1>2. LevelsEarned /\ EarnedBy(w)
  BY EarnedInit
<1>3. CallBatch(w) /\ Covers(w) /\ WindowFull(w) /\ WritesEarn(w)
  BY DEF Init, CallBatch, Covers, WindowFull, WritesEarn
<1>4. ASSUME NEW c \in Card
      PROVE  Matched(rows, c, level[c], lastCorrect[c], lastWrong[c])
  <2>1. /\ level[c] = Baseline[c] /\ Graded(rows, c) = {} /\ Baseline[c] \in Level
        /\ lastCorrect[c] = NoTime /\ lastWrong[c] = NoTime
    BY NoneGraded, DataAssumption DEF Init
  <2>2. PICK b \in Level : b = Baseline[c]
    BY <2>1
  <2>3. /\ <<>> \in NewestFirst({}) /\ FoldStrength(<<>>, b) = b
        /\ LastAt(<<>>, TRUE) = NoTime /\ LastAt(<<>>, FALSE) = NoTime
    BY NoRows
  <2>4. FoldStrength(<<>>, Baseline[c]) <= level[c]
    BY <2>1, <2>2, <2>3 DEF Level
  <2>5. PICK G : G = Graded(rows, c) /\ <<>> \in NewestFirst(G)
    BY <2>1, <2>3
  <2> QED BY <2>1, <2>3, <2>4, <2>5 DEF Matched
<1> QED BY <1>1, <1>2, <1>3, <1>4, InitType, StagesInit DEF OneWorker, CardsMatch

LEMMA OneWorkerStep ==
  ASSUME NEW w, Worker = {w}, OneWorker(w), WithinLimit, [Next]_vars
  PROVE  OneWorker(w)'
<1> USE DEF OneWorker
<1>1. IInv' /\ Stages' /\ JobsNamed' /\ HoldersHavePayload'
  BY StepKeepsIInv, StagesStep, NamedStep, HolderStep
<1>2. ReadIsCurrent' /\ WritesNoLess'
  BY LevelStep
<1>3. LevelsEarned' /\ EarnedBy(w)'
  BY EarnedByStep, LevelsEarnedStep
<1>4. CallBatch(w)' /\ Covers(w)'
  BY CallBatchStep, CoversStep
<1>5. WindowFull(w)' /\ WritesEarn(w)' /\ CardsMatch'
  BY WindowStep, WriteStep, MatchStep
<1> QED BY <1>1, <1>2, <1>3, <1>4, <1>5

\* The latest of a history's answers.
LEMMA LastAtLatest ==
  ASSUME NEW G \in SUBSET Row, IsFiniteSet(G), NEW s \in NewestFirst(G), NEW right,
         NEW times, times = {r.at : r \in {r \in G : r.correct = right}}
  PROVE  IF times = {} THEN LastAt(s, right) = NoTime
         ELSE LastAt(s, right) \in times /\ \A t \in times : t <= LastAt(s, right)
<1> DEFINE D == {i \in DOMAIN s : s[i].correct = right}
           ats == {s[i].at : i \in D}
<1>1. DOMAIN s = 1 .. Cardinality(G) /\ Lists(s, Cardinality(G), G)
  BY NewestFirstLists
<1>2. ats = times
  BY <1>1 DEF Lists
<1>3. IsFiniteSet(times) /\ times \subseteq Nat
  <2>1. times \subseteq Nat
    BY DEF Row, Time
  <2>2. IsFiniteSet({r \in G : r.correct = right})
    BY FS_Subset
  <2> DEFINE X == {r \in G : r.correct = right}
             f == [r \in X |-> r.at]
  <2>3. f \in Surjection(X, times)
    BY DEF Surjection
  <2> HIDE DEF f, X
  <2>4. IsFiniteSet(X)
    BY <2>2 DEF X
  <2> QED BY <2>1, <2>3, <2>4, FS_Surjection
<1>4. LastAt(s, right) = IF times = {} THEN NoTime ELSE Max(times)
  BY <1>2 DEF LastAt
<1>5. times # {} => Max(times) \in times /\ \A t \in times : t <= Max(times)
  BY <1>3, GreatestNat
<1> QED BY <1>4, <1>5

\* One worker, and no card with more answers than the window has room for:
\* lastCorrectAt and lastWrongAt are the times of the latest stored answers,
\* though batches are applied out of order, twice, or cut short.
THEOREM LastTimesAlwaysMatch ==
  ASSUME NEW w, Worker = {w}
  PROVE  Spec /\ []WithinLimit => []LastTimesMatchHistory
<1>1. Init => OneWorker(w)
  BY OneWorkerInit
<1>2. OneWorker(w) /\ WithinLimit /\ [Next]_vars => OneWorker(w)'
  BY OneWorkerStep
<1>3. OneWorker(w) => LastTimesMatchHistory
  <2> SUFFICES ASSUME OneWorker(w), NEW c \in Live,
                      NEW x \in {<<TRUE, lastCorrect[c]>>, <<FALSE, lastWrong[c]>>},
                      NEW times,
                      times = {r.at : r \in {r \in Graded(rows, c) : r.correct = x[1]}}
               PROVE  IF times = {} THEN x[2] = NoTime
                      ELSE x[2] \in times /\ \A t \in times : t <= x[2]
    BY DEF LastTimesMatchHistory
  <2>1. c \in Card /\ cardState[c] # "gone"
    BY DEF Live
  <2>2. PICK s \in NewestFirst(Graded(rows, c)) :
          lastCorrect[c] = LastAt(s, TRUE) /\ lastWrong[c] = LastAt(s, FALSE)
    BY <2>1 DEF OneWorker, CardsMatch, Matched
  <2>3. PICK G, right : G = Graded(rows, c) /\ right = x[1]
    OBVIOUS
  <2>4. G \in SUBSET Row /\ IsFiniteSet(G)
    BY <2>3, GradedType DEF OneWorker, IInv, TablesOK
  <2>5. x[2] = LastAt(s, right)
    <3>1. CASE x = <<TRUE, lastCorrect[c]>>
      <4>1. x[1] = TRUE /\ x[2] = lastCorrect[c]
        BY <3>1
      <4> QED BY <2>2, <2>3, <4>1
    <3>2. CASE x = <<FALSE, lastWrong[c]>>
      <4>1. x[1] = FALSE /\ x[2] = lastWrong[c]
        BY <3>2
      <4> QED BY <2>2, <2>3, <4>1
    <3> QED BY <3>1, <3>2
  <2> QED BY <2>2, <2>3, <2>4, <2>5, LastAtLatest
<1> QED BY <1>1, <1>2, <1>3, PTL DEF Spec

\* One worker, and no card with more answers than the window has room for: a
\* card's level is what its stored answers earn, each counted once, up to the
\* order of answers given at the same time.
THEOREM LevelsAlwaysMatch ==
  ASSUME NEW w, Worker = {w}
  PROVE  Spec /\ []WithinLimit => []LevelMatchesHistory
<1>1. Init => OneWorker(w)
  BY OneWorkerInit
<1>2. OneWorker(w) /\ WithinLimit /\ [Next]_vars => OneWorker(w)'
  BY OneWorkerStep
<1>3. OneWorker(w) => LevelMatchesHistory
  <2> SUFFICES ASSUME OneWorker(w), NEW c \in Live
               PROVE  \E s, t \in NewestFirst(Graded(rows, c)) :
                        /\ FoldStrength(s, Baseline[c]) <= level[c]
                        /\ level[c] <= FoldStrength(t, Baseline[c])
    BY DEF LevelMatchesHistory
  <2>1. c \in Card /\ cardState[c] # "gone"
    BY DEF Live
  <2>2. Matched(rows, c, level[c], lastCorrect[c], lastWrong[c])
    BY <2>1 DEF OneWorker, CardsMatch
  <2>3. Earned(level[c], Graded(rows, c), Baseline[c])
    BY <2>1 DEF OneWorker, LevelsEarned
  <2> QED BY <2>2, <2>3 DEF Matched, Earned
<1> QED BY <1>1, <1>2, <1>3, PTL DEF Spec

(***************************************************************************)
(* The refinement. What StudyLedger takes from StudyData is, unfolded, what *)
(* StudyPipeline takes from it.                                            *)
(***************************************************************************)
LEMMA SameFold ==
  ASSUME NEW s, NEW b
  PROVE  Ledger!FoldStrength(s, b) = FoldStrength(s, b)
BY DEF Ledger!FoldStrength, FoldStrength, Ledger!Levels, Levels, Ledger!ByTime, ByTime,
       Ledger!Before, Before, Ledger!InOrder, InOrder, Ledger!ApplyEvent, ApplyEvent,
       Ledger!MaxLevel, MaxLevel, Ledger!ModeCeiling, ModeCeiling,
       Ledger!Cardinality, Cardinality, Ledger!IsFiniteSet, IsFiniteSet

LEMMA SameNewestFirst ==
  ASSUME NEW S, NEW c
  PROVE  Ledger!NewestFirst(Ledger!Graded(S, c)) = NewestFirst(Graded(S, c))
BY DEF Ledger!NewestFirst, NewestFirst, Ledger!SetToSeqs, SetToSeqs, Ledger!Graded, Graded,
       Ledger!Cardinality, Cardinality, Ledger!IsFiniteSet, IsFiniteSet, Ledger!None, None

LEMMA SameLastAt ==
  ASSUME NEW s, NEW right
  PROVE  Ledger!LastAt(s, right) = LastAt(s, right)
BY DEF Ledger!LastAt, LastAt, Ledger!Max, Max, Ledger!NoTime, NoTime

LEMMA SameStatus ==
  ASSUME NEW l
  PROVE  Ledger!StatusForLevel(l) = StatusForLevel(l)
BY DEF Ledger!StatusForLevel, StatusForLevel, Ledger!MaxLevel, MaxLevel

LEMMA SameRow ==
  ASSUME NEW user, NEW raw
  PROVE  Ledger!RowOf(user, Ledger!NormalizeEvent(raw)) = RowOf(user, NormalizeEvent(raw))
BY DEF Ledger!RowOf, RowOf, Ledger!NormalizeEvent, NormalizeEvent,
       Ledger!IsGraded, IsGraded, Ledger!None, None

LEMMA SameRecorded ==
  ASSUME NEW S, NEW live, NEW b
  PROVE  Ledger!Recorded(S, live, b) = Recorded(S, live, b)
BY DEF Ledger!Recorded, Recorded, Ledger!Keys, Keys, Ledger!MayStudy, MayStudy

LEMMA SameValid ==
  ASSUME NEW events
  PROVE  Ledger!Valid(events) = Valid(events)
BY DEF Ledger!Valid, Valid, Ledger!Normalizable, Normalizable, Ledger!IsGraded, IsGraded,
       Ledger!None, None

-----------------------------------------------------------------------------
\* A commit learns the batch of the job: its rows,
LEMMA CommitRows ==
  ASSUME NEW w \in Worker, IInv, StoredOnce', CallBatch(w), EarnedBy(w), Commit(w),
         NEW b, payload[w] = b.events, job[w].user = b.user,
         NEW gained, gained = {r.card : r \in rows' \ rows}
  PROVE  /\ rows' \ rows \subseteq
              {Ledger!RowOf(b.user, Ledger!NormalizeEvent(b.events[i])) :
                 i \in {i \in DOMAIN b.events :
                          Ledger!MayStudy(Ledger!Live \union gained, b.user, b.events[i])}}
         /\ \A r \in rows' \ rows : Ledger!Keys({r}) \cap Ledger!Keys(rows' \ {r}) = {}
<1>1. rows' = rows \union inserted[w]
  BY DEF Commit
<1>2. ASSUME NEW r \in rows' \ rows
      PROVE  \E i \in DOMAIN b.events :
               /\ r = RowOf(b.user, NormalizeEvent(b.events[i]))
               /\ Ledger!MayStudy(Ledger!Live \union gained, b.user, b.events[i])
  <2>1. PICK i \in DOMAIN owned[w] : r = RowOf(job[w].user, owned[w][i])
    BY <1>1 DEF CallBatch
  <2>2. /\ i \in DOMAIN b.events /\ owned[w][i] = NormalizeEvent(b.events[i])
        /\ owned[w][i].module = Home[owned[w][i].card]
    BY DEF CallBatch
  <2>3. owned[w][i].card = b.events[i].card /\ owned[w][i].module = b.events[i].module
    BY <2>2 DEF NormalizeEvent
  <2>4. r.card = b.events[i].card /\ r.card \in gained
    BY <2>1, <2>3 DEF RowOf
  <2>5. Owner[Home[b.events[i].card]] = b.user
    BY <2>3 DEF EarnedBy, OwnCards, Touched
  <2> QED BY <2>1, <2>2, <2>3, <2>4, <2>5 DEF Ledger!MayStudy
<1>3. ASSUME NEW r \in rows'
      PROVE  Ledger!Keys({r}) \cap Ledger!Keys(rows' \ {r}) = {}
  BY DEF StoredOnce, Ledger!Keys
<1>4. ASSUME NEW r \in rows' \ rows
      PROVE  r \in {Ledger!RowOf(b.user, Ledger!NormalizeEvent(b.events[i])) :
                      i \in {i \in DOMAIN b.events :
                               Ledger!MayStudy(Ledger!Live \union gained, b.user, b.events[i])}}
  <2>1. PICK i \in DOMAIN b.events :
          /\ r = RowOf(b.user, NormalizeEvent(b.events[i]))
          /\ Ledger!MayStudy(Ledger!Live \union gained, b.user, b.events[i])
    BY <1>2
  <2>2. PICK raw, user : raw = b.events[i] /\ user = b.user
    OBVIOUS
  <2>3. Ledger!RowOf(user, Ledger!NormalizeEvent(raw)) = RowOf(user, NormalizeEvent(raw))
    BY SameRow
  <2>4. r = Ledger!RowOf(b.user, Ledger!NormalizeEvent(b.events[i]))
    BY <2>1, <2>2, <2>3
  <2> QED BY <2>1, <2>4
<1> QED BY <1>3, <1>4

\* and the columns of its cards.
LEMMA CommitCard ==
  ASSUME NEW w \in Worker, IInv, HoldersHavePayload, CallBatch(w), Covers(w), WritesEarn(w),
         Commit(w), NEW c \in Card,
         NEW b, payload[w] = b.events,
         NEW gained, gained = {r.card : r \in rows' \ rows}
  PROVE  \/ /\ c \in {b.events[i].card : i \in DOMAIN b.events} \cap Ledger!Live
            /\ Ledger!Regraded(c)
         \/ c \notin gained \cap Ledger!Live /\ Ledger!Kept(c)
<1>1. rows' = rows \union inserted[w]
  BY DEF Commit
<1>2. CASE c \in DOMAIN writes[w]
  <2>1. c \in Live /\ c \in Touched(w)
    BY <1>2 DEF Covers
  <2>2. PICK i \in DOMAIN owned[w] : owned[w][i].card = c
    BY <2>1 DEF Touched
  <2>3. i \in DOMAIN b.events /\ b.events[i].card = c
    <3>1. i \in DOMAIN payload[w] /\ owned[w][i] = NormalizeEvent(payload[w][i])
      BY DEF CallBatch
    <3> QED BY <2>2, <3>1 DEF NormalizeEvent
  <2>4. PICK s \in NewestFirst(Graded(rows', c)) : writes[w][c] = Regrade(level[c], c, s)
    BY <1>1, <1>2 DEF WritesEarn, Earns
  <2>5. PICK fold : fold = FoldStrength(s, Baseline[c])
    OBVIOUS
  <2>6. /\ level'[c] = IF level[c] >= fold THEN level[c] ELSE fold
        /\ status'[c] = StatusForLevel(level'[c])
        /\ lastCorrect'[c] = LastAt(s, TRUE) /\ lastWrong'[c] = LastAt(s, FALSE)
    <3>1. /\ level'[c] = writes[w][c].level /\ status'[c] = writes[w][c].status
          /\ lastCorrect'[c] = writes[w][c].lastCorrect
          /\ lastWrong'[c] = writes[w][c].lastWrong
      BY <1>2, CommitColumns
    <3> QED BY <2>4, <2>5, <3>1 DEF Regrade
  <2>7. Ledger!Regraded(c)
    <3>1. s \in Ledger!NewestFirst(Ledger!Graded(rows', c))
      BY <2>4, SameNewestFirst
    <3>2. /\ fold = Ledger!FoldStrength(s, Baseline[c])
          /\ status'[c] = Ledger!StatusForLevel(level'[c])
          /\ lastCorrect'[c] = Ledger!LastAt(s, TRUE)
          /\ lastWrong'[c] = Ledger!LastAt(s, FALSE)
      BY <2>5, <2>6, SameFold, SameStatus, SameLastAt
    <3> QED BY <2>6, <3>1, <3>2 DEF Ledger!Regraded
  <2> QED BY <2>1, <2>3, <2>7 DEF Live, Ledger!Live
<1>3. CASE c \notin DOMAIN writes[w]
  <2>1. \A r \in inserted[w] : r.card = c => cardState[c] = "gone"
    BY <1>3, GainsAreWritten
  <2>2. c \notin gained \cap Ledger!Live
    BY <1>1, <2>1 DEF Ledger!Live
  <2>3. Ledger!Kept(c)
    BY <1>3, CommitColumns DEF Ledger!Kept
  <2> QED BY <2>2, <2>3
<1> QED BY <1>2, <1>3

LEMMA CommitLearns ==
  ASSUME NEW w \in Worker, IInv, StoredOnce', HoldersHavePayload, CallBatch(w), EarnedBy(w),
         Covers(w), WritesEarn(w), Progress(w), Commit(w)
  PROVE  \E b \in Batches : Ledger!Valid(b.events) /\ Ledger!Learn(b)
<1>1. pc[w] = "write" /\ rows' = rows \union inserted[w] /\ UNCHANGED cardState
  BY DEF Commit
<1>2. PICK b \in Accepted : payload[w] = b.events /\ job[w].user = b.user
  BY <1>1 DEF CallBatch
<1>3. b \in Batches /\ Ledger!Valid(b.events)
  BY <1>1, <1>2, SameValid DEF CallBatch, Accepted
<1>4. Ledger!Recorded(rows', Ledger!Live, b)
  <2>1. Recorded(rows', Live, b)
    BY <1>1, <1>2 DEF Progress, OwnedOrForeign, OwnedIn, Recorded
  <2>2. Ledger!Live = Live
    BY DEF Live, Ledger!Live
  <2> QED BY <2>1, <2>2, SameRecorded
<1>5. PICK gained : gained = {r.card : r \in rows' \ rows}
  OBVIOUS
<1>6. /\ rows' \ rows \subseteq
           {Ledger!RowOf(b.user, Ledger!NormalizeEvent(b.events[i])) :
              i \in {i \in DOMAIN b.events :
                       Ledger!MayStudy(Ledger!Live \union gained, b.user, b.events[i])}}
      /\ \A r \in rows' \ rows : Ledger!Keys({r}) \cap Ledger!Keys(rows' \ {r}) = {}
  BY <1>2, <1>5, CommitRows
<1>7. ASSUME NEW c \in Card
      PROVE  \/ /\ c \in {b.events[i].card : i \in DOMAIN b.events} \cap Ledger!Live
                /\ Ledger!Regraded(c)
             \/ c \notin gained \cap Ledger!Live /\ Ledger!Kept(c)
  BY <1>2, <1>5, CommitCard
<1>8. rows \subseteq rows'
  BY <1>1
<1> QED BY <1>1, <1>3, <1>4, <1>5, <1>6, <1>7, <1>8 DEF Ledger!Learn

\* The worker's and the queue's other steps leave the tables alone.
LEMMA TablesChange ==
  ASSUME [Next]_vars
  PROVE  Edit \/ (\E w \in Worker : Commit(w)) \/ UNCHANGED Ledger!vars
BY DEF Next, Queue, Submit, Promote, Prune, Stall, Fetch, Work, Process, TxFails, Crash,
       RejectPayload, CheckOwned, InsertEvents, ReadCards, ReadHistory, WriteCard,
       CardGone, Complete, Failed, vars, dbVars, cardVars, Ledger!vars

LEMMA EditsImplement ==
  ASSUME IInv, Edit
  PROVE  [Ledger!Next]_Ledger!vars
<1> USE DEF IInv, TablesOK
<1>0. Ledger!Live = Live
  BY DEF Live, Ledger!Live
<1>1. ASSUME NEW c \in Card, NEW s \in Patched, CreateCard(c, s) PROVE Ledger!Next
  <2>1. Ledger!Create(c, s)
    BY <1>1 DEF CreateCard, Ledger!Create
  <2> QED BY <2>1 DEF Ledger!Next
<1>2. ASSUME NEW c \in Card, NEW s \in Patched, UpdateCard(c, s) PROVE Ledger!Next
  <2>1. Ledger!SetStatus({c}, s)
    BY <1>2 DEF UpdateCard, Ledger!SetStatus
  <2>2. c \in Ledger!Live
    BY <1>0, <1>2 DEF UpdateCard
  <2> QED BY <2>1, <2>2 DEF Ledger!Next
<1>3. ASSUME NEW c \in Card, RemoveCard(c) PROVE Ledger!Next
  <2>1. Ledger!Delete(c)
    BY <1>0, <1>3 DEF RemoveCard, Ledger!Delete
  <2> QED BY <2>1 DEF Ledger!Next
<1>4. ASSUME NEW m \in Module, ResetProgress(m) PROVE Ledger!Next
  <2>1. Ledger!SetStatus({c \in Ledger!Live : Home[c] = m}, "UNSTUDIED")
    BY <1>0, <1>4 DEF ResetProgress, Ledger!SetStatus
  <2> QED BY <2>1 DEF Ledger!Next
<1> QED BY <1>1, <1>2, <1>3, <1>4 DEF Edit

\* One worker, and no card with more answers than the window has room for:
\* whatever is delivered twice, retried, stalled or cut short, and whatever is
\* edited meanwhile, the tables change as StudyLedger says, by whole batches.
THEOREM PipelineImplementsLedger ==
  ASSUME NEW w, Worker = {w}
  PROVE  Spec /\ []WithinLimit => ImplementsLedger
<1> DEFINE LedgerInv == OneWorker(w) /\ StoredOnce /\ PendingOnce /\ Progress(w)
<1>1. Init => LedgerInv /\ Ledger!Init
  <2> SUFFICES ASSUME Init PROVE LedgerInv /\ Ledger!Init
    OBVIOUS
  <2>1. StoredOnce /\ PendingOnce
    BY DataAssumption DEF Init, StoredOnce, PendingOnce
  <2>2. Progress(w)
    BY DEF Init, Progress
  <2>3. Ledger!Init
    <3>1. \A c \in Card : Ledger!StatusForLevel(Baseline[c]) = StatusForLevel(Baseline[c])
      BY SameStatus
    <3> QED BY <3>1 DEF Init, Ledger!Init, NoTime, Ledger!NoTime
  <2> QED BY <2>1, <2>2, <2>3, OneWorkerInit
<1>2. LedgerInv /\ WithinLimit /\ [Next]_vars => LedgerInv'
  BY OneWorkerStep, PendingStep, ProgressStep DEF OneWorker
<1>3. LedgerInv /\ LedgerInv' /\ [Next]_vars => [Ledger!Next]_Ledger!vars
  <2> SUFFICES ASSUME LedgerInv, LedgerInv', [Next]_vars PROVE [Ledger!Next]_Ledger!vars
    OBVIOUS
  <2>1. CASE Commit(w)
    <3>1. \E b \in Batches : Ledger!Valid(b.events) /\ Ledger!Learn(b)
      BY <2>1, CommitLearns DEF OneWorker
    <3> QED BY <3>1 DEF Ledger!Next
  <2>2. CASE Edit
    BY <2>2, EditsImplement DEF OneWorker
  <2> QED BY <2>1, <2>2, TablesChange
<1> QED BY <1>1, <1>2, <1>3, PTL DEF Spec, ImplementsLedger, Ledger!Spec
=============================================================================
