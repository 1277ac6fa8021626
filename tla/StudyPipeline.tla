--------------------------- MODULE StudyPipeline ---------------------------
(***************************************************************************)
(* Study events, from POST /study/events to the cards they strengthen:     *)
(* study.service.ts puts a batch on the BullMQ queue "study",              *)
(* study.processor.ts takes it off in the worker process and applies it in *)
(* one READ COMMITTED transaction, while the API process goes on editing   *)
(* the same cards (flashcards.service.ts, modules.service.ts).             *)
(*                                                                         *)
(* Left out: firstTry and responseMs (stored, never read), Module.updatedAt*)
(* (orders listings only), and the text of cards.                          *)
(***************************************************************************)
EXTENDS StudyData

CONSTANTS
  Worker,
  MaxBatch,       \* most events in a request: 100 in study.service.ts
  MaxAttempts,    \* attempts of study.module.ts
  MaxStalls       \* BullMQ's maxStalledCount

ASSUME QueueAssumption ==
  /\ MaxBatch \in Nat /\ MaxAttempts \in Nat \ {0} /\ MaxStalls \in Nat
  /\ IsFiniteSet(Worker) /\ None \notin Worker

VARIABLES
  jobs,         \* Redis: job id -> job, for the jobs BullMQ still holds
  rows,         \* table StudyEvent
  cardState,    \* table Flashcard: which rows exist, and their columns
  level, status, lastCorrect, lastWrong,
  pc,           \* Worker -> where its process() call is
  job,          \* Worker -> the id of the job it is processing
  payload,      \* Worker -> job.data.events
  owned,        \* Worker -> the events it may apply, by position in payload
  seen,         \* Worker -> the strength levels it read, for the cards it found
  history,      \* Worker -> the rows it read, newest first
  todo,         \* Worker -> the cards it has still to update, in order
  inserted,     \* Worker -> rows inserted by its open transaction
  writes        \* Worker -> columns updated by it, for the cards it locks

cardVars == <<cardState, level, status, lastCorrect, lastWrong>>
dbVars == <<rows, cardVars>>
txVars == <<seen, history, todo, inserted, writes>>
workVars == <<pc, job, payload, owned, txVars>>
vars == <<jobs, rows, cardVars, workVars>>

-----------------------------------------------------------------------------
(* Job ids: sha256 of the sorted event ids, with the user; equal for two    *)
(* batches of the same user exactly when their ids are the same multiset.   *)

JobId(b) ==
  LET ids == {b.events[i].id : i \in DOMAIN b.events}
  IN  [user |-> b.user,
       ids  |-> [e \in ids |->
                   Cardinality({i \in DOMAIN b.events : b.events[i].id = e})]]

\* 1 to 100 events, or the request is answered 400.
Accepted == {b \in Batches : Len(b.events) \in 1 .. MaxBatch}
JobIds == {JobId(b) : b \in Accepted}
NoJob == [user |-> None, ids |-> <<>>]

Put(f, k, v) == [x \in DOMAIN f \union {k} |-> IF x = k THEN v ELSE f[x]]
Without(f, k) == [x \in DOMAIN f \ {k} |-> f[x]]

NewJob(b) == [state |-> "waiting", body |-> b, attempts |-> 0, stalls |-> 0,
              holder |-> None]

Live == {c \in Card : cardState[c] = "live"}

Init ==
  /\ jobs = <<>>
  /\ rows = OldRows
  /\ cardState = [c \in Card |-> IF c \in FirstCards THEN "live" ELSE "unborn"]
  /\ level = Baseline
  /\ status = [c \in Card |-> StatusForLevel(Baseline[c])]
  /\ lastCorrect = [c \in Card |-> NoTime]
  /\ lastWrong = [c \in Card |-> NoTime]
  /\ pc = [w \in Worker |-> "idle"]
  /\ job = [w \in Worker |-> NoJob]
  /\ payload = [w \in Worker |-> <<>>]
  /\ owned = [w \in Worker |-> <<>>]
  /\ seen = [w \in Worker |-> <<>>]
  /\ history = [w \in Worker |-> <<>>]
  /\ todo = [w \in Worker |-> <<>>]
  /\ inserted = [w \in Worker |-> {}]
  /\ writes = [w \in Worker |-> <<>>]

-----------------------------------------------------------------------------
(* The queue. A job is waiting, active, delayed (backing off) or failed;    *)
(* removeOnComplete drops it when it is done.                               *)

\* queue.add: a job id BullMQ still holds, in whatever state, is left alone and
\* the request is answered { queued: true } all the same. Card ids are uuids
\* made by the server: a client names none that does not exist yet.
Submit(b) ==
  /\ \A i \in DOMAIN b.events : cardState[b.events[i].card] # "unborn"
  /\ JobId(b) \notin DOMAIN jobs
  /\ jobs' = Put(jobs, JobId(b), NewJob(b))
  /\ UNCHANGED <<rows, cardVars, workVars>>

Fetch(w, j) ==
  /\ pc[w] = "idle" /\ j \in DOMAIN jobs /\ jobs[j].state = "waiting"
  /\ jobs' = [jobs EXCEPT ![j].state = "active", ![j].holder = w]
  /\ pc' = [pc EXCEPT ![w] = "check"]
  /\ job' = [job EXCEPT ![w] = j]
  /\ payload' = [payload EXCEPT ![w] = jobs[j].body.events]
  /\ UNCHANGED <<rows, cardVars, owned, txVars>>

Promote(j) ==
  /\ j \in DOMAIN jobs /\ jobs[j].state = "delayed"
  /\ jobs' = [jobs EXCEPT ![j].state = "waiting"]
  /\ UNCHANGED <<rows, cardVars, workVars>>

PruneNever(j) == FALSE

Prune(j) ==   \* removeOnFail
  /\ j \in DOMAIN jobs /\ jobs[j].state = "failed"
  /\ jobs' = Without(jobs, j)
  /\ UNCHANGED <<rows, cardVars, workVars>>

StallUnlimited(j) ==
  /\ j \in DOMAIN jobs /\ jobs[j].state = "active"
  /\ jobs' = [jobs EXCEPT ![j].holder = None, ![j].stalls = @ + 1,
                          ![j].state = "waiting"]
  /\ UNCHANGED <<rows, cardVars, workVars>>

\* The lock of an active job ran out: its worker died, or was too busy to renew
\* it and is still at work.
Stall(j) ==
  /\ j \in DOMAIN jobs /\ jobs[j].state = "active"
  /\ jobs' = [jobs EXCEPT
        ![j].holder = None,
        ![j].stalls = @ + 1,
        ![j].state = IF jobs[j].stalls < MaxStalls THEN "waiting" ELSE "failed"]
  /\ UNCHANGED <<rows, cardVars, workVars>>

Abandoned(j) ==
  /\ j \in DOMAIN jobs /\ jobs[j].state = "active"
  /\ \A w \in Worker : pc[w] # "idle" /\ job[w] = j => jobs[j].holder # w

HoldsLock(w) ==
  /\ job[w] \in DOMAIN jobs /\ jobs[job[w]].state = "active"
  /\ jobs[job[w]].holder = w

EndTx(w) ==
  /\ seen' = [seen EXCEPT ![w] = <<>>]
  /\ history' = [history EXCEPT ![w] = <<>>]
  /\ todo' = [todo EXCEPT ![w] = <<>>]
  /\ inserted' = [inserted EXCEPT ![w] = {}]
  /\ writes' = [writes EXCEPT ![w] = <<>>]

\* The process() call of w is over; an open transaction is rolled back.
Release(w) ==
  /\ pc' = [pc EXCEPT ![w] = "idle"]
  /\ job' = [job EXCEPT ![w] = NoJob]
  /\ payload' = [payload EXCEPT ![w] = <<>>]
  /\ owned' = [owned EXCEPT ![w] = <<>>]
  /\ EndTx(w)

FailedUnlimited(w, retriable) ==
  /\ jobs' = IF ~HoldsLock(w) THEN jobs
             ELSE [jobs EXCEPT ![job[w]].holder = None,
                               ![job[w]].state = "delayed"]
  /\ Release(w) /\ UNCHANGED dbVars

\* moveToFailed: a retriable error is delayed until the attempts are used up.
\* Without the lock BullMQ refuses the move and the job stays as it is.
Failed(w, retriable) ==
  /\ jobs' = IF ~HoldsLock(w) THEN jobs
             ELSE [jobs EXCEPT
                     ![job[w]].holder = None,
                     ![job[w]].attempts = @ + 1,
                     ![job[w]].state =
                        IF retriable /\ jobs[job[w]].attempts + 1 < MaxAttempts
                        THEN "delayed" ELSE "failed"]
  /\ Release(w) /\ UNCHANGED dbVars

Complete(w) ==
  /\ pc[w] = "ack"
  /\ jobs' = IF HoldsLock(w) THEN Without(jobs, job[w]) ELSE jobs
  /\ Release(w) /\ UNCHANGED dbVars

\* The worker process dies and is restarted (restart: always).
Crash(w) == pc[w] # "idle" /\ Release(w) /\ UNCHANGED <<jobs, dbVars>>

-----------------------------------------------------------------------------
(* process(job), one action per call it awaits.                             *)

Goto(w, label) == pc' = [pc EXCEPT ![w] = label]
Locked(c) == \E w \in Worker : c \in DOMAIN writes[w]
Touched(w) == {owned[w][i].card : i \in DOMAIN owned[w]}

\* One event the API accepted but normalizeEvent cannot read fails the batch.
RejectPayload(w) ==
  /\ pc[w] = "check" /\ ~Valid(payload[w])
  /\ Failed(w, FALSE)

\* Outside the transaction: what it sees may be gone when the latter begins.
CheckOwned(w) ==
  /\ pc[w] = "check" /\ Valid(payload[w])
  /\ LET mine == {i \in DOMAIN payload[w] :
                   MayStudy(Live, job[w].user, NormalizeEvent(payload[w][i]))}
     IN  /\ owned' = [owned EXCEPT
                        ![w] = [i \in mine |-> NormalizeEvent(payload[w][i])]]
         /\ Goto(w, IF mine = {} THEN "ack" ELSE "insert")
  /\ UNCHANGED <<jobs, dbVars, job, payload, txVars>>

InsertEventsAutocommit(w) ==
  /\ pc[w] = "insert"
  /\ rows' = rows \union SkipDuplicates(job[w].user, owned[w], rows)
  /\ Goto(w, "cards")
  /\ UNCHANGED <<jobs, cardVars, job, payload, owned, txVars>>

InsertEventsNoWait(w) ==
  /\ pc[w] = "insert"
  /\ LET visible == rows \union UNION {inserted[v] : v \in Worker}
     IN  inserted' = [inserted EXCEPT
                        ![w] = SkipDuplicates(job[w].user, owned[w], visible)]
  /\ Goto(w, "cards")
  /\ UNCHANGED <<jobs, dbVars, job, payload, owned, seen, history, todo, writes>>

\* ON CONFLICT DO NOTHING waits for a transaction that inserted the same key.
InsertEvents(w) ==
  /\ pc[w] = "insert"
  /\ \A v \in Worker \ {w} : \A i \in DOMAIN owned[w] :
        <<job[w].user, owned[w][i].id>> \notin Keys(inserted[v])
  /\ inserted' = [inserted EXCEPT
                    ![w] = SkipDuplicates(job[w].user, owned[w], rows)]
  /\ Goto(w, "cards")
  /\ UNCHANGED <<jobs, dbVars, job, payload, owned, seen, history, todo, writes>>

ReadCards(w) ==
  /\ pc[w] = "cards"
  /\ seen' = [seen EXCEPT ![w] = [c \in Touched(w) \cap Live |-> level[c]]]
  /\ Goto(w, "history")
  /\ UNCHANGED <<jobs, dbVars, job, payload, owned, history, todo, inserted, writes>>

ReadHistoryBeforeInsert(w) ==
  /\ pc[w] = "history"
  /\ \E s \in NewestFirst({r \in rows :
                              r.user = job[w].user /\ r.card \in Touched(w)}) :
        history' = [history EXCEPT
                      ![w] = Take(s, HistoryLimit * Cardinality(Touched(w)))]
  /\ todo' = [todo EXCEPT ![w] = LockOrder(owned[w])]
  /\ Goto(w, "write")
  /\ UNCHANGED <<jobs, dbVars, job, payload, owned, seen, inserted, writes>>

\* One limit for all cards: the rows of one may crowd out those of another.
ReadHistory(w) ==
  /\ pc[w] = "history"
  /\ \E s \in NewestFirst({r \in rows \union inserted[w] :
                              r.user = job[w].user /\ r.card \in Touched(w)}) :
        history' = [history EXCEPT
                      ![w] = Take(s, HistoryLimit * Cardinality(Touched(w)))]
  /\ todo' = [todo EXCEPT ![w] = LockOrder(owned[w])]
  /\ Goto(w, "write")
  /\ UNCHANGED <<jobs, dbVars, job, payload, owned, seen, inserted, writes>>

\* One turn of the loop over touchedFlashcardIds; the update takes the row's lock.
WriteCard(w) ==
  /\ pc[w] = "write" /\ todo[w] # <<>>
  /\ LET c == Head(todo[w])
     IN  \/ /\ c \in DOMAIN seen[w] /\ c \in Live /\ ~Locked(c)
            /\ LET write == Regrade(seen[w][c], c, Bucket(history[w], c))
               IN  writes' = [writes EXCEPT ![w] = Put(@, c, write)]
         \/ c \notin DOMAIN seen[w] /\ UNCHANGED writes
  /\ todo' = [todo EXCEPT ![w] = Tail(@)]
  /\ UNCHANGED <<jobs, dbVars, pc, job, payload, owned, seen, history, inserted>>

\* The card was deleted after ReadCards: update throws P2025.
CardGone(w) ==
  /\ pc[w] = "write" /\ todo[w] # <<>>
  /\ Head(todo[w]) \in DOMAIN seen[w] \ Live
  /\ Failed(w, TRUE)

Commit(w) ==
  /\ pc[w] = "write" /\ todo[w] = <<>>
  /\ LET new(f, column) ==
           [c \in Card |-> IF c \in DOMAIN writes[w]
                          THEN writes[w][c][column] ELSE f[c]]
     IN  /\ level' = new(level, "level")
         /\ status' = new(status, "status")
         /\ lastCorrect' = new(lastCorrect, "lastCorrect")
         /\ lastWrong' = new(lastWrong, "lastWrong")
  /\ rows' = rows \union inserted[w]
  /\ EndTx(w)
  /\ Goto(w, "ack")
  /\ UNCHANGED <<jobs, cardState, job, payload, owned>>

\* A statement or the commit fails: timeout, lost connection, deadlock victim.
TxFails(w) ==
  /\ \/ pc[w] = "check" /\ Valid(payload[w])
     \/ pc[w] \in {"insert", "cards", "history", "write"}
  /\ Failed(w, TRUE)

-----------------------------------------------------------------------------
(* The API process. Each is one statement on the cards, which waits for the *)
(* locks of an open transaction; its ownership check cannot go stale, since *)
(* a module never changes hands.                                            *)

CreateCard(c, s) ==
  /\ cardState[c] = "unborn"
  /\ cardState' = [cardState EXCEPT ![c] = "live"]
  /\ status' = [status EXCEPT ![c] = s]
  /\ UNCHANGED <<jobs, rows, level, lastCorrect, lastWrong, workVars>>

UpdateCard(c, s) ==
  /\ c \in Live /\ ~Locked(c)
  /\ status' = [status EXCEPT ![c] = s]
  /\ UNCHANGED <<jobs, rows, cardState, level, lastCorrect, lastWrong, workVars>>

RemoveCard(c) ==
  /\ c \in Live /\ ~Locked(c)
  /\ cardState' = [cardState EXCEPT ![c] = "gone"]
  /\ UNCHANGED <<jobs, rows, level, status, lastCorrect, lastWrong, workVars>>

\* Clears the status of a module's cards and leaves their strengthLevel.
ResetProgress(m) ==
  LET cards == {c \in Live : Home[c] = m /\ status[c] # "UNSTUDIED"}
  IN  /\ \A c \in cards : ~Locked(c)
      /\ status' = [c \in Card |-> IF c \in cards THEN "UNSTUDIED" ELSE status[c]]
      /\ UNCHANGED <<jobs, rows, cardState, level, lastCorrect, lastWrong, workVars>>

-----------------------------------------------------------------------------
Process(w) ==
  \/ RejectPayload(w) \/ CheckOwned(w) \/ InsertEvents(w) \/ ReadCards(w)
  \/ ReadHistory(w) \/ WriteCard(w) \/ CardGone(w) \/ Commit(w) \/ Complete(w)

Edit ==
  \/ \E c \in Card, s \in Patched : CreateCard(c, s) \/ UpdateCard(c, s)
  \/ \E c \in Card : RemoveCard(c)
  \/ \E m \in Module : ResetProgress(m)

Queue ==
  \/ \E b \in Accepted : Submit(b)
  \/ \E j \in DOMAIN jobs : Promote(j) \/ Prune(j) \/ Stall(j)
  \/ \E w \in Worker : \E j \in DOMAIN jobs : Fetch(w, j)

Work == \E w \in Worker : Process(w) \/ TxFails(w) \/ Crash(w)

Next == Queue \/ Work \/ Edit

Spec == Init /\ [][Next]_vars

\* The worker process runs and is restarted when it dies; BullMQ hands out the
\* waiting list in order, promotes delayed jobs and sweeps jobs whose lock ran
\* out; PostgreSQL grants a lock to whoever waits longest. Nothing is assumed
\* of clients, of edits, of faults, or of the pruning of failed jobs.
Fairness ==
  /\ \A w \in Worker : SF_vars(Process(w))
  /\ \A j \in JobIds :
        /\ SF_vars(\E w \in Worker : Fetch(w, j))
        /\ WF_vars(Promote(j))
        /\ WF_vars(Abandoned(j) /\ Stall(j))

FairSpec == Spec /\ Fairness

\* A client that goes on submitting its batch, failed jobs that are pruned at
\* last, and an end to faults.
Fault ==
  \/ \E w \in Worker : Crash(w) \/ TxFails(w)
  \/ \E j \in DOMAIN jobs : ~Abandoned(j) /\ Stall(j)

Patience ==
  /\ \A b \in Accepted : SF_vars(Submit(b))
  /\ \A j \in JobIds : WF_vars(Prune(j))
  /\ <>[][~Fault]_vars

-----------------------------------------------------------------------------
(* Properties.                                                              *)

Job == [state : {"waiting", "active", "delayed", "failed"}, body : Accepted,
        attempts : 0 .. MaxAttempts, stalls : 0 .. MaxStalls + 1,
        holder : Worker \union {None}]
Labels == {"idle", "check", "insert", "cards", "history", "write", "ack"}
Event == [id : EventId, card : Card, module : Module, at : Time, mode : Mode,
          correct : BOOLEAN]
Columns == [level : Level, status : Status, lastCorrect : Nat, lastWrong : Nat]
IsPartial(f, S, T) == DOMAIN f \subseteq S /\ f \in [DOMAIN f -> T]

\* Every variable keeps its type; a job that may still run has attempts and
\* stalls left, and a worker commits only levels and times of their range.
TypeOK ==
  /\ IsPartial(jobs, JobIds, Job)
  /\ \A j \in DOMAIN jobs : jobs[j].state # "failed" =>
        jobs[j].attempts < MaxAttempts /\ jobs[j].stalls <= MaxStalls
  /\ rows \subseteq Row
  /\ cardState \in [Card -> {"unborn", "live", "gone"}]
  /\ level \in [Card -> Level] /\ status \in [Card -> Status]
  /\ lastCorrect \in [Card -> Nat] /\ lastWrong \in [Card -> Nat]
  /\ pc \in [Worker -> Labels]
  /\ job \in [Worker -> JobIds \union {NoJob}]
  /\ payload \in [Worker -> Seq(RawEvent)]
  /\ DOMAIN owned = Worker /\ DOMAIN seen = Worker /\ DOMAIN writes = Worker
  /\ \A w \in Worker : /\ IsPartial(owned[w], 1 .. MaxBatch, Event)
                       /\ IsPartial(seen[w], Card, Level)
                       /\ IsPartial(writes[w], Card, Columns)
  /\ history \in [Worker -> Seq(Row)]
  /\ inserted \in [Worker -> SUBSET Row]

\* A card's level is the fold of its stored answers from its baseline, up to
\* the order of answers given at the same time: however often a batch was
\* delivered, retried or cut short, each answer counted once and with its rows
\* (createMany and the card updates commit together, strengthLevel is
\* recomputed and not incremented). One worker, histories within HISTORY_LIMIT.
LevelMatchesHistory ==
  \A c \in Live :
    LET folds == {FoldStrength(s, Baseline[c]) : s \in NewestFirst(Graded(rows, c))}
    IN  (\E n \in folds : n <= level[c]) /\ (\E n \in folds : level[c] <= n)

\* lastCorrectAt and lastWrongAt are the times of the latest stored answers,
\* though batches are applied out of order. Same conditions.
LastTimesMatchHistory ==
  \A c \in Live :
    LET times(correct) == {r.at : r \in {r \in Graded(rows, c) : r.correct = correct}}
    IN  \A x \in {<<TRUE, lastCorrect[c]>>, <<FALSE, lastWrong[c]>>} :
          IF times(x[1]) = {} THEN x[2] = NoTime
          ELSE x[2] \in times(x[1]) /\ \A t \in times(x[1]) : t <= x[2]

\* A study batch never costs the user a level, though the history window
\* forgets old answers and ties may be read in another order next time.
\* One worker.
LevelNeverFalls ==
  [][\A c \in Card : level'[c] >= level[c]]_vars

\* However many handlers run at once and overwrite each other's levels, a level
\* lies between the baseline, the floor the fold starts from (migration
\* 20260917120000), and what the stored answers earn: a concurrent handler may
\* lose a level until the card is answered again but never invents one.
LevelNeverInflated ==
  \A c \in Live :
    /\ level[c] >= Baseline[c]
    /\ \E s \in NewestFirst(Graded(rows, c)) :
          level[c] <= FoldStrength(s, Baseline[c])

\* A job leaves the queue as done only when each of its events is stored, or
\* belongs to a card that is deleted or not the user's: no crash, stall or
\* redelivery to another worker makes BullMQ drop answers.
DoneMeansRecorded ==
  [][\A j \in DOMAIN jobs \ DOMAIN jobs' :
        jobs[j].state = "active" => Recorded(rows, Live, jobs[j].body)]_vars

\* @@unique([userId, clientEventId]) seen from the worker: skipDuplicates keeps
\* the first version of an event, also when two transactions insert it at once.
StoredOnce ==
  \A r, s \in rows : r.user = s.user /\ r.id = s.id => r = s

\* No set of workers waits for each other's card locks: the loop takes them in
\* the order of touchedFlashcardIds.sort().
WaitsFor(w, v) ==
  pc[w] = "write" /\ todo[w] # <<>> /\ Head(todo[w]) \in DOMAIN writes[v]

NoLockCycle ==
  \A S \in (SUBSET Worker) \ {{}} : \E w \in S : \A v \in S : ~WaitsFor(w, v)

\* A queued batch ends up recorded or as a failed job, whatever crashes, stalls
\* and faults happen on the way: attempts and stalls are bounded and a
\* delivery that meets no fault ends.
BatchSettles ==
  \A b \in Accepted :
    (JobId(b) \in DOMAIN jobs /\ jobs[JobId(b)].body = b)
      ~> \/ Recorded(rows, Live, b)
         \/ JobId(b) \in DOMAIN jobs /\ jobs[JobId(b)].state = "failed"

\* Resubmitting is safe and enough: given Patience, a batch that can be read is
\* recorded in the end. A failed job stands in the way of it until pruned.
ResubmittedRecorded ==
  Patience => \A b \in Accepted : Valid(b.events) => <>Recorded(rows, Live, b)

\* One worker, within HISTORY_LIMIT: deliveries, retries, crashes and partial
\* work look like whole batches learnt in one step, levels and rows together.
Ledger ==
  INSTANCE StudyLedger WITH
    rows <- rows, cardState <- cardState, level <- level, status <- status,
    lastCorrect <- lastCorrect, lastWrong <- lastWrong
ImplementsLedger == Ledger!Spec
=============================================================================
