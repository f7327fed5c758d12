----------------------------- MODULE JobStorage -----------------------------
(***************************************************************************)
(* What the broker keeps on disk while it delivers jobs: the write buffer  *)
(* in front of the jobs table, the lifecycle writes of every operation on  *)
(* a job, the dead-letter table, and the recovery of a restarted process.  *)
(*                                                                         *)
(* SQLite is synchronous: an operation changes memory and issues its       *)
(* writes in one turn, so one action is one operation.  The exception is a *)
(* job that is buried by two transactions, its DLQ row first and then the  *)
(* removal of its jobs row: a crash may fall between them, and "unlinking" *)
(* is the job they are about.                                              *)
(*                                                                         *)
(* Waiting, prioritized and delayed are one state here, as they are for    *)
(* recovery.  How operations interleave in memory is module JobDelivery.   *)
(***************************************************************************)
EXTENDS Naturals, FiniteSets

CONSTANTS
    Jobs,
    BufferSize,     \* pending inserts at which an admission flushes
    MaxRetries,     \* consecutive failed flushes before the buffer is dropped
    Settings        \* configurations of jobs and queue, and what may go wrong

Hazards == {"crash", "flush", "write", "torn"}

\* stops is a bound: how often the process ends.
ASSUME SettingsAssumption ==
    Settings \subseteq [attempts : Nat \ {0}, stalls : Nat \ {0}, stops : Nat,
                        hazards : SUBSET Hazards]
ASSUME BufferAssumption == BufferSize \in Nat \ {0} /\ MaxRetries \in Nat \ {0}
ASSUME JobsAssumption == IsFiniteSet(Jobs)

VARIABLES
    setting,        \* the one that is in force
    up,             \* the process: "up", "recovering" or "down"
    stops,          \* how often it has ended
    queued,         \* jobs in the priority queue
    processing,     \* jobs in the processing map
    jobIndex,       \* where the index says each job is
    object,         \* the counters of each job object
    memDlq,         \* DLQ entries of each job in memory
    store,          \* the write buffer and the database
    unlinking,      \* the job whose DLQ row is written, its row not yet removed
    admitted,       \* history: jobs ever admitted
    durable,        \* history: admissions acknowledged as durable, not removed
    runs,           \* history: deliveries of each job that were not given back
    finished        \* history: jobs acknowledged as completed

memory == <<queued, processing, jobIndex, object, memDlq>>
histories == <<admitted, durable, runs, finished>>
MaxAttempts == setting.attempts
MaxStalls == setting.stalls
MaxStops == setting.stops
May(hazard) == hazard \in setting.hazards
broker == <<up, stops, memory, store, unlinking, histories>>
vars == <<setting, broker>>

-----------------------------------------------------------------------------
(***************************************************************************)
(* The store.  Its operators take a store to the set of stores that the    *)
(* call may leave behind: more than one where a write can fail.            *)
(***************************************************************************)

NoRow == [state |-> "none", attempts |-> 0, stalls |-> 0]
NewObject == [attempts |-> 0, stalls |-> 0]
RowStates == {"waiting", "active", "completed"}

\* mark: the state that setPendingState has noted for the buffered object;
\* a job that has none has not been pulled since its admission.
EmptyBuffer(s) == [s EXCEPT !.pending = {}, !.retries = 0, !.backoff = FALSE]
RowOf(s, obj, j) ==
    [state |-> IF s.mark[j] = "none" THEN "waiting" ELSE s.mark[j],
     attempts |-> obj[j].attempts, stalls |-> obj[j].stalls]
Insert(s, obj, W) ==
    [s EXCEPT !.rows = [j \in Jobs |-> IF j \in W THEN RowOf(s, obj, j) ELSE @[j]]]
Bury(s, W) == [s EXCEPT !.dlq = [j \in Jobs |-> IF j \in W THEN @[j] + 1 ELSE @[j]]]

\* After the last attempt the whole buffer goes to handleCriticalLoss, which
\* reports it and tries to leave a DLQ row for each job of it.
Dropped(s, W) ==
    {[EmptyBuffer(Bury(s, saved)) EXCEPT !.lost = @ \cup W] :
        saved \in IF May("write") THEN SUBSET W ELSE {W}}

\* Mutant of AfterInsert: rows that failed are not put back.
AfterInsertForgetting(s, failed) ==
    IF failed # {} /\ s.retries + 1 >= MaxRetries THEN Dropped(s, failed)
    ELSE {EmptyBuffer(s)}

\* Mutant of AfterInsert: the count starts again and the buffer stays.
AfterInsertPatient(s, failed) ==
    IF failed = {} THEN {EmptyBuffer(s)}
    ELSE {[s EXCEPT !.pending = failed, !.retries = (@ + 1) % MaxRetries, !.backoff = TRUE]}

\* The multi-row insert, then row by row what it could not do as a whole.
AfterInsert(s, failed) ==
    IF failed = {} THEN {EmptyBuffer(s)}
    ELSE IF s.retries + 1 >= MaxRetries THEN Dropped(s, failed)
    ELSE {[s EXCEPT !.pending = failed, !.retries = @ + 1, !.backoff = TRUE]}
Flush(s, obj) ==
    UNION {AfterInsert(Insert(s, obj, s.pending \ failed), failed) :
        failed \in IF May("flush") THEN SUBSET s.pending ELSE {{}}}
FlushIfReady(s, obj) == IF s.backoff \/ s.pending = {} THEN {s} ELSE Flush(s, obj)
FlushIfBuffered(s, obj, j) == IF j \in s.pending THEN FlushIfReady(s, obj) ELSE {s}

SetPendingState(s, j, state) == IF j \in s.pending THEN [s EXCEPT !.mark[j] = state] ELSE s
RemovePending(s, j) ==
    IF s.pending \subseteq {j} THEN EmptyBuffer(s) ELSE [s EXCEPT !.pending = @ \ {j}]

\* safeWrite: the statement or transaction happens, or throws and changes nothing.
Tried(s, t) == IF May("write") THEN {s, t} ELSE {t}
UpdateRow(s, j, row) == IF s.rows[j] = NoRow THEN s ELSE [s EXCEPT !.rows[j] = row]
SetState(s, j, state) == UpdateRow(s, j, [s.rows[j] EXCEPT !.state = state])
DeleteRow(s, j) == [s EXCEPT !.rows[j] = NoRow]

\* Mutant of MarkState: the buffered object is not marked.
MarkRowOnly(s, obj, j, state) ==
    UNION {Tried(f, SetState(f, j, state)) : f \in FlushIfBuffered(s, obj, j)}

\* markActive, markCompleted, updateRunAt
MarkState(s, obj, j, state) ==
    UNION {Tried(f, SetState(f, j, state)) :
        f \in FlushIfBuffered(SetPendingState(s, j, state), obj, j)}

\* Mutant of UpdateForRetry: the row's state alone is written.
UpdateStateForRetry(s, obj, j) ==
    LET t == SetPendingState(s, j, "waiting") IN Tried(t, SetState(t, j, "waiting"))
UpdateForRetry(s, obj, j) ==
    LET t == SetPendingState(s, j, "waiting") IN
    Tried(t, UpdateRow(t, j, [state |-> "waiting", attempts |-> obj[j].attempts,
                              stalls |-> obj[j].stalls]))
DeleteJob(s, j) == LET t == RemovePending(s, j) IN Tried(t, DeleteRow(t, j))
CommitFailedJob(s, j, entries) ==
    LET t == RemovePending(s, j) IN Tried(t, DeleteRow(Bury(t, entries), j))
RequeueDlqJob(s, j) ==
    [s EXCEPT !.dlq[j] = 0, !.mark[j] = "none", !.rows[j] = [NoRow EXCEPT !.state = "waiting"]]

-----------------------------------------------------------------------------
(***************************************************************************)
(* Operations of a running process.                                        *)
(***************************************************************************)

Running == up = "up" /\ unlinking = {}
StillUp == UNCHANGED <<up, stops>>
Place(q, p, j, where) ==
    /\ queued' = q
    /\ processing' = p
    /\ jobIndex' = [jobIndex EXCEPT ![j] = where]

\* A buffered admission: one job, or a batch whose flush is deferred to its
\* end.  The buffer takes the jobs before memory shows them.
Push(S) ==
    /\ Running
    /\ S # {} /\ S \cap admitted = {}
    /\ LET s == [store EXCEPT !.pending = @ \cup S] IN
       store' \in IF Cardinality(s.pending) >= BufferSize THEN FlushIfReady(s, object) ELSE {s}
    /\ admitted' = admitted \cup S
    /\ queued' = queued \cup S
    /\ jobIndex' = [j \in Jobs |-> IF j \in S THEN "queue" ELSE jobIndex[j]]
    /\ UNCHANGED <<processing, object, memDlq, unlinking, durable, runs, finished>> /\ StillUp

\* A durable admission is on disk before memory shows it; if the write throws
\* the caller gets the error and nothing is admitted.
PushDurable(j) ==
    /\ Running /\ j \notin admitted
    /\ store' = Insert(store, object, {j})
    /\ admitted' = admitted \cup {j}
    /\ durable' = durable \cup {j}
    /\ Place(queued \cup {j}, processing, j, "queue")
    /\ UNCHANGED <<object, memDlq, unlinking, runs, finished>> /\ StillUp

\* persistActive swallows its failures: memory stays authoritative.
Pull(j) ==
    /\ Running /\ j \in queued
    /\ Place(queued \ {j}, processing \cup {j}, j, "processing")
    /\ runs' = [runs EXCEPT ![j] = @ + 1]
    /\ store' \in MarkState(store, object, j, "active")
    /\ UNCHANGED <<object, memDlq, unlinking, admitted, durable, finished>> /\ StillUp

\* A result is stored before the index changes: if that throws, the index still
\* says "processing", although the claim is gone.
Ack(j) ==
    /\ Running /\ j \in processing
    /\ \/ /\ Place(queued, processing \ {j}, j, "completed")
          /\ finished' = finished \cup {j}
          /\ store' \in MarkState(store, object, j, "completed")
       \/ /\ May("write")
          /\ Place(queued, processing \ {j}, j, "processing")
          /\ UNCHANGED <<finished, store>>
    /\ UNCHANGED <<object, memDlq, unlinking, admitted, durable, runs>> /\ StillUp

\* removeOnComplete: the buffered insert goes first, then one transaction
AckRemove(j) ==
    /\ Running /\ j \in processing
    /\ \/ /\ store' = DeleteRow(RemovePending(store, j), j)
          /\ Place(queued, processing \ {j}, j, "none")
          /\ finished' = finished \cup {j}
          /\ durable' = durable \ {j}
       \/ /\ May("write")
          /\ store' = RemovePending(store, j)
          /\ Place(queued, processing \ {j}, j, "processing")
          /\ UNCHANGED <<finished, durable>>
    /\ UNCHANGED <<object, memDlq, unlinking, admitted, runs>> /\ StillUp

\* failJob: back to the queue; or buried, which an unrecoverable error does
\* before the budget is spent; or removed, when the job asks for that.
Fail(j) ==
    /\ Running /\ j \in processing
    /\ object' = [object EXCEPT ![j].attempts = @ + 1]
    /\ \/ /\ object'[j].attempts < MaxAttempts
          /\ Place(queued \cup {j}, processing \ {j}, j, "queue")
          /\ store' \in UpdateForRetry(store, object', j)
          /\ UNCHANGED <<memDlq, durable>>
       \/ /\ Place(queued, processing \ {j}, j, "dlq")
          /\ memDlq' = [memDlq EXCEPT ![j] = @ + 1]
          /\ store' \in CommitFailedJob(store, j, {j})
          /\ UNCHANGED durable
       \/ /\ Place(queued, processing \ {j}, j, "none")
          /\ store' \in CommitFailedJob(store, j, {})
          /\ durable' = durable \ {j}
          /\ UNCHANGED memDlq
    /\ UNCHANGED <<unlinking, admitted, runs, finished>> /\ StillUp

\* Mutant of BeginUnlink: the row is removed before the DLQ row is written.
RemoveRowFirst(j) ==
    /\ store' \in Tried(store, DeleteRow(store, j))
    /\ unlinking' = IF store' = store THEN {} ELSE {j}

\* The first of the two transactions of a burial; if it throws, the second is
\* not attempted.
BeginUnlink(j) ==
    /\ store' \in Tried(store, Bury(store, {j}))
    /\ unlinking' = IF store' = store THEN {} ELSE {j}

\* handleStalledJob, and the expiry of a lease, which counts and writes alike
Stall(j) ==
    /\ Running /\ j \in processing
    /\ object' = [object EXCEPT ![j] = [attempts |-> @.attempts + 1, stalls |-> @.stalls + 1]]
    /\ LET exhausted == object'[j].attempts >= MaxAttempts \/ object'[j].stalls >= MaxStalls IN
       \/ /\ ~exhausted
          /\ Place(queued \cup {j}, processing \ {j}, j, "queue")
          /\ store' \in UpdateForRetry(store, object', j)
          /\ UNCHANGED <<memDlq, unlinking>>
       \/ /\ exhausted
          /\ Place(queued, processing \ {j}, j, "dlq")
          /\ memDlq' = [memDlq EXCEPT ![j] = @ + 1]
          /\ BeginUnlink(j)
    /\ UNCHANGED histories /\ StillUp

Discard(j) ==
    /\ Running
    /\ \/ jobIndex[j] = "queue" /\ j \in queued
       \/ jobIndex[j] = "processing" /\ j \in processing
    /\ Place(queued \ {j}, processing \ {j}, j, "dlq")
    /\ memDlq' = [memDlq EXCEPT ![j] = @ + 1]
    /\ BeginUnlink(j)
    /\ UNCHANGED <<object, histories>> /\ StillUp

\* hazard "torn": a waiting job is caught between its two transactions.
Torn(j) == store.rows[j].state = "waiting"

FinishUnlink(j) ==
    /\ up = "up" /\ j \in unlinking
    /\ store' \in DeleteJob(store, j)
    /\ Torn(j) /\ ~May("torn") => store'.rows[j] = NoRow
    /\ unlinking' = {}
    /\ UNCHANGED <<memory, histories>> /\ StillUp

Cancel(j) ==
    /\ Running /\ jobIndex[j] = "queue" /\ j \in queued
    /\ Place(queued \ {j}, processing, j, "none")
    /\ store' \in DeleteJob(store, j)
    /\ durable' = durable \ {j}
    /\ UNCHANGED <<object, memDlq, unlinking, admitted, runs, finished>> /\ StillUp

\* The run is given back: it does not count against the budget.
MoveActiveToWait(j) ==
    /\ Running /\ j \in processing
    /\ Place(queued \cup {j}, processing \ {j}, j, "queue")
    /\ runs' = [runs EXCEPT ![j] = @ - 1]
    /\ store' \in MarkState(store, object, j, "waiting")
    /\ UNCHANGED <<object, memDlq, unlinking, admitted, durable, finished>> /\ StillUp

-----------------------------------------------------------------------------
(***************************************************************************)
(* The dead-letter queue and completed jobs.  Memory changes only after    *)
(* the transaction, so a failed one is the removal from the buffer alone.  *)
(***************************************************************************)

\* The counters a retried job starts with; the runs and the end of its former
\* life do not count against the new one.
StartOver(j, obj) ==
    /\ Place(queued \cup {j}, processing, j, "queue")
    /\ object' = [object EXCEPT ![j] = obj]
    /\ runs' = [runs EXCEPT ![j] = 0]
    /\ finished' = finished \ {j}
    /\ UNCHANGED <<admitted, durable>>

\* retryEntry removes one entry from memory and every row from the table.
RetryDlq(j) ==
    /\ Running /\ jobIndex[j] = "dlq" /\ memDlq[j] > 0
    /\ \/ /\ store' = RequeueDlqJob(RemovePending(store, j), j)
          /\ memDlq' = [memDlq EXCEPT ![j] = @ - 1]
          /\ StartOver(j, NewObject)
       \/ /\ May("write")
          /\ store' = RemovePending(store, j)
          /\ UNCHANGED <<memory, histories>>
    /\ UNCHANGED unlinking /\ StillUp

\* removeDlqJob; the jobs row goes too unless a live generation owns the id.
RemoveDlq(j) ==
    /\ Running /\ memDlq[j] > 0
    /\ LET terminal == jobIndex[j] \in {"none", "dlq"}
           s == IF terminal THEN RemovePending(store, j) ELSE store
           t == [s EXCEPT !.dlq[j] = 0, !.rows[j] = IF terminal THEN NoRow ELSE @] IN
       \/ /\ May("write")
          /\ store' = s
          /\ UNCHANGED <<memory, histories>>
       \/ /\ store' = t
          /\ memDlq' = [memDlq EXCEPT ![j] = 0]
          /\ jobIndex' = [jobIndex EXCEPT ![j] = IF terminal THEN "none" ELSE @]
          /\ durable' = durable \ {j}
          /\ UNCHANGED <<queued, processing, object, admitted, runs, finished>>
    /\ UNCHANGED unlinking /\ StillUp

\* requeueCompletedJob reads the row and updates it on condition that it is
\* still completed: a job that is not on disk cannot be retried.
RetryCompleted(j) ==
    /\ Running /\ jobIndex[j] \in {"completed", "none"}
    /\ store.rows[j].state = "completed"
    /\ \E s \in FlushIfBuffered(store, object, j) :
         \/ /\ store' = [s EXCEPT !.rows[j].state = "waiting", !.rows[j].attempts = 0,
                                  !.mark[j] = "none"]
            /\ StartOver(j, [attempts |-> 0, stalls |-> s.rows[j].stalls])
            /\ UNCHANGED memDlq
         \/ /\ May("write")
            /\ store' = s
            /\ UNCHANGED <<memory, histories>>
    /\ UNCHANGED unlinking /\ StillUp

-----------------------------------------------------------------------------
(***************************************************************************)
(* The timers of the write buffer, and the end of the process.             *)
(***************************************************************************)

OnlyStore == UNCHANGED <<memory, unlinking, histories>> /\ StillUp

\* The interval does nothing while a backoff timer is armed.
Tick ==
    /\ Running /\ store.pending # {} /\ ~store.backoff
    /\ store' \in Flush(store, object)
    /\ OnlyStore

BackoffFires ==
    /\ Running /\ store.backoff
    /\ store' \in Flush([store EXCEPT !.backoff = FALSE], object)
    /\ OnlyStore

\* A backup flushes without asking for the backoff timer.
FlushWriteBuffer ==
    /\ Running /\ store.pending # {}
    /\ store' \in Flush(store, object)
    /\ OnlyStore

\* What a process that has ended leaves behind is what is on disk.
Forget(s) ==
    /\ up' = "down"
    /\ stops' = stops + 1
    /\ queued' = {} /\ processing' = {}
    /\ jobIndex' = [j \in Jobs |-> "none"]
    /\ object' = [j \in Jobs |-> NewObject]
    /\ memDlq' = [j \in Jobs |-> 0]
    /\ unlinking' = {}
    /\ store' = [EmptyBuffer(s) EXCEPT !.mark = [j \in Jobs |-> "none"]]
    /\ UNCHANGED histories

\* stop(): one last flush; what it could not write is reported and lost.
Close ==
    /\ Running /\ stops < MaxStops
    /\ \E f \in IF store.pending = {} THEN {store} ELSE Flush(store, object) :
         \E s \in Dropped(f, f.pending) : Forget(s)

Crash ==
    /\ May("crash")
    /\ up # "down" /\ stops < MaxStops
    /\ May("torn") \/ \A j \in unlinking : ~Torn(j)
    /\ Forget(store)

-----------------------------------------------------------------------------
(***************************************************************************)
(* Recovery: rows that were active are taken back one by one, then memory  *)
(* is filled from the tables.                                              *)
(***************************************************************************)

Start == /\ up = "down"
         /\ up' = "recovering"
         /\ UNCHANGED <<stops, memory, store, unlinking, histories>>

\* A write that throws aborts the start of the process.
Recovered(s, t) ==
    \/ /\ store' = t
       /\ UNCHANGED <<up, stops>>
    \/ /\ May("write") /\ stops < MaxStops
       /\ store' = s
       /\ up' = "down" /\ stops' = stops + 1

\* Mutant of Counted: the attempt is not counted.
CountedAsStall(row) == [state |-> "waiting", attempts |-> row.attempts, stalls |-> row.stalls + 1]

\* An interrupted run counts as a stall.
Counted(row) == [state |-> "waiting", attempts |-> row.attempts + 1, stalls |-> row.stalls + 1]
Exhausted(row) == row.attempts >= MaxAttempts \/ row.stalls >= MaxStalls

RecoverActive(j) ==
    /\ up = "recovering" /\ unlinking = {}
    /\ store.rows[j].state = "active"
    /\ LET row == Counted(store.rows[j]) IN
       \/ /\ store.dlq[j] > 0
          /\ Recovered(store, DeleteRow(store, j))
          /\ UNCHANGED unlinking
       \/ /\ store.dlq[j] = 0 /\ Exhausted(row)
          /\ Recovered(store, Bury(store, {j}))
          /\ unlinking' = IF up' = "down" THEN {} ELSE {j}
       \/ /\ store.dlq[j] = 0 /\ ~Exhausted(row)
          /\ Recovered(store, UpdateRow(store, j, row))
          /\ UNCHANGED unlinking
    /\ UNCHANGED <<memory, histories>>

RecoverUnlink(j) ==
    /\ up = "recovering" /\ j \in unlinking
    /\ Recovered(store, DeleteRow(store, j))
    /\ unlinking' = {}
    /\ UNCHANGED <<memory, histories>>

\* Pending rows become runnable, whatever the dead-letter table holds; the
\* index is overwritten by the later passes.
RecoveredIndex(j) ==
    CASE store.rows[j].state = "completed" -> "completed"
      [] store.rows[j].state # "completed" /\ store.dlq[j] > 0 -> "dlq"
      [] store.rows[j].state = "waiting" /\ store.dlq[j] = 0 -> "queue"
      [] OTHER -> "none"

RecoverRest ==
    /\ up = "recovering" /\ unlinking = {}
    /\ \A j \in Jobs : store.rows[j].state # "active"
    /\ queued' = {j \in Jobs : store.rows[j].state = "waiting"}
    /\ jobIndex' = [j \in Jobs |-> RecoveredIndex(j)]
    /\ object' = [j \in Jobs |-> [attempts |-> store.rows[j].attempts,
                                   stalls |-> store.rows[j].stalls]]
    /\ memDlq' = store.dlq
    /\ up' = "up"
    /\ UNCHANGED <<stops, processing, store, unlinking, histories>>

-----------------------------------------------------------------------------
Init ==
    /\ setting \in Settings
    /\ up = "up" /\ stops = 0
    /\ queued = {} /\ processing = {}
    /\ jobIndex = [j \in Jobs |-> "none"]
    /\ object = [j \in Jobs |-> NewObject]
    /\ memDlq = [j \in Jobs |-> 0]
    /\ store = [pending |-> {}, mark |-> [j \in Jobs |-> "none"], retries |-> 0,
                backoff |-> FALSE, rows |-> [j \in Jobs |-> NoRow],
                dlq |-> [j \in Jobs |-> 0], lost |-> {}]
    /\ unlinking = {}
    /\ admitted = {} /\ durable = {}
    /\ runs = [j \in Jobs |-> 0]
    /\ finished = {}

Operations ==
    \/ \E S \in SUBSET Jobs : Push(S)
    \/ \E j \in Jobs :
         \/ PushDurable(j) \/ Pull(j) \/ Ack(j) \/ AckRemove(j) \/ Fail(j)
         \/ Stall(j) \/ Discard(j) \/ FinishUnlink(j) \/ Cancel(j) \/ MoveActiveToWait(j)
         \/ RetryDlq(j) \/ RemoveDlq(j) \/ RetryCompleted(j)
         \/ RecoverActive(j) \/ RecoverUnlink(j)
    \/ Tick \/ BackoffFires \/ FlushWriteBuffer
    \/ Close \/ Crash \/ Start \/ RecoverRest

Next == Operations /\ UNCHANGED setting

\* A call ends, and a timer that is due runs when the call of the moment has
\* ended, however many calls there are: the event loop has a phase for timers.
Fairness ==
    /\ WF_broker(\E j \in Jobs : FinishUnlink(j))
    /\ SF_broker(Tick) /\ SF_broker(BackoffFires)
Spec == Init /\ [][Next]_vars
FairSpec == Spec /\ Fairness

-----------------------------------------------------------------------------
(***************************************************************************)
(* Properties.                                                             *)
(***************************************************************************)

Rows == [state : RowStates \cup {"none"}, attempts : Nat, stalls : Nat]
TypeOK ==
    /\ setting \in Settings
    /\ up \in {"up", "recovering", "down"} /\ stops \in 0..MaxStops
    /\ queued \subseteq Jobs /\ processing \subseteq Jobs
    /\ jobIndex \in [Jobs -> {"none", "queue", "processing", "completed", "dlq"}]
    /\ object \in [Jobs -> [attempts : Nat, stalls : Nat]]
    /\ memDlq \in [Jobs -> Nat]
    /\ store \in [pending : SUBSET Jobs, mark : [Jobs -> RowStates \cup {"none"}],
                  retries : 0..(MaxRetries - 1), backoff : BOOLEAN, rows : [Jobs -> Rows],
                  dlq : [Jobs -> Nat], lost : SUBSET Jobs]
    /\ unlinking \subseteq Jobs
    /\ admitted \subseteq Jobs /\ durable \subseteq Jobs /\ finished \subseteq Jobs
    /\ runs \in [Jobs -> Nat]

\* The state memory gives a job, in the words of the table.
MemoryState(j) ==
    IF j \in queued THEN "waiting"
    ELSE IF j \in processing THEN "active"
    ELSE IF jobIndex[j] = "completed" THEN "completed" ELSE "none"

\* While no statement on an existing row fails, whatever happens to the flushes
\* of the buffer, the tables say of every job that has left the buffer what
\* memory says: its state, its counters and its DLQ entry.  The exception is a
\* discarded waiting job whose two transactions a crash has separated: recovery
\* of pending rows does not look at the dead-letter table.
DiskMirrorsMemory ==
    /\ TypeOK
    /\ up = "up" /\ ~May("write") /\ ~May("torn") =>
        \A j \in Jobs \ (store.pending \cup store.lost \cup unlinking) :
            /\ store.rows[j].state = MemoryState(j)
            /\ MemoryState(j) \in {"waiting", "active"} =>
                  /\ store.rows[j].attempts = object[j].attempts
                  /\ store.rows[j].stalls = object[j].stalls
            /\ store.dlq[j] = memDlq[j]

\* However often the process dies, no job is delivered more often than its
\* attempts allow, unless the writes fail that count the attempts.
RunBudget == ~May("write") => \A j \in Jobs : runs[j] <= MaxAttempts

\* A job acknowledged as durable is on disk, alive or buried, until somebody
\* removes it: whatever fails and whenever the process dies.
DurableSurvives ==
    \A j \in durable : store.rows[j] # NoRow \/ store.dlq[j] > 0

\* A job that was completed is never delivered again unless it is retried, or
\* unless the write that would have said so has failed.
FinishedNeverRuns == ~May("write") => finished \cap (queued \cup processing) = {}

\* A job that can still run is in the buffer or on disk, or has been reported
\* as lost: no failed flush forgets a job in silence.  A job that is waiting in
\* both tables after a torn discard can lose its row to removeDlqJob.
NothingSilentlyLost ==
    ~May("torn") => \A j \in queued \cup processing :
        j \in store.pending \cup store.lost \/ store.rows[j] # NoRow

\* A job does not stay in the buffer for ever: it is written, removed or
\* reported, whatever the disk does.
BufferDrains == \A j \in Jobs : j \in store.pending ~> j \notin store.pending
=============================================================================
