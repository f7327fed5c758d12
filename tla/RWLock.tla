------------------------------- MODULE RWLock -------------------------------
(***************************************************************************)
(* The readers/writer lock of src/shared/rwLock.ts: writer priority, FIFO  *)
(* handoff among writers, timeouts, and lazy deletion of the waiters that  *)
(* timed out (they stay in their queue, marked settled, until a grant      *)
(* skips them).                                                            *)
(*                                                                         *)
(* JavaScript runs each handler to completion, so a call of acquireRead or *)
(* acquireWrite, a timer callback and a call of a guard's release are one  *)
(* action each, and the drain() at the end of a handler is part of it.     *)
(*                                                                         *)
(* A task is a caller: it makes one acquisition at a time.  promise[t] is  *)
(* what its latest acquisition returned: still "pending", "rejected" with  *)
(* a LockTimeoutError, resolved with a "read" or "write" guard that it has *)
(* not released, or with a guard it has "released".                        *)
(***************************************************************************)
EXTENDS Naturals, Sequences, FiniteSets

CONSTANTS
    Tasks,      \* the callers of the lock
    MaxQueue    \* bound: entries, settled ones included, of a waiter queue

ASSUME TasksAssumption == IsFiniteSet(Tasks)
ASSUME MaxQueueAssumption == MaxQueue \in Nat

VARIABLES
    readers,        \* number of read guards that are out
    writer,         \* a write guard is out
    writerWaiting,  \* number of writers that wait
    readerQueue,    \* waiters, oldest first
    writerQueue,
    promise         \* what each task's latest acquisition returned

counters == <<readers, writer, writerWaiting>>
queues == <<readerQueue, writerQueue>>
vars == <<readers, writer, writerWaiting, readerQueue, writerQueue, promise>>

Promises == {"none", "pending", "rejected", "read", "write", "released"}
Waiters == [task : Tasks, settled : BOOLEAN]

Waiter(t) == [task |-> t, settled |-> FALSE]

\* The tasks that really wait in a queue: those with an unsettled entry.
Live(q) == {q[i].task : i \in {j \in DOMAIN q : ~q[j].settled}}

\* A waiter's timer marks its entry settled and leaves it in the queue.
Settle(q, t) ==
    [i \in DOMAIN q |-> IF q[i].task = t THEN [q[i] EXCEPT !.settled = TRUE]
                                         ELSE q[i]]

\* takeWriter: the oldest entry that is not settled, and what is left of the
\* queue when it and the settled entries before it have been shifted out.
\* Mutant of IsHead: the newest writer first.
IsNewest(q, i) == ~q[i].settled /\ \A j \in i + 1 .. Len(q) : q[j].settled
IsHead(q, i) == ~q[i].settled /\ \A j \in 1 .. i - 1 : q[j].settled
Rest(q, i) == SubSeq(q, i + 1, Len(q))

Init ==
    /\ readers = 0
    /\ writer = FALSE
    /\ writerWaiting = 0
    /\ readerQueue = <<>>
    /\ writerQueue = <<>>
    /\ promise = [t \in Tasks |-> "none"]

-----------------------------------------------------------------------------
(***************************************************************************)
(* drain(), run on the state (r, w, ww, rq, wq, p) that the handler has    *)
(* produced so far: nothing to do, hand the lock to the oldest writer, or  *)
(* admit every waiting reader.                                             *)
(***************************************************************************)

\* Mutant of Blocked: readers do not keep a writer out.
BlockedByWriter(r, w, ww) == w
Blocked(r, w, ww) == w \/ (ww > 0 /\ r > 0)

KeepWaiting(r, w, ww, rq, wq, p) ==
    /\ Blocked(r, w, ww)
    /\ readers' = r
    /\ writer' = w
    /\ writerWaiting' = ww
    /\ readerQueue' = rq
    /\ writerQueue' = wq
    /\ promise' = p

GrantWriter(r, w, ww, rq, wq, p) ==
    /\ ~Blocked(r, w, ww)
    /\ ww > 0
    /\ \E i \in DOMAIN wq :
         /\ IsHead(wq, i)
         /\ writerQueue' = Rest(wq, i)
         /\ promise' = [p EXCEPT ![wq[i].task] = "write"]
    /\ writer' = TRUE
    /\ writerWaiting' = ww - 1
    /\ readers' = r
    /\ readerQueue' = rq

\* When takeWriter finds nobody, writerWaiting is reset and the queue is empty.
GrantReaders(r, w, ww, rq, wq, p) ==
    /\ ~Blocked(r, w, ww)
    /\ ww = 0 \/ Live(wq) = {}
    /\ readers' = r + Cardinality(Live(rq))
    /\ promise' = [t \in Tasks |-> IF t \in Live(rq) THEN "read" ELSE p[t]]
    /\ readerQueue' = <<>>
    /\ writerQueue' = IF ww = 0 THEN wq ELSE <<>>
    /\ writer' = w
    /\ writerWaiting' = 0

Drain(r, w, ww, rq, wq, p) ==
    \/ KeepWaiting(r, w, ww, rq, wq, p)
    \/ GrantWriter(r, w, ww, rq, wq, p)
    \/ GrantReaders(r, w, ww, rq, wq, p)

-----------------------------------------------------------------------------
(***************************************************************************)
(* The handlers.                                                           *)
(***************************************************************************)

\* The caller has no acquisition under way and no guard to give back.
Free(t) == promise[t] \in {"none", "rejected", "released"}

\* Mutant of ReadAdmissible: a new reader overtakes waiting writers.
ReadWheneverShared == ~writer
ReadAdmissible == ~writer /\ writerWaiting = 0
WriteAdmissible == ~writer /\ readers = 0 /\ writerWaiting = 0

AcquireRead(t) ==
    /\ Free(t)
    /\ ReadAdmissible
    /\ readers' = readers + 1
    /\ promise' = [promise EXCEPT ![t] = "read"]
    /\ UNCHANGED <<writer, writerWaiting, queues>>

EnqueueRead(t) ==
    /\ Free(t)
    /\ ~ReadAdmissible
    /\ Len(readerQueue) < MaxQueue
    /\ readerQueue' = Append(readerQueue, Waiter(t))
    /\ promise' = [promise EXCEPT ![t] = "pending"]
    /\ UNCHANGED <<counters, writerQueue>>

AcquireWrite(t) ==
    /\ Free(t)
    /\ WriteAdmissible
    /\ writer' = TRUE
    /\ promise' = [promise EXCEPT ![t] = "write"]
    /\ UNCHANGED <<readers, writerWaiting, queues>>

EnqueueWrite(t) ==
    /\ Free(t)
    /\ ~WriteAdmissible
    /\ Len(writerQueue) < MaxQueue
    /\ Drain(readers, writer, writerWaiting + 1, readerQueue,
             Append(writerQueue, Waiter(t)),
             [promise EXCEPT ![t] = "pending"])

\* acquireRead or acquireWrite with timeoutMs <= 0 on a lock that is not free.
FailFast(t) ==
    /\ Free(t)
    /\ ~WriteAdmissible
    /\ promise' = [promise EXCEPT ![t] = "rejected"]
    /\ UNCHANGED <<counters, queues>>

\* A waiter's timer.  It finds the entry settled, and returns, when the grant
\* came first; a grant clears the timer anyway.
TimeoutRead(t) ==
    /\ t \in Live(readerQueue)
    /\ Drain(readers, writer, writerWaiting, Settle(readerQueue, t),
             writerQueue, [promise EXCEPT ![t] = "rejected"])

\* Mutants of TimeoutWrite: nobody else is let in; the count is left alone.
TimeoutWriteSilently(t) ==
    /\ t \in Live(writerQueue)
    /\ writerWaiting' = writerWaiting - 1
    /\ writerQueue' = Settle(writerQueue, t)
    /\ promise' = [promise EXCEPT ![t] = "rejected"]
    /\ UNCHANGED <<readers, writer, readerQueue>>
TimeoutWriteUncounted(t) ==
    /\ t \in Live(writerQueue)
    /\ Drain(readers, writer, writerWaiting, readerQueue,
             Settle(writerQueue, t), [promise EXCEPT ![t] = "rejected"])

TimeoutWrite(t) ==
    /\ t \in Live(writerQueue)
    /\ Drain(readers, writer, writerWaiting - 1, readerQueue,
             Settle(writerQueue, t), [promise EXCEPT ![t] = "rejected"])

ReleaseRead(t) ==
    /\ promise[t] = "read"
    /\ Drain(readers - 1, writer, writerWaiting, readerQueue, writerQueue,
             [promise EXCEPT ![t] = "released"])

ReleaseWrite(t) ==
    /\ promise[t] = "write"
    /\ Drain(readers, FALSE, writerWaiting, readerQueue, writerQueue,
             [promise EXCEPT ![t] = "released"])

\* release() of a guard that was released before.  Mutant: no released flag.
ReleaseTwice(t) ==
    /\ promise[t] = "released"
    /\ Drain(readers - 1, writer, writerWaiting, readerQueue, writerQueue, promise)
ReleaseAgain(t) ==
    /\ promise[t] = "released"
    /\ UNCHANGED vars

Next ==
    \E t \in Tasks :
        \/ AcquireRead(t)
        \/ EnqueueRead(t)
        \/ AcquireWrite(t)
        \/ EnqueueWrite(t)
        \/ FailFast(t)
        \/ TimeoutRead(t)
        \/ TimeoutWrite(t)
        \/ ReleaseRead(t)
        \/ ReleaseWrite(t)
        \/ ReleaseAgain(t)

Spec == Init /\ [][Next]_vars

(***************************************************************************)
(* withReadLock and withWriteLock (src/shared/lock.ts) release their guard *)
(* in a finally block: whoever holds the lock gives it back.  Nothing is   *)
(* assumed of the timers, nor of the arrival of new callers.               *)
(***************************************************************************)
HoldersRelease == \A t \in Tasks : WF_vars(ReleaseRead(t) \/ ReleaseWrite(t))

FairSpec == Spec /\ HoldersRelease

-----------------------------------------------------------------------------
(***************************************************************************)
(* Properties.                                                             *)
(***************************************************************************)

ReadHolders == {t \in Tasks : promise[t] = "read"}
WriteHolders == {t \in Tasks : promise[t] = "write"}

\* Every variable has its type.
TypeOK ==
    /\ readers \in Nat
    /\ writer \in BOOLEAN
    /\ writerWaiting \in Nat
    /\ readerQueue \in Seq(Waiters)
    /\ writerQueue \in Seq(Waiters)
    /\ promise \in [Tasks -> Promises]

\* Whoever holds an unreleased write guard holds the lock alone: the guard
\* that drain() hands out and the ones granted without waiting never overlap.
MutualExclusion ==
    \A t \in WriteHolders : ReadHolders = {} /\ WriteHolders = {t}

\* The three counters that every admission decision is taken from agree with
\* the guards that are out and the waiters that are live, however timeouts,
\* repeated releases and grants interleave.
CountersMatchGuards ==
    /\ readers = Cardinality(ReadHolders)
    /\ writer <=> WriteHolders # {}
    /\ writerWaiting = Cardinality(Live(writerQueue))

\* A caller whose promise is pending has a live entry in exactly one queue:
\* no waiter is dropped, and none is left for a later grant to count twice.
PendingIsQueued ==
    \A t \in Tasks :
        (promise[t] = "pending") <=> ((t \in Live(readerQueue)) # (t \in Live(writerQueue)))

\* Nobody waits for a lock that is free: a waiting writer is kept out by a
\* holder, a waiting reader by a writer that holds the lock or waits for it.
NoStrandedWaiter ==
    /\ Live(writerQueue) # {} => ReadHolders \cup WriteHolders # {}
    /\ Live(readerQueue) # {} => WriteHolders \cup Live(writerQueue) # {}

\* Writer priority: a step that gives somebody a read guard leaves no live
\* writer behind in the queue.
ReadersYieldToWriters ==
    [][ReadHolders' \ ReadHolders # {} => Live(writerQueue)' = {}]_vars

\* A waiting writer is served, or times out, as long as holders release: no
\* stream of new callers keeps it waiting.
WritersAreServed ==
    \A t \in Tasks : t \in Live(writerQueue) ~> t \notin Live(writerQueue)
=============================================================================
