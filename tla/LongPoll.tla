------------------------------ MODULE LongPoll ------------------------------
(***************************************************************************)
(* Long polling on one queue: pullers try the queue and, finding nothing   *)
(* they may take, sleep in the WaiterManager until a notification, the     *)
(* next delayed job or their deadline.                                     *)
(*                                                                         *)
(* The hard part is the gap.  A try fails under the shard lock; the puller *)
(* starts to wait some microtasks after the lock is released, and what     *)
(* happens in between reaches it through the pending bit alone.  The bit   *)
(* holds one notification, so it matters how much fits into the gap, and   *)
(* that is decided by the promises on each handler's way.  So this module  *)
(* has the microtask queue of the event loop: every await is one turn in   *)
(* it, and the order is that of the code.  Calls come in at any point, and *)
(* timers fire and connections close when the queue is empty.              *)
(*                                                                         *)
(* A job is ready, delayed or active, and only the numbers count.  Groups  *)
(* and rate limits are not modelled.  What holds a job and loses it again  *)
(* is the subject of module JobDelivery.                                   *)
(***************************************************************************)
EXTENDS Naturals, FiniteSets, Sequences

CONSTANTS
    Pullers,        \* pull requests: one at a time each
    Batchers,       \* those of them that are PULLB, the others are PULL
    Count,          \* jobs a PULLB asks for
    Limit,          \* the concurrency limit of the queue
    MaxJobs,        \* bound: no push is called with this many jobs about
    MaxBatch,       \* bound: jobs of one batch push
    MaxCalls,       \* bound: calls other than pulls waiting for the lock
    MaxEntries,     \* bound: no call adds sleepers above this many entries
    HazardSets      \* what may happen besides pull, push, ack and fail

ASSUME CountAssumption == Count \in Nat \ {0} /\ Limit \in Nat \ {0}
ASSUME BoundsAssumption ==
    MaxJobs \in Nat /\ MaxBatch \in Nat /\ MaxCalls \in Nat /\ MaxEntries \in Nat
ASSUME PullersAssumption == IsFiniteSet(Pullers) /\ Batchers \subseteq Pullers
ASSUME HazardsAssumption == HazardSets \subseteq SUBSET {"leave", "delay", "pause", "silent"}

VARIABLES
    hazards,        \* what may happen in this behaviour
    ready,          \* jobs in the queue that may be taken now
    delayed,        \* a job in the queue is not due yet: at most one is
    active,         \* slots in use
    paused,         \* the queue's state
    entries,        \* QueueWaiters.entries, from the head cursor on
    activeWaiters,  \* QueueWaiters.active
    pending,        \* QueueWaiters.pending
    tasks,          \* the microtask queue
    lock,           \* the shard lock: who has it, then who waits for it
    pc,             \* where each puller is
    timer,          \* what a puller's timer knows about the delayed job
    overdue         \* the deadline of the pull has passed

jobVars == <<ready, delayed, active, paused>>
waiterVars == <<entries, activeWaiters, pending>>
pullerVars == <<pc, timer, overdue>>
broker == <<jobVars, waiterVars, tasks, lock, pullerVars>>
vars == <<hazards, broker>>

-----------------------------------------------------------------------------
(***************************************************************************)
(* Data.                                                                   *)
(***************************************************************************)

\* A handler is a call under way, with its puller or its number of jobs.
Pushes == {"push", "pushDelayed"}
Silent == {"bury", "giveBack", "giveBackLater"}
Delays == {"pushDelayed", "retryLater", "giveBackLater"}
Releases == {"ack", "retry", "retryLater"} \cup Silent
Call(op, arg) == [op |-> op, arg |-> arg]
Handlers == [op : {"pull"}, arg : Pullers] \cup [op : {"batch"}, arg : 2..MaxBatch]
                \cup [op : Pushes \cup Releases, arg : {1}]

\* A microtask continues a handler after an await.
Task(step, handler) == [step |-> step, handler |-> handler]
Tasks == [step : {"section", "release", "tried", "decide", "notify", "woken", "again"},
          handler : Handlers]

Entries == [puller : Pullers, cancelled : BOOLEAN]
Live == {i \in DOMAIN entries : ~entries[i].cancelled}
Sleepers == {c \in Pullers : pc[c] = "asleep"}
Smaller(a, b) == IF a <= b THEN a ELSE b

\* Between two turns of the event loop.
Quiet == tasks = <<>>

Init ==
    /\ hazards \in HazardSets
    /\ ready = 0 /\ delayed = FALSE /\ active = 0 /\ paused = FALSE
    /\ entries = <<>> /\ activeWaiters = 0 /\ pending = FALSE
    /\ tasks = <<>> /\ lock = <<>>
    /\ pc = [c \in Pullers |-> "idle"]
    /\ timer = [c \in Pullers |-> "deadline"]
    /\ overdue = [c \in Pullers |-> FALSE]

-----------------------------------------------------------------------------
(***************************************************************************)
(* The event loop and the lock.                                            *)
(***************************************************************************)

\* The step at the head of the microtask queue, and what it leaves behind.
Runs(step, ops) ==
    tasks # <<>> /\ Head(tasks).step = step /\ Head(tasks).handler.op \in ops
Now == Head(tasks).handler
Continue(next) == tasks' = Tail(tasks) \o next

\* acquireWrite: who finds the lock free goes on one microtask later.
Granted(h) == IF lock = <<>> THEN <<Task("section", h)>> ELSE <<>>
Acquire(h) == lock' = Append(lock, h)

\* release: the next in line has its turn.
Handover == IF Len(lock) > 1 THEN <<Task("section", lock[2])>> ELSE <<>>
Release == lock' = Tail(lock)

-----------------------------------------------------------------------------
(***************************************************************************)
(* The WaiterManager.                                                      *)
(***************************************************************************)

\* How far the head cursor goes to pass k live entries.  Cancelled ones are
\* skipped on the way.
CursorAfter(k) ==
    CHOOSE h \in 0..Len(entries) :
        /\ Cardinality({i \in Live : i <= h}) = k
        /\ \A g \in 0..(h - 1) : Cardinality({i \in Live : i <= g}) < k

\* Whom a notification of n wakes, the oldest first: the cursor stops behind
\* each live entry in turn.
Woken(n) == [i \in 1..Smaller(n, activeWaiters) |-> entries[CursorAfter(i)].puller]
Wakes(n) == [i \in DOMAIN Woken(n) |-> Task("woken", Call("pull", Woken(n)[i]))]

\* compact: nothing is kept for a queue on which nobody waits.
Compact(q, live) == IF live = 0 THEN <<>> ELSE q

\* Mutant: every notification sets the bit, as a note for later.
NotifyAlwaysPending(n) ==
    LET woken == Smaller(n, activeWaiters)
        rest == SubSeq(entries, CursorAfter(woken) + 1, Len(entries)) IN
    /\ activeWaiters' = activeWaiters - woken
    /\ entries' = Compact(rest, activeWaiters')
    /\ pending' = TRUE

\* notifyQueue: n sleepers go, the oldest first, and a surplus of any size is
\* one pending bit.
NotifyQueue(n) ==
    LET woken == Smaller(n, activeWaiters)
        rest == SubSeq(entries, CursorAfter(woken) + 1, Len(entries)) IN
    /\ activeWaiters' = activeWaiters - woken
    /\ entries' = Compact(rest, activeWaiters')
    /\ pending' = (pending \/ woken < n)

\* The same with its effect on the pullers.  Their continuations are queued at
\* once, before whatever else the notifying step leaves behind.
Notify(n) ==
    LET woken == {Woken(n)[i] : i \in DOMAIN Woken(n)} IN
    /\ NotifyQueue(n)
    /\ pc' = [c \in Pullers |-> IF c \in woken THEN "running" ELSE pc[c]]
    /\ timer' = [c \in Pullers |-> IF c \in woken THEN "deadline" ELSE timer[c]]
    /\ UNCHANGED overdue

\* Mutant: the entry is cancelled and the count is left to the cursor.
SettleUncounted(c) ==
    /\ entries' = [i \in DOMAIN entries |->
           IF entries[i].puller = c THEN [entries[i] EXCEPT !.cancelled = TRUE]
           ELSE entries[i]]
    /\ UNCHANGED <<activeWaiters, pending>>

\* settle: a waiter that is not notified leaves its entry behind, cancelled.
Settle(c) ==
    LET q == [i \in DOMAIN entries |->
                 IF entries[i].puller = c THEN [entries[i] EXCEPT !.cancelled = TRUE]
                 ELSE entries[i]] IN
    /\ activeWaiters' = activeWaiters - 1
    /\ entries' = Compact(q, activeWaiters')
    /\ UNCHANGED pending

-----------------------------------------------------------------------------
(***************************************************************************)
(* Pull.                                                                   *)
(***************************************************************************)

RoomToSleep == Len(entries) + Cardinality(Pullers) <= MaxEntries

\* pullJob, pullJobBatch.  One without a timeout is overdue from the start.
Pull(c) ==
    /\ pc[c] = "idle" /\ RoomToSleep
    /\ pc' = [pc EXCEPT ![c] = "running"]
    /\ \E noWait \in BOOLEAN : overdue' = [overdue EXCEPT ![c] = noWait]
    /\ Acquire(Call("pull", c)) /\ tasks' = tasks \o Granted(Call("pull", c))
    /\ UNCHANGED <<jobVars, waiterVars, timer>>

\* Mutant: the slots are counted once for a batch, not once for each job.
TakesWhole(n) == IF paused \/ active >= Limit THEN 0 ELSE Smaller(n, ready)

\* A try for n jobs takes them while there are jobs and slots.
Takes(n) == IF paused THEN 0 ELSE Smaller(n, Smaller(ready, Limit - active))

\* tryPullFromShard, tryPullBatchFromShard.  When nothing is taken the puller
\* learns when the delayed job is due, unless the queue is paused; with the
\* limit reached it depends on the order of the queue whether the scan gets
\* that far.
PullSection ==
    LET c == Now.arg
        taken == Takes(IF c \in Batchers THEN Count ELSE 1) IN
    /\ Runs("section", {"pull"})
    /\ ready' = ready - taken /\ active' = active + taken
    /\ IF taken > 0
       THEN pc' = [pc EXCEPT ![c] = "served"] /\ UNCHANGED timer
       ELSE /\ \E seen \in {"deadline", "nextRun"} :
                  /\ seen = "nextRun" => delayed /\ ~paused
                  /\ seen = "deadline" => ~delayed \/ paused \/ ready > 0
                  /\ timer' = [timer EXCEPT ![c] = seen]
            /\ UNCHANGED pc
    /\ Continue(<<Task("release", Now)>>)
    /\ UNCHANGED <<delayed, paused, waiterVars, lock, overdue>>

\* The finally of withWriteLock, one microtask after the section.
ReleaseSection ==
    /\ Runs("release", {"pull"} \cup Releases)
    /\ Release
    /\ Continue(Handover \o
           IF Now.op = "pull" THEN <<Task("tried", Now)>> ELSE <<>>)
    /\ UNCHANGED <<jobVars, waiterVars, pullerVars>>

\* The awaits of tryPullFromShard and of waitForNextCandidate.
Await ==
    /\ \/ Runs("tried", {"pull"}) /\ Continue(<<Task("decide", Now)>>)
       \/ Runs("woken", {"pull"}) /\ Continue(<<Task("again", Now)>>)
    /\ UNCHANGED <<jobVars, waiterVars, lock, pullerVars>>

Return(c) ==
    /\ pc' = [pc EXCEPT ![c] = "idle"]
    /\ timer' = [timer EXCEPT ![c] = "deadline"]
    /\ overdue' = [overdue EXCEPT ![c] = FALSE]

\* The pull returns with jobs, or without any when its time is over.
ReturnFromPull ==
    /\ Runs("decide", {"pull"})
    /\ pc[Now.arg] = "served" \/ overdue[Now.arg]
    /\ Return(Now.arg) /\ Continue(<<>>)
    /\ UNCHANGED <<jobVars, waiterVars, lock>>

MustWait == Runs("decide", {"pull"}) /\ pc[Now.arg] = "running" /\ ~overdue[Now.arg]

\* A new entry for the puller whose turn it is.
Sleep ==
    /\ entries' = Append(entries, [puller |-> Now.arg, cancelled |-> FALSE])
    /\ activeWaiters' = activeWaiters + 1
    /\ pc' = [pc EXCEPT ![Now.arg] = "asleep"]
    /\ Continue(<<>>)

\* waitForNextCandidate, waitForJob: use up the pending bit, or go to sleep.
WaitForJob ==
    /\ MustWait
    /\ \/ /\ pending /\ pending' = FALSE
          /\ timer' = [timer EXCEPT ![Now.arg] = "deadline"]
          /\ Continue(<<Task("woken", Now)>>)
          /\ UNCHANGED <<entries, activeWaiters, pc>>
       \/ ~pending /\ Sleep /\ UNCHANGED <<pending, timer>>
    /\ UNCHANGED <<jobVars, lock, overdue>>

\* Awake, the puller goes round its loop.
TryAgain ==
    /\ Runs("again", {"pull"})
    /\ Acquire(Now) /\ Continue(Granted(Now))
    /\ UNCHANGED <<jobVars, waiterVars, pullerVars>>

\* Mutant: after its timer the puller is given its whole timeout again.
TimeoutRenewed(c) ==
    /\ pc[c] = "asleep" /\ Quiet
    /\ overdue[c] \/ timer[c] = "due"
    /\ Settle(c)
    /\ pc' = [pc EXCEPT ![c] = "running"]
    /\ timer' = [timer EXCEPT ![c] = "deadline"]
    /\ overdue' = [overdue EXCEPT ![c] = FALSE]
    /\ tasks' = <<Task("woken", Call("pull", c))>>
    /\ UNCHANGED <<jobVars, lock>>

\* The waiter's timer: it was set for the deadline or for the next delayed job,
\* whichever comes first.
Timeout(c) ==
    /\ pc[c] = "asleep" /\ Quiet
    /\ overdue[c] \/ timer[c] = "due"
    /\ Settle(c)
    /\ pc' = [pc EXCEPT ![c] = "running"]
    /\ timer' = [timer EXCEPT ![c] = "deadline"]
    /\ tasks' = <<Task("woken", Call("pull", c))>>
    /\ UNCHANGED <<jobVars, lock, overdue>>

\* The signal of a sleeping pull is aborted, when its connection closes.  The
\* waiter settles and the pull returns without another try.
Abort(c) ==
    /\ "leave" \in hazards
    /\ pc[c] = "asleep" /\ Quiet
    /\ Settle(c) /\ Return(c)
    /\ UNCHANGED <<jobVars, tasks, lock>>

-----------------------------------------------------------------------------
(***************************************************************************)
(* The other calls.  Each asks for the lock; then its section runs.        *)
(***************************************************************************)

InLine(ops) == {i \in DOMAIN lock : lock[i].op \in ops}
Room == ready + active + (IF delayed THEN 1 ELSE 0) < MaxJobs
MayDelay ==
    "delay" \in hazards /\ ~delayed /\ RoomToSleep
        /\ InLine(Delays) = {}

\* Jobs are pushed; an active job, and no job twice, is acknowledged, fails, or
\* is taken back by stall detection, lease expiry or the close of a connection.
CallsComeIn(h) ==
    /\ h.op # "pull"
    /\ Cardinality({i \in DOMAIN lock : lock[i].op # "pull"}) < MaxCalls
    /\ h.op \in Releases => Cardinality(InLine(Releases)) < active
    /\ h.op \in Pushes \cup {"batch"} => Room
    /\ h.op \in Delays => MayDelay
    /\ h.op \in Silent => "silent" \in hazards
    /\ Acquire(h) /\ tasks' = tasks \o Granted(h)
    /\ UNCHANGED <<jobVars, waiterVars, pullerVars>>

\* pushJob.  withPushWriteLocks awaits nothing between the section and the
\* release, so the next section is only one microtask away.
PushSection ==
    /\ Runs("section", Pushes)
    /\ IF Now.op = "push"
       THEN ready' = ready + 1 /\ UNCHANGED delayed
       ELSE delayed' = TRUE /\ UNCHANGED ready
    /\ Notify(1) /\ Release /\ Continue(Wakes(1) \o Handover)
    /\ UNCHANGED <<active, paused>>

\* pushJobBatch: the jobs go in under the lock, the waiters are told later.
BatchSection ==
    /\ Runs("section", {"batch"})
    /\ ready' = ready + Now.arg
    /\ Release /\ Continue(Handover \o <<Task("notify", Now)>>)
    /\ UNCHANGED <<delayed, active, paused, waiterVars, pullerVars>>

\* Mutant: one notification for the whole batch.
NotifyOneForBatch ==
    /\ Runs("notify", {"batch"})
    /\ Notify(1) /\ Continue(Wakes(1))
    /\ UNCHANGED <<jobVars, lock>>

NotifyBatch ==
    /\ Runs("notify", {"batch"})
    /\ Notify(Now.arg) /\ Continue(Wakes(Now.arg))
    /\ UNCHANGED <<jobVars, lock>>

\* ackJob, or failJob of a job without attempts left: one waiter may have the
\* slot that is free now.
AckSection ==
    /\ Runs("section", {"ack"})
    /\ active' = active - 1
    /\ Notify(1) /\ Continue(Wakes(1) \o <<Task("release", Now)>>)
    /\ UNCHANGED <<ready, delayed, paused, lock>>

\* failJob of a job with attempts left: back at once, or after a backoff.
RetrySection ==
    /\ Runs("section", {"retry", "retryLater"})
    /\ active' = active - 1
    /\ IF Now.op = "retry"
       THEN ready' = ready + 1 /\ UNCHANGED delayed
       ELSE delayed' = TRUE /\ UNCHANGED ready
    /\ Notify(1) /\ Continue(Wakes(1) \o <<Task("release", Now)>>)
    /\ UNCHANGED <<paused, lock>>

\* Stall detection and lease expiry bury a job; stall detection, after a backoff
\* if there is one, and the close of a connection give one back.  The slot is
\* free, and nobody is told.
SilentSection ==
    /\ Runs("section", Silent)
    /\ active' = active - 1
    /\ ready' = IF Now.op = "giveBack" THEN ready + 1 ELSE ready
    /\ delayed' = (delayed \/ Now.op = "giveBackLater")
    /\ Continue(<<Task("release", Now)>>)
    /\ UNCHANGED <<paused, waiterVars, lock, pullerVars>>

\* Pausing and resuming take no lock.  Resuming notifies one waiter.
PauseQueue ==
    /\ "pause" \in hazards /\ ~paused /\ paused' = TRUE
    /\ UNCHANGED <<ready, delayed, active, waiterVars, tasks, lock, pullerVars>>

ResumeQueue ==
    /\ paused /\ paused' = FALSE
    /\ Notify(1) /\ tasks' = tasks \o Wakes(1)
    /\ UNCHANGED <<ready, delayed, active, lock>>

\* Time passes: the delayed job is due, a deadline is over.
Mature ==
    /\ delayed /\ delayed' = FALSE /\ ready' = ready + 1
    /\ timer' = [c \in Pullers |-> IF timer[c] = "nextRun" THEN "due" ELSE timer[c]]
    /\ UNCHANGED <<active, paused, waiterVars, tasks, lock, pc, overdue>>

DeadlinePasses(c) ==
    /\ "leave" \in hazards
    /\ pc[c] # "idle" /\ ~overdue[c]
    /\ overdue' = [overdue EXCEPT ![c] = TRUE]
    /\ UNCHANGED <<jobVars, waiterVars, tasks, lock, pc, timer>>

-----------------------------------------------------------------------------
Microtask ==
    \/ PullSection \/ ReleaseSection \/ Await \/ ReturnFromPull \/ WaitForJob
    \/ TryAgain \/ PushSection \/ BatchSection \/ NotifyBatch \/ AckSection
    \/ RetrySection \/ SilentSection

Steps ==
    \/ Microtask
    \/ \E c \in Pullers : Pull(c) \/ Timeout(c) \/ Abort(c) \/ DeadlinePasses(c)
    \/ \E h \in Handlers : CallsComeIn(h)
    \/ PauseQueue \/ ResumeQueue \/ Mature

Next == Steps /\ UNCHANGED hazards

Spec == Init /\ [][Next]_vars

\* The event loop runs its microtasks, and a turn of it ends: calls come from
\* connections and timers, so no turn has more than it read at its start.  Then
\* it comes back to its timers, and time passes.
Fairness ==
    /\ WF_broker(Microtask) /\ []<>Quiet
    /\ \A c \in Pullers : SF_broker(Timeout(c)) /\ WF_broker(DeadlinePasses(c))

FairSpec == Spec /\ Fairness

-----------------------------------------------------------------------------
(***************************************************************************)
(* Properties.                                                             *)
(***************************************************************************)

TypeOK ==
    /\ hazards \in HazardSets
    /\ ready \in Nat /\ active \in Nat /\ activeWaiters \in Nat
    /\ delayed \in BOOLEAN /\ paused \in BOOLEAN /\ pending \in BOOLEAN
    /\ entries \in Seq(Entries) /\ tasks \in Seq(Tasks) /\ lock \in Seq(Handlers)
    /\ pc \in [Pullers -> {"idle", "running", "served", "asleep"}]
    /\ timer \in [Pullers -> {"deadline", "nextRun", "due"}]
    /\ overdue \in [Pullers -> BOOLEAN]

\* A batch pull stays within the concurrency limit, job by job.
ActiveWithinLimit == active <= Limit

\* The count of waiters is that of the live entries, and they are the sleepers.
\* notifyQueue loops while the count is positive: were it too high by one, the
\* loop would run off the array and never return.
ActiveCountsLive ==
    /\ TypeOK
    /\ activeWaiters = Cardinality(Live)
    /\ {entries[i].puller : i \in Live} = Sleepers

\* The pending bit is set only when nobody sleeps: a surplus arises only after
\* the last sleeper went, and who comes next uses the bit before it sleeps.  A
\* sleeper beside a set bit would have missed the notification.
PendingMeansNobodySleeps == pending => Sleepers = {}

\* No wake-up is lost.  Between turns of the event loop nobody sleeps while a
\* job could be delivered, except when a timer that has run out is about to
\* wake a sleeper.  A failed try and the sleep that follows are not atomic, a
\* batch is announced after its jobs are there, and the bit that bridges the
\* gap counts one notification, whatever their number.  It is not promised
\* with pauses and silent releases, nor when a poll that has set its timer for
\* a delayed job may leave.
WakeupsPromised ==
    hazards \cap {"pause", "silent"} = {} /\ ~({"leave", "delay"} \subseteq hazards)
NoLostWakeup ==
    (WakeupsPromised /\ Quiet /\ ready > 0 /\ active < Limit /\ ~paused) =>
        \/ Sleepers = {}
        \/ \E c \in Sleepers : timer[c] = "due"

\* Every pull returns, with or without a job, however often it is woken for
\* nothing: the deadline is fixed when the pull begins.  Without the hazard of
\* polls that leave no deadline is reached.
PullReturns ==
    \A c \in Pullers : "leave" \in hazards /\ pc[c] # "idle" ~> pc[c] = "idle"

=============================================================================
