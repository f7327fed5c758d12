---------------------------- MODULE JobDelivery ----------------------------
(***************************************************************************)
(* The delivery engine of one queue: pull, ack, fail, the moves of an      *)
(* active job, heartbeats and leases, and the three recovery paths that    *)
(* take a job back from its worker - stall detection, lease expiry and the *)
(* release of a disconnected client's jobs.                                *)
(*                                                                         *)
(* Every handler is a sequence of synchronous sections: one runs under the *)
(* shard lock, the processing lock or both (shard first), or right after   *)
(* an await.  One action is one section, and req[c].pc is where the        *)
(* request of client c has got to.  The order in which sections are        *)
(* granted their locks (module RWLock) is left open.  Timers fire and      *)
(* sockets close only between turns of the event loop; calls may come in   *)
(* together in one turn, pipelined on a socket or made by the same code,   *)
(* and in the turn of a sweep when a listener inside the process calls     *)
(* back (hazard "callback").                                               *)
(*                                                                         *)
(* Time is abstract: a heartbeat or a lease may become too old at any      *)
(* moment, a backoff may have passed, and the instant of a delivery is its *)
(* number, which is all that startedAt and createdAt are compared for.     *)
(* Priorities, groups, unique keys and cron jobs are not modelled here,    *)
(* nor are the jobs that a pull finds past their TTL and deletes, and      *)
(* forceReleaseClientJobs, which a closing connection falls back to when   *)
(* three attempts at releaseClientJobs have timed out on their locks.      *)
(***************************************************************************)
EXTENDS Naturals, FiniteSets

CONSTANTS
    Jobs,
    NoJob,          \* the job of a client with no request under way
    Clients,        \* connections: they pull, and each has one job at a time
    Limit,          \* the concurrency limit of the queue
    MaxAttempts,    \* maxAttempts of every job
    MaxStalls,      \* maxStalls of the queue's stall configuration
    MaxDeliveries,  \* bound: deliveries of one job
    Hazards         \* what may happen besides pull, heartbeat, ack and fail

ASSUME LimitAssumption == Limit \in Nat \ {0}
ASSUME BudgetAssumption == MaxAttempts \in Nat \ {0} /\ MaxStalls \in Nat
ASSUME DeliveriesAssumption == MaxDeliveries \in Nat
ASSUME HazardsAssumption ==
    Hazards \subseteq {"abort", "callback", "move", "stall", "lease", "disconnect"}
ASSUME JobsAssumption == IsFiniteSet(Jobs) /\ NoJob \notin Jobs
ASSUME ClientsAssumption == IsFiniteSet(Clients)

VARIABLES
    queued,         \* jobs in the priority queue of the shard
    processing,     \* jobs in the processing map
    jobIndex,       \* where the index says each job is
    job,            \* the mutable fields of each job object
    deliveries,     \* how often each job has been delivered: its clock
    active,         \* slots in use, by the ConcurrencyLimiter's count
    jobLocks,       \* the lease of each job
    clientJobs,     \* jobs registered with each connection
    candidates,     \* stalledCandidates
    verdicts,       \* confirmed stalls on their way to handleStalledJob
    lapsed,         \* leases collected by checkExpiredLocks, not yet handled
    releasing,      \* jobs collected by releaseClientJobs, not yet handled
    req             \* the request each client has under way

indexVars == <<queued, processing, jobIndex>>
objectVars == <<job, deliveries>>
leaseVars == <<jobLocks, clientJobs>>
sweepVars == <<candidates, verdicts, lapsed, releasing>>
vars == <<indexVars, objectVars, active, leaseVars, sweepVars, req>>

-----------------------------------------------------------------------------
(***************************************************************************)
(* Data.                                                                   *)
(***************************************************************************)

Locations == {"none", "queue", "processing", "completed", "dlq"}
Terminal == {"completed", "dlq"}
Verdicts == {"retry", "dlq"}

\* startedAt is 0 for null, else the number of the delivery.  stale: the last
\* heartbeat is older than the stall interval and the grace period is over.
JobObjects == [attempts : Nat, stallCount : Nat, startedAt : Nat, stale : BOOLEAN]
NewJob == [attempts |-> 0, stallCount |-> 0, startedAt |-> 0, stale |-> FALSE]

\* A lease token is unique: it names the client it was made for and the
\* delivery during which it was made.
NoToken == <<>>
Tokens == (Clients \X Nat) \cup {NoToken}

Leases == [token : Tokens, createdAt : Nat, expired : BOOLEAN, renewed : BOOLEAN]
NoLease == [token |-> NoToken, createdAt |-> 0, expired |-> FALSE, renewed |-> FALSE]
HasLease(j) == jobLocks[j].token # NoToken

\* Where a client's request may be: nothing under way, the sections of a pull,
\* the worker busy with its job, and the sections of ack, fail and the moves.
PullSteps == {"dequeued", "unlink", "finalized"}
AckSteps == {"ackClaim", "ackRelease", "ackCommit",
             "completeFirst", "completeAgain", "commitFirst", "commitAgain"}
FailSteps == {"failClaim", "failRetry", "failBury", "failEnd"}
MoveSteps == {"moveClaim", "moveQueue", "moveEnd", "delayQueued", "discardClaim",
              "discardQueued", "discardActiveMove", "discardQueuedMove"}
Steps == {"idle", "working"} \cup PullSteps \cup AckSteps \cup FailSteps \cup MoveSteps

Requests == [pc : Steps, job : Jobs \cup {NoJob}, token : Tokens, hadLease : BOOLEAN]
Idle == [pc |-> "idle", job |-> NoJob, token |-> NoToken, hadLease |-> FALSE]

At(c, step) == req[c].pc = step
Goto(c, step) == req' = [req EXCEPT ![c].pc = step]
Finish(c) == req' = [req EXCEPT ![c] = Idle]

NoSweep == verdicts = {} /\ lapsed = {} /\ releasing = {}

\* No handler has a section left to run.  Timers fire, sockets close and time
\* passes only then: no handler awaits anything but locks and other handlers,
\* so each turn of the event loop runs them all to their end.
Quiet == NoSweep /\ \A c \in Clients : req[c].pc \in {"idle", "working"}

\* A worker or another caller may make a call now.
CallsComeIn == NoSweep \/ "callback" \in Hazards

Init ==
    /\ queued = {}
    /\ processing = {}
    /\ jobIndex = [j \in Jobs |-> "none"]
    /\ job = [j \in Jobs |-> NewJob]
    /\ deliveries = [j \in Jobs |-> 0]
    /\ active = 0
    /\ jobLocks = [j \in Jobs |-> NoLease]
    /\ clientJobs = [c \in Clients |-> {}]
    /\ candidates = {}
    /\ verdicts = {}
    /\ lapsed = {}
    /\ releasing = {}
    /\ req = [c \in Clients |-> Idle]

-----------------------------------------------------------------------------
(***************************************************************************)
(* The steps that the handlers share.                                      *)
(***************************************************************************)

\* Mutant of Released: the test for zero is missing.
ReleasedBelowZero == active - 1

\* ConcurrencyLimiter.release, reached through releaseJobResources.
Released == IF active > 0 THEN active - 1 ELSE 0

\* Mutant of Enqueue: the index is not told.
EnqueueUnindexed(j) == queued' = queued \cup {j} /\ UNCHANGED jobIndex

Enqueue(j) ==
    /\ queued' = queued \cup {j}
    /\ jobIndex' = [jobIndex EXCEPT ![j] = "queue"]

Bury(j) ==
    /\ jobIndex' = [jobIndex EXCEPT ![j] = "dlq"]
    /\ UNCHANGED queued

DropLease(j) == jobLocks' = [jobLocks EXCEPT ![j] = NoLease]

\* Mutant of ReleaseLock: the token is not compared.
ReleaseAnyLock(j, token) == DropLease(j)

\* releaseLock: a token that is not the lease's own leaves the lease alone.
ReleaseLock(j, token) ==
    jobLocks' = IF token \in {NoToken, jobLocks[j].token}
                THEN [jobLocks EXCEPT ![j] = NoLease] ELSE jobLocks

Unregister(c, j) == clientJobs' = [clientJobs EXCEPT ![c] = @ \ {j}]
Detach(j) == clientJobs' = [c \in Clients |-> clientJobs[c] \ {j}]

\* What every recovery path tests again once it has its locks, and does first.
\* Mutants: the test is missing; the slot is not given back.
TakenForGranted(j) == TRUE
StillProcessing(j) == j \in processing

ReclaimWithoutSlot(j) == processing' = processing \ {j} /\ UNCHANGED active
Reclaim(j) == processing' = processing \ {j} /\ active' = Released

\* Mutant of AttemptsExhausted: the failure at hand is not counted.
AttemptsOverspent(j) == job[j].attempts >= MaxAttempts
AttemptsExhausted(j) == job[j].attempts + 1 >= MaxAttempts

\* The job object after a stall or an expired lease.
ChargeStall(j) ==
    job' = [job EXCEPT ![j] = [attempts |-> @.attempts + 1, stallCount |-> @.stallCount + 1,
                               startedAt |-> 0, stale |-> FALSE]]

\* isStallRetried: waiting in the queue with an attempt behind it.
StallRetried(j) == jobIndex[j] = "queue" /\ j \in queued /\ job[j].attempts > 0

\* assertLeaseToken.
LeaseAccepts(j, token) ==
    HasLease(j) =>
        /\ jobLocks[j].token = token
        /\ jobIndex[j] = "processing" =>
             j \in processing /\ job[j].startedAt <= jobLocks[j].createdAt

Push(j) ==
    /\ jobIndex[j] = "none"
    /\ Enqueue(j)
    /\ UNCHANGED <<processing, objectVars, active, leaseVars, sweepVars, req>>

-----------------------------------------------------------------------------
(***************************************************************************)
(* Pull: dequeue under the shard lock, then finalizeProcessing, then       *)
(* createLock and the registration with the connection.                    *)
(***************************************************************************)

\* A connection that is closing sends no more commands.
Closing(c) == \E r \in releasing : r.client = c

Start(j) ==
    job' = [job EXCEPT ![j].startedAt = deliveries[j] + 1, ![j].stale = FALSE]

Dequeue(c, j) ==
    /\ At(c, "idle")
    /\ ~Closing(c)
    /\ j \in queued
    /\ active < Limit
    /\ deliveries[j] < MaxDeliveries
    /\ active' = active + 1
    /\ queued' = queued \ {j}
    /\ processing' = processing \cup {j}
    /\ jobIndex' = [jobIndex EXCEPT ![j] = "processing"]
    /\ deliveries' = [deliveries EXCEPT ![j] = @ + 1]
    /\ Start(j)
    /\ req' = [req EXCEPT ![c].pc = "dequeued", ![c].job = j]
    /\ UNCHANGED <<leaseVars, sweepVars>>

\* The signal was aborted, or the handoff failed: requeueJob.
RequeueAborted(c) ==
    LET j == req[c].job IN
    /\ "abort" \in Hazards
    /\ At(c, "dequeued")
    /\ IF j \in processing
       THEN /\ active' = Released
            /\ job' = [job EXCEPT ![j].startedAt = 0]
            /\ Enqueue(j)
            /\ Goto(c, "unlink")
       ELSE /\ Finish(c)
            /\ UNCHANGED <<active, job, queued, jobIndex>>
    /\ UNCHANGED <<processing, deliveries, leaseVars, sweepVars>>

PulledAgain(j) == jobIndex[j] = "processing"

\* Mutant of UnlinkAborted: the second section gives the slot back as well.
UnlinkAbortedReleasing(c) ==
    LET j == req[c].job IN
    /\ At(c, "unlink")
    /\ processing' = IF PulledAgain(j) THEN processing ELSE processing \ {j}
    /\ active' = Released
    /\ Finish(c)
    /\ UNCHANGED <<queued, jobIndex, objectVars, leaseVars, sweepVars>>

UnlinkAborted(c) ==
    LET j == req[c].job IN
    /\ At(c, "unlink")
    /\ processing' = IF PulledAgain(j) THEN processing ELSE processing \ {j}
    /\ Finish(c)
    /\ UNCHANGED <<queued, jobIndex, objectVars, active, leaseVars, sweepVars>>

\* finalizeProcessing: a job that a management call has claimed meanwhile is
\* not delivered, and the pull looks for another.
Finalize(c) ==
    /\ At(c, "dequeued")
    /\ IF req[c].job \in processing THEN Goto(c, "finalized") ELSE Finish(c)
    /\ UNCHANGED <<indexVars, objectVars, active, leaseVars, sweepVars>>

\* createLock: null unless the job is active and any lease it has is of an
\* earlier delivery, whose owners are then detached.
MayLease(j) ==
    /\ jobIndex[j] = "processing"
    /\ HasLease(j) => j \in processing /\ job[j].startedAt > jobLocks[j].createdAt

Lease(c) ==
    LET j == req[c].job
        token == <<c, deliveries[j]>>
        detached == IF HasLease(j) THEN [d \in Clients |-> clientJobs[d] \ {j}]
                                   ELSE clientJobs
    IN
    /\ At(c, "finalized")
    /\ IF MayLease(j)
       THEN /\ jobLocks' = [jobLocks EXCEPT ![j] =
                              [token |-> token, createdAt |-> deliveries[j],
                               expired |-> FALSE, renewed |-> FALSE]]
            /\ clientJobs' = [detached EXCEPT ![c] = @ \cup {j}]
            /\ req' = [req EXCEPT ![c].pc = "working", ![c].token = token]
       ELSE /\ clientJobs' = [clientJobs EXCEPT ![c] = @ \cup {j}]
            /\ Goto(c, "working")
            /\ UNCHANGED jobLocks
    /\ UNCHANGED <<indexVars, objectVars, active, sweepVars>>

-----------------------------------------------------------------------------
(***************************************************************************)
(* The worker's heartbeat, and the passing of time.                        *)
(***************************************************************************)

\* jobHeartbeat, with the token (renewJobLock) or without one.
Heartbeat(c) ==
    LET j == req[c].job
        token == req[c].token
        bump == job' = IF j \in processing THEN [job EXCEPT ![j].stale = FALSE] ELSE job
    IN
    /\ At(c, "working") /\ CallsComeIn
    /\ jobIndex[j] = "processing"
    /\ \/ /\ token = NoToken
          /\ bump
          /\ UNCHANGED jobLocks
       \/ /\ HasLease(j) /\ jobLocks[j].token = token
          /\ jobLocks[j].expired
          /\ DropLease(j)
          /\ UNCHANGED job
       \/ /\ HasLease(j) /\ jobLocks[j].token = token
          /\ ~jobLocks[j].expired
          /\ jobLocks' = [jobLocks EXCEPT ![j].renewed = TRUE]
          /\ bump
    /\ UNCHANGED <<indexVars, deliveries, active, clientJobs, sweepVars, req>>

HeartbeatAges(j) ==
    /\ Quiet
    /\ "stall" \in Hazards
    /\ j \in processing
    /\ job[j].startedAt # 0
    /\ ~job[j].stale
    /\ job' = [job EXCEPT ![j].stale = TRUE]
    /\ UNCHANGED <<indexVars, deliveries, active, leaseVars, sweepVars, req>>

LeaseAges(j) ==
    /\ Quiet
    /\ "lease" \in Hazards
    /\ HasLease(j)
    /\ ~jobLocks[j].expired
    /\ jobLocks' = [jobLocks EXCEPT ![j].expired = TRUE]
    /\ UNCHANGED <<indexVars, objectVars, active, clientJobs, sweepVars, req>>

\* The worker process dies and comes back without its job.
WorkerDies(c) ==
    /\ At(c, "working")
    /\ Finish(c)
    /\ UNCHANGED <<indexVars, objectVars, active, leaseVars, sweepVars>>

-----------------------------------------------------------------------------
(***************************************************************************)
(* Ack.  The lease is checked when the request arrives; the job is claimed *)
(* from the processing map in a later section, its slot is given back in   *)
(* another, and the completion is committed after that.  A job found back  *)
(* in the queue after a stall retry is completed from there, before or     *)
(* after the claim has been tried.                                         *)
(***************************************************************************)

Ack(c) ==
    LET j == req[c].job IN
    /\ At(c, "working") /\ CallsComeIn
    /\ IF ~LeaseAccepts(j, req[c].token) THEN Finish(c)
       ELSE Goto(c, IF StallRetried(j) THEN "completeFirst" ELSE "ackClaim")
    /\ UNCHANGED <<indexVars, objectVars, active, leaseVars, sweepVars>>

\* What follows when ackJob reports that it did not own the job.
AckUnowned(c) ==
    IF StallRetried(req[c].job) THEN Goto(c, "completeAgain") ELSE Finish(c)

AckClaim(c) ==
    LET j == req[c].job IN
    /\ At(c, "ackClaim")
    /\ IF j \in processing
       THEN /\ processing' = processing \ {j}
            /\ Goto(c, "ackRelease")
       ELSE /\ AckUnowned(c)
            /\ UNCHANGED processing
    /\ UNCHANGED <<queued, jobIndex, objectVars, active, leaseVars, sweepVars>>

AckRelease(c) ==
    /\ At(c, "ackRelease")
    /\ IF jobIndex[req[c].job] = "processing"
       THEN /\ active' = Released
            /\ Goto(c, "ackCommit")
       ELSE /\ AckUnowned(c)
            /\ UNCHANGED active
    /\ UNCHANGED <<indexVars, objectVars, leaseVars, sweepVars>>

\* Completion of the claimed job, with the release of the lease and of the
\* registration that follow it in the manager and in the TCP handler.
Complete(c, j) ==
    /\ jobIndex' = [jobIndex EXCEPT ![j] = "completed"]
    /\ ReleaseLock(j, req[c].token)
    /\ Unregister(c, j)
    /\ Finish(c)

AckCommit(c) ==
    LET j == req[c].job IN
    /\ At(c, "ackCommit")
    /\ IF jobIndex[j] = "processing"
       THEN Complete(c, j)
       ELSE /\ AckUnowned(c)
            /\ UNCHANGED <<jobIndex, leaseVars>>
    /\ UNCHANGED <<queued, processing, objectVars, active, sweepVars>>

\* completeStallRetriedJob, under the shard lock.
CompleteQueued(c, from, commit) ==
    LET j == req[c].job IN
    /\ At(c, from)
    /\ IF j \in queued
       THEN /\ queued' = queued \ {j}
            /\ active' = Released
            /\ Goto(c, commit)
       ELSE /\ IF from = "completeFirst" THEN Goto(c, "ackClaim") ELSE Finish(c)
            /\ UNCHANGED <<queued, active>>
    /\ UNCHANGED <<processing, jobIndex, objectVars, leaseVars, sweepVars>>

CommitQueued(c, from) ==
    LET j == req[c].job IN
    /\ At(c, from)
    /\ IF jobIndex[j] = "queue"
       THEN Complete(c, j)
       ELSE /\ IF from = "commitFirst" THEN Goto(c, "ackClaim") ELSE Finish(c)
            /\ UNCHANGED <<jobIndex, leaseVars>>
    /\ UNCHANGED <<queued, processing, objectVars, active, sweepVars>>

-----------------------------------------------------------------------------
(***************************************************************************)
(* Fail.  An outcome for a job that recovery has put back in the queue is  *)
(* ignored.                                                                *)
(***************************************************************************)

Fail(c) ==
    LET j == req[c].job
        token == req[c].token
    IN
    /\ At(c, "working") /\ CallsComeIn
    /\ \/ /\ ~LeaseAccepts(j, token)
          /\ Finish(c)
          /\ UNCHANGED jobLocks
       \/ /\ ~HasLease(j) /\ token # NoToken /\ StallRetried(j)
          /\ Finish(c)
          /\ UNCHANGED jobLocks
       \/ /\ HasLease(j) /\ LeaseAccepts(j, token) /\ jobIndex[j] # "processing"
          /\ ReleaseLock(j, token)
          /\ Finish(c)
       \/ /\ LeaseAccepts(j, token)
          /\ IF HasLease(j) THEN jobIndex[j] = "processing"
                            ELSE token = NoToken \/ ~StallRetried(j)
          /\ req' = [req EXCEPT ![c].pc = "failClaim", ![c].hadLease = HasLease(j)]
          /\ UNCHANGED jobLocks
    /\ UNCHANGED <<indexVars, objectVars, active, clientJobs, sweepVars>>

\* failJob throws "not found": the manager drops the lease of a job that is
\* back in the queue.
FailUnowned(c) ==
    LET j == req[c].job IN
    /\ IF req[c].hadLease /\ jobIndex[j] = "queue"
       THEN ReleaseLock(j, req[c].token) ELSE UNCHANGED jobLocks
    /\ Finish(c)

\* The claim decides what becomes of the job: canRetry, unless the worker
\* called the failure unrecoverable.
FailClaim(c) ==
    LET j == req[c].job IN
    /\ At(c, "failClaim")
    /\ IF j \in processing
       THEN /\ processing' = processing \ {j}
            /\ job' = [job EXCEPT ![j].attempts = @ + 1]
            /\ \/ job[j].attempts + 1 < MaxAttempts /\ Goto(c, "failRetry")
               \/ Goto(c, "failBury")
            /\ UNCHANGED jobLocks
       ELSE /\ FailUnowned(c)
            /\ UNCHANGED <<processing, job>>
    /\ UNCHANGED <<queued, jobIndex, deliveries, active, clientJobs, sweepVars>>

FailMove(c) ==
    LET j == req[c].job IN
    /\ req[c].pc \in {"failRetry", "failBury"}
    /\ IF jobIndex[j] = "processing"
       THEN /\ active' = Released
            /\ IF At(c, "failRetry")
               THEN Enqueue(j) /\ job' = [job EXCEPT ![j].startedAt = 0]
               ELSE Bury(j) /\ UNCHANGED job
            /\ Goto(c, "failEnd")
            /\ UNCHANGED jobLocks
       ELSE /\ FailUnowned(c)
            /\ UNCHANGED <<active, queued, jobIndex, job>>
    /\ UNCHANGED <<processing, deliveries, clientJobs, sweepVars>>

FailEnd(c) ==
    LET j == req[c].job IN
    /\ At(c, "failEnd")
    /\ ReleaseLock(j, req[c].token)
    /\ Unregister(c, j)
    /\ Finish(c)
    /\ UNCHANGED <<indexVars, objectVars, active, sweepVars>>

-----------------------------------------------------------------------------
(***************************************************************************)
(* Moves of a job by its worker, with the token, or by any other client    *)
(* without one: moveActiveToWait and moveJobToDelayed, and discardJob.     *)
(***************************************************************************)

ToldToMove(c, j) ==
    \/ At(c, "working") /\ req[c].job = j
    \/ At(c, "idle")

Move(c, j, step, location) ==
    /\ "move" \in Hazards
    /\ CallsComeIn
    /\ ToldToMove(c, j)
    /\ LeaseAccepts(j, req[c].token)
    /\ jobIndex[j] = location
    /\ req' = [req EXCEPT ![c].pc = step, ![c].job = j]
    /\ UNCHANGED <<indexVars, objectVars, active, leaseVars, sweepVars>>

MoveActive(c, j) == Move(c, j, "moveClaim", "processing")
DiscardActive(c, j) == Move(c, j, "discardClaim", "processing")
DiscardQueued(c, j) == Move(c, j, "discardQueued", "queue")
DelayQueued(c, j) == Move(c, j, "delayQueued", "queue")

\* The claim, with releaseClaimedJobOwnership in the same section.
ClaimForMove(c, from, to) ==
    LET j == req[c].job IN
    /\ At(c, from)
    /\ IF j \in processing
       THEN /\ processing' = processing \ {j}
            /\ DropLease(j)
            /\ Detach(j)
            /\ job' = IF to = "moveQueue" THEN [job EXCEPT ![j].startedAt = 0] ELSE job
            /\ Goto(c, to)
       ELSE /\ Finish(c)
            /\ UNCHANGED <<processing, leaseVars, job>>
    /\ UNCHANGED <<queued, jobIndex, deliveries, active, sweepVars>>

RemoveForDiscard(c) ==
    LET j == req[c].job IN
    /\ At(c, "discardQueued")
    /\ queued' = queued \ {j}
    /\ IF j \in queued THEN Goto(c, "discardQueuedMove") ELSE Finish(c)
    /\ UNCHANGED <<processing, jobIndex, objectVars, active, leaseVars, sweepVars>>

MoveToQueue(c) ==
    LET j == req[c].job IN
    /\ At(c, "moveQueue")
    /\ active' = Released
    /\ Enqueue(j)
    /\ Goto(c, "moveEnd")
    /\ UNCHANGED <<processing, objectVars, leaseVars, sweepVars>>

\* changeWaitingDelay: only the job's run time changes, and time is abstract.
DelayInQueue(c) ==
    /\ At(c, "delayQueued")
    /\ IF req[c].job \in queued THEN Goto(c, "moveEnd") ELSE Finish(c)
    /\ UNCHANGED <<indexVars, objectVars, active, leaseVars, sweepVars>>

MoveEnd(c) ==
    /\ At(c, "moveEnd")
    /\ ReleaseLock(req[c].job, req[c].token)
    /\ Finish(c)
    /\ UNCHANGED <<indexVars, objectVars, active, clientJobs, sweepVars>>

HadSlot(from) == from = "discardActiveMove"

MoveToDlq(c, from) ==
    LET j == req[c].job IN
    /\ At(c, from)
    /\ active' = IF HadSlot(from) THEN Released ELSE active
    /\ Bury(j)
    /\ Finish(c)
    /\ UNCHANGED <<processing, objectVars, leaseVars, sweepVars>>

-----------------------------------------------------------------------------
(***************************************************************************)
(* Stall detection.  A job found stale twice in a row is confirmed, with   *)
(* the verdict of that moment; handleStalledJob acts on the verdict once   *)
(* it has both locks.                                                      *)
(***************************************************************************)

\* Mutant of Stalled: only leased jobs are looked at.
StalledWithLease == {j \in processing : HasLease(j) /\ job[j].stale}
Stalled == {j \in processing : job[j].startedAt # 0 /\ job[j].stale}

\* checkStall, in which a maxStalls of 0 is a bound like any other.
\* Mutant of StallAction: the stall at hand is not counted.
StallActionLate(j) == IF job[j].stallCount >= MaxStalls THEN "dlq" ELSE "retry"
StallAction(j) == IF job[j].stallCount + 1 >= MaxStalls THEN "dlq" ELSE "retry"

CheckStalledJobs ==
    /\ Quiet
    /\ verdicts' =
         {[job |-> j, action |-> StallAction(j)] : j \in candidates \cap Stalled}
    /\ candidates' = Stalled
    /\ UNCHANGED <<indexVars, objectVars, active, leaseVars, lapsed, releasing, req>>

HandleStalled(v) ==
    LET j == v.job IN
    /\ v \in verdicts
    /\ verdicts' = verdicts \ {v}
    /\ IF StillProcessing(j)
       THEN /\ Reclaim(j)
            /\ ChargeStall(j)
            /\ IF v.action = "dlq" \/ AttemptsExhausted(j) THEN Bury(j) ELSE Enqueue(j)
       ELSE UNCHANGED <<indexVars, active, job>>
    /\ UNCHANGED <<deliveries, leaseVars, candidates, lapsed, releasing, req>>

-----------------------------------------------------------------------------
(***************************************************************************)
(* Lease expiry.  checkExpiredLocks drops the leases of jobs that are not  *)
(* active and collects the others; each is handled under both locks, if    *)
(* it is still the lease of the job and still expired.  Here a maxStalls   *)
(* of 0 means no bound.                                                    *)
(***************************************************************************)

Expired == {j \in Jobs : HasLease(j) /\ jobLocks[j].expired}

CheckExpiredLocks ==
    /\ Quiet
    /\ Expired # {}
    /\ lapsed' =
         {[job |-> j, token |-> jobLocks[j].token] : j \in Expired \cap processing}
    /\ jobLocks' = [j \in Jobs |-> IF j \in Expired \ processing THEN NoLease
                                                               ELSE jobLocks[j]]
    /\ UNCHANGED <<indexVars, objectVars, active, clientJobs,
                   candidates, verdicts, releasing, req>>

HandleExpired(x) ==
    LET j == x.job
        current == /\ StillProcessing(j)
                   /\ jobLocks[j].token = x.token
                   /\ jobLocks[j].expired
        stallsExhausted == MaxStalls > 0 /\ job[j].stallCount + 1 >= MaxStalls
    IN
    /\ x \in lapsed
    /\ lapsed' = lapsed \ {x}
    /\ IF current
       THEN /\ Reclaim(j)
            /\ ChargeStall(j)
            /\ IF AttemptsExhausted(j) \/ stallsExhausted THEN Bury(j) ELSE Enqueue(j)
            /\ DropLease(j)
       ELSE UNCHANGED <<indexVars, active, job, jobLocks>>
    /\ UNCHANGED <<deliveries, clientJobs, candidates, verdicts, releasing, req>>

-----------------------------------------------------------------------------
(***************************************************************************)
(* Disconnection.  releaseClientJobs collects the active jobs registered   *)
(* with the connection whose lease was never renewed, and puts each back   *)
(* in the queue; the registrations are forgotten when it ends.  The worker *)
(* may be alive and go on over another connection.                         *)
(***************************************************************************)

Disconnect(c) ==
    LET mine == {j \in clientJobs[c] :
                   /\ jobIndex[j] = "processing"
                   /\ j \in processing
                   /\ ~(HasLease(j) /\ jobLocks[j].renewed)}
    IN
    /\ Quiet
    /\ "disconnect" \in Hazards
    /\ clientJobs[c] # {}
    /\ releasing' = {[client |-> c, job |-> j] : j \in mine}
    /\ clientJobs' = IF mine = {} THEN [clientJobs EXCEPT ![c] = {}] ELSE clientJobs
    /\ UNCHANGED <<indexVars, objectVars, active, jobLocks,
                   candidates, verdicts, lapsed, req>>

ReleaseJob(r) ==
    LET j == r.job IN
    /\ r \in releasing
    /\ releasing' = releasing \ {r}
    /\ IF StillProcessing(j)
       THEN /\ Reclaim(j)
            /\ job' = [job EXCEPT ![j].startedAt = 0, ![j].stale = FALSE]
            /\ Enqueue(j)
            /\ DropLease(j)
       ELSE UNCHANGED <<indexVars, active, job, jobLocks>>
    /\ clientJobs' = IF releasing' = {} THEN [clientJobs EXCEPT ![r.client] = {}]
                                       ELSE clientJobs
    /\ UNCHANGED <<deliveries, candidates, verdicts, lapsed, req>>

-----------------------------------------------------------------------------
RequestStep(c) ==
    \/ RequeueAborted(c) \/ UnlinkAborted(c) \/ Finalize(c) \/ Lease(c)
    \/ AckClaim(c) \/ AckRelease(c) \/ AckCommit(c)
    \/ CompleteQueued(c, "completeFirst", "commitFirst")
    \/ CompleteQueued(c, "completeAgain", "commitAgain")
    \/ CommitQueued(c, "commitFirst") \/ CommitQueued(c, "commitAgain")
    \/ FailClaim(c) \/ FailMove(c) \/ FailEnd(c)
    \/ ClaimForMove(c, "moveClaim", "moveQueue")
    \/ ClaimForMove(c, "discardClaim", "discardActiveMove")
    \/ RemoveForDiscard(c) \/ MoveToQueue(c) \/ DelayInQueue(c) \/ MoveEnd(c)
    \/ MoveToDlq(c, "discardActiveMove") \/ MoveToDlq(c, "discardQueuedMove")

ClientStep(c) ==
    \/ \E j \in Jobs : Dequeue(c, j)
    \/ Heartbeat(c) \/ Ack(c) \/ Fail(c) \/ WorkerDies(c) \/ Disconnect(c)
    \/ \E j \in Jobs :
         MoveActive(c, j) \/ DiscardActive(c, j) \/ DiscardQueued(c, j) \/ DelayQueued(c, j)

Sweep ==
    \/ CheckStalledJobs
    \/ \E v \in verdicts : HandleStalled(v)
    \/ CheckExpiredLocks
    \/ \E x \in lapsed : HandleExpired(x)
    \/ \E r \in releasing : ReleaseJob(r)

Next ==
    \/ \E j \in Jobs : Push(j) \/ HeartbeatAges(j) \/ LeaseAges(j)
    \/ \E c \in Clients : ClientStep(c) \/ RequestStep(c)
    \/ Sweep

Spec == Init /\ [][Next]_vars

(***************************************************************************)
(* The event loop runs every section whose turn has come, the intervals of *)
(* background/lifecycle.ts fire for ever, and a job nobody heartbeats      *)
(* grows stale.  Nothing is assumed of clients and workers.                *)
(***************************************************************************)
Fairness ==
    /\ \A c \in Clients : WF_vars(RequestStep(c))
    /\ \A j \in Jobs : WF_vars(HeartbeatAges(j))
    /\ WF_vars(CheckStalledJobs)
    /\ WF_vars(\E v \in verdicts : HandleStalled(v))
    /\ WF_vars(\E x \in lapsed : HandleExpired(x))
    /\ WF_vars(\E r \in releasing : ReleaseJob(r))

FairSpec == Spec /\ Fairness

-----------------------------------------------------------------------------
(***************************************************************************)
(* Properties.                                                             *)
(***************************************************************************)

\* The handler of c has taken its job out of the processing map or out of the
\* queue, and has not put it anywhere yet.
ClaimSteps == {"ackRelease", "ackCommit", "failRetry", "failBury", "moveQueue",
               "discardActiveMove", "discardQueuedMove", "commitFirst", "commitAgain"}
Owners(j) == {c \in Clients : req[c].job = j /\ req[c].pc \in ClaimSteps}

\* The handler of c will still give back the slot of the job it has claimed.
HoldsSlot(c) == req[c].pc \in {"ackRelease", "failRetry", "failBury", "moveQueue",
                               "discardActiveMove"}
SlotHolders == processing \cup {req[c].job : c \in {d \in Clients : HoldsSlot(d)}}

\* Between its two sections requeueJob leaves the job in both places.
Unlinking(j) == \E c \in Clients : At(c, "unlink") /\ req[c].job = j

\* Every variable has its type.
TypeOK ==
    /\ queued \subseteq Jobs
    /\ processing \subseteq Jobs
    /\ jobIndex \in [Jobs -> Locations]
    /\ job \in [Jobs -> JobObjects]
    /\ deliveries \in [Jobs -> Nat]
    /\ active \in Nat
    /\ jobLocks \in [Jobs -> Leases]
    /\ clientJobs \in [Clients -> SUBSET Jobs]
    /\ candidates \subseteq Jobs
    /\ verdicts \subseteq [job : Jobs, action : Verdicts]
    /\ lapsed \subseteq [job : Jobs, token : Tokens]
    /\ releasing \subseteq [client : Clients, job : Jobs]
    /\ req \in [Clients -> Requests]

\* A job is in exactly one place - the queue, the processing map, the hands of
\* one handler, or its final place - whichever of ack, fail, the moves and the
\* three recovery paths try to take it at the same time.
OnePlace ==
    \A j \in Jobs : ~Unlinking(j) =>
        LET ended == jobIndex[j] \in Terminal \cup {"none"}
            places == {p \in {"queue", "processing", "end"} :
                         \/ p = "queue" /\ j \in queued
                         \/ p = "processing" /\ j \in processing
                         \/ p = "end" /\ ended}
        IN  Cardinality(places) + Cardinality(Owners(j)) = 1

\* Whenever no handler has the job in hand, the index names the collection
\* that really holds it: a lookup by id never misses a live job.
IndexAgrees ==
    \A j \in Jobs : Owners(j) = {} /\ ~Unlinking(j) =>
        /\ (jobIndex[j] = "queue") <=> (j \in queued)
        /\ (jobIndex[j] = "processing") <=> (j \in processing)

\* No concurrency slot leaks: each slot in use belongs to a job that is active
\* or to a handler that will give it back, whatever path the job leaves by.
NoSlotLeak == active <= Cardinality(SlotHolders)

\* The queue never has more jobs active than its concurrency limit.
LimitHonoured == Cardinality({j \in processing : ~Unlinking(j)}) <= Limit

\* Failures, stalls and expired leases all spend the same retry budget, and a
\* job that has spent it is never offered again.
RetryBudget == \A j \in queued \cup processing : job[j].attempts < MaxAttempts

\* Stall detection and lease expiry share one stall budget: a job is never
\* offered again when the two of them together have used it up.  A maxStalls
\* of 0 is no bound for lease expiry.
StallBudget == MaxStalls > 0 => \A j \in queued \cup processing : job[j].stallCount < MaxStalls

\* Stall detection watches every active job: none sits in the processing map
\* with a null startedAt, which checkStall takes for a job that is not active.
ActiveIsWatched == \A j \in processing : job[j].startedAt # 0 \/ Unlinking(j)

\* The worker of c holds an unexpired lease of the delivery that goes on.
Current(c) ==
    LET j == req[c].job IN
    At(c, "working") /\ j \in processing /\ req[c].token = <<c, job[j].startedAt>>
HoldsLease(c) ==
    LET lease == jobLocks[req[c].job] IN
    Current(c) /\ lease.token = req[c].token /\ ~lease.expired

\* What may take the lease of an active job j from its worker: a call without a
\* token that ends, a move that claims the job, and the close of a connection
\* with which the job is registered.
TokenlessCallEnds(j) ==
    \E c \in Clients : req[c].token = NoToken /\ req[c].job = j /\ req'[c].job = NoJob
ClaimedByMove(j) ==
    \E c \in Clients :
        /\ req[c].pc \in {"moveClaim", "discardClaim"} /\ req[c].job = j
        /\ req'[c].pc \in {"moveQueue", "discardActiveMove"}
ReleasedByClose(j) == \E r \in releasing : r.job = j /\ r \notin releasing'

\* An unexpired lease of a delivery that goes on is dropped by nothing else:
\* late outcomes of earlier deliveries, stall detection, the expiry of leases
\* and the end of an aborted pull leave it alone.  The connection that closes
\* may be one of an earlier delivery: see ReleasesOwn.
CurrentKeepsLease ==
    [][\A c \in Clients :
         LET j == req[c].job IN
         HoldsLease(c) /\ jobLocks'[j].token # req[c].token
             => TokenlessCallEnds(j) \/ ClaimedByMove(j) \/ ReleasedByClose(j)]_vars

\* A connection that closes releases the jobs that were pulled over it, and
\* not one that another connection holds an unexpired lease of.
ReleasesOwn ==
    \A r \in releasing : \A c \in Clients \ {r.client} : req[c].job = r.job => ~HoldsLease(c)

\* A job that was completed or buried stays so: no late outcome, recovery path
\* or move revives it.
TerminalIsFinal ==
    [][\A j \in Jobs : jobIndex[j] \in Terminal => jobIndex'[j] = jobIndex[j]]_vars

\* What ack takes out of the processing map is the delivery that its token was
\* made for: a stale worker never completes the delivery that replaced its own.
AckOwnsGeneration ==
    \A c \in Clients :
        At(c, "ackRelease") /\ req[c].token # NoToken
            => req[c].token = <<c, job[req[c].job].startedAt>>

\* A job whose worker is gone is taken back: it does not stay active for ever.
Abandoned(j) == j \in processing /\ \A c \in Clients : req[c].job # j
AbandonedIsReclaimed == \A j \in Jobs : Abandoned(j) ~> ~Abandoned(j)
=============================================================================
