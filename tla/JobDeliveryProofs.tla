------------------------- MODULE JobDeliveryProofs -------------------------
(***************************************************************************)
(* Proofs about JobDelivery, for any finite sets of jobs and clients, any  *)
(* limit and any budgets: types, under every hazard; and, as long as no    *)
(* pull is aborted, that a job is in one place and the index says so, that *)
(* slots come back, that the retry and stall budgets hold, that stall      *)
(* detection sees every active job, that an outcome is final, that a       *)
(* delivery keeps its lease, and that the limit is honoured unless an ack  *)
(* finds its job back in the queue.  Aborted pulls are the subject of a    *)
(* section of their own.                                                   *)
(*                                                                         *)
(* Most of these follow from where a job is and who has it in hand         *)
(* (Placed): claims are by id, under one lock or the other, and what makes *)
(* them exclusive is that each handler keeps the job out of both           *)
(* collections until it has settled its fate.  So the invariant is stated  *)
(* job by job.  A section touches one job at most: the others stay placed  *)
(* because nothing about them changed (Same), and its own job goes from    *)
(* one place to another.                                                   *)
(***************************************************************************)
EXTENDS JobDelivery, FiniteSetTheorems, TLAPS

-----------------------------------------------------------------------------
(***************************************************************************)
(* Types.  TypeOK in parts, so that a section needs to look only at those  *)
(* it changes, and with the job of a handler that is under way.            *)
(***************************************************************************)

CollectionsTyped == queued \subseteq Jobs /\ processing \subseteq Jobs
IndexTyped == jobIndex \in [Jobs -> Locations]
ObjectsTyped ==
    /\ job \in [Jobs -> JobObjects]
    /\ deliveries \in [Jobs -> Nat]
    /\ active \in Nat
LocksTyped == jobLocks \in [Jobs -> Leases]
ClientJobsTyped == clientJobs \in [Clients -> SUBSET Jobs]
SweepsTyped ==
    /\ candidates \subseteq Jobs
    /\ verdicts \subseteq [job : Jobs, action : Verdicts]
    /\ lapsed \subseteq [job : Jobs, token : Tokens]
    /\ releasing \subseteq [client : Clients, job : Jobs]
RequestsTyped ==
    /\ req \in [Clients -> Requests]
    /\ \A c \in Clients : req[c].pc # "idle" => req[c].job \in Jobs

Typed ==
    /\ CollectionsTyped /\ IndexTyped /\ ObjectsTyped
    /\ LocksTyped /\ ClientJobsTyped
    /\ SweepsTyped
    /\ RequestsTyped

LEMMA TypedInit == Init => Typed
  BY DEF Init, Typed, CollectionsTyped, IndexTyped, ObjectsTyped, LocksTyped, ClientJobsTyped,
         SweepsTyped, RequestsTyped, Locations, NewJob, JobObjects, NoLease, Leases, Tokens,
         NoToken, Idle, Requests, Steps

\* What the shared steps of the handlers leave typed.

LEMMA HasItsJob ==
    ASSUME RequestsTyped, NEW c \in Clients, req[c].pc # "idle"
    PROVE  req[c].job \in Jobs
  BY DEF RequestsTyped

LEMMA GotoTyped ==
    ASSUME RequestsTyped, NEW c \in Clients, NEW s \in Steps,
           req[c].pc # "idle", Goto(c, s)
    PROVE  RequestsTyped'
  BY DEF Goto, RequestsTyped, Requests

LEMMA FinishTyped ==
    ASSUME RequestsTyped, NEW c \in Clients, Finish(c)
    PROVE  RequestsTyped'
  BY DEF Finish, RequestsTyped, Requests, Idle, NoToken, Tokens, Steps

LEMMA DropLeaseTyped ==
    ASSUME LocksTyped, NEW j, DropLease(j)
    PROVE  LocksTyped'
  BY DEF LocksTyped, DropLease, NoLease, Leases, Tokens, NoToken

LEMMA ReleaseLockTyped ==
    ASSUME LocksTyped, NEW j, NEW t, ReleaseLock(j, t)
    PROVE  LocksTyped'
  BY DEF LocksTyped, ReleaseLock, NoLease, Leases, Tokens, NoToken

LEMMA UnregisterTyped ==
    ASSUME ClientJobsTyped, NEW c, NEW j, Unregister(c, j)
    PROVE  ClientJobsTyped'
  BY DEF ClientJobsTyped, Unregister

LEMMA DetachTyped ==
    ASSUME ClientJobsTyped, NEW j, Detach(j)
    PROVE  ClientJobsTyped'
  BY DEF ClientJobsTyped, Detach

LEMMA ChargeStallTyped ==
    ASSUME ObjectsTyped, NEW j, ChargeStall(j)
    PROVE  job' \in [Jobs -> JobObjects]
<1>1. ASSUME j \in Jobs
      PROVE  [attempts |-> job[j].attempts + 1, stallCount |-> job[j].stallCount + 1,
              startedAt |-> 0, stale |-> FALSE] \in JobObjects
  BY <1>1 DEF ObjectsTyped, JobObjects
<1> QED
  BY <1>1 DEF ObjectsTyped, ChargeStall

LEMMA StartTyped ==
    ASSUME ObjectsTyped, NEW j \in Jobs, Start(j)
    PROVE  job' \in [Jobs -> JobObjects]
<1>1. job[j] \in JobObjects /\ deliveries[j] + 1 \in Nat
  BY DEF ObjectsTyped
<1>2. [[job[j] EXCEPT !.startedAt = deliveries[j] + 1] EXCEPT !.stale = FALSE] \in JobObjects
  BY <1>1 DEF JobObjects
<1>3. job' = [job EXCEPT ![j] = [[@ EXCEPT !.startedAt = deliveries[j] + 1] EXCEPT !.stale = FALSE]]
  BY DEF Start, ObjectsTyped
<1> QED
  BY <1>2, <1>3 DEF ObjectsTyped

LEMMA UntimeTyped ==
    ASSUME ObjectsTyped, NEW j, job' = [job EXCEPT ![j].startedAt = 0]
    PROVE  job' \in [Jobs -> JobObjects]
  BY DEF ObjectsTyped, JobObjects

LEMMA FreshTyped ==
    ASSUME ObjectsTyped, NEW j, NEW b \in BOOLEAN, job' = [job EXCEPT ![j].stale = b]
    PROVE  job' \in [Jobs -> JobObjects]
  BY DEF ObjectsTyped, JobObjects

-----------------------------------------------------------------------------
(***************************************************************************)
(* Types, section by section.                                              *)
(***************************************************************************)

LEMMA PushTyped ==
    ASSUME Typed, NEW j \in Jobs, Push(j)
    PROVE  Typed'
  BY DEF Push, Enqueue, Locations, Typed, CollectionsTyped, IndexTyped, ObjectsTyped,
         LocksTyped, ClientJobsTyped, SweepsTyped, RequestsTyped, objectVars, leaseVars, sweepVars

LEMMA DequeueTyped ==
    ASSUME Typed, NEW c \in Clients, NEW j \in Jobs, Dequeue(c, j)
    PROVE  Typed'
<1>1. ObjectsTyped'
  BY StartTyped DEF Typed, Dequeue, ObjectsTyped
<1>2. RequestsTyped'
  BY DEF Typed, Dequeue, RequestsTyped, Requests, Steps, PullSteps
<1>3. CollectionsTyped' /\ IndexTyped' /\ LocksTyped' /\ ClientJobsTyped' /\ SweepsTyped'
  BY DEF Dequeue, Typed, CollectionsTyped, IndexTyped, LocksTyped, ClientJobsTyped,
         SweepsTyped, Locations, leaseVars, sweepVars
<1> QED
  BY <1>1, <1>2, <1>3 DEF Typed

LEMMA LeaseTyped ==
    ASSUME Typed, NEW c \in Clients, Lease(c)
    PROVE  Typed'
<1>1. PICK j \in Jobs : req[c].job = j
  BY HasItsJob DEF Typed, Lease, At
<1>2. deliveries[j] \in Nat
  BY DEF Typed, ObjectsTyped
<1>3. /\ <<c, deliveries[j]>> \in Tokens
      /\ [token |-> <<c, deliveries[j]>>, createdAt |-> deliveries[j],
          expired |-> FALSE, renewed |-> FALSE] \in Leases
  BY <1>2 DEF Leases, Tokens
<1>4. LocksTyped'
  BY <1>1, <1>3 DEF Typed, LocksTyped, Lease
<1>5. ClientJobsTyped'
  <2>1. PICK before \in [Clients -> SUBSET Jobs] :
            clientJobs' = [before EXCEPT ![c] = @ \cup {j}]
    <3>1. [d \in Clients |-> clientJobs[d] \ {j}] \in [Clients -> SUBSET Jobs]
      BY DEF Typed, ClientJobsTyped
    <3>2. clientJobs \in [Clients -> SUBSET Jobs]
      BY DEF Typed, ClientJobsTyped
    <3> QED
      BY <1>1, <3>1, <3>2 DEF Lease
  <2> QED
    BY <2>1 DEF ClientJobsTyped
<1>6. RequestsTyped'
  <2>1. CASE MayLease(j)
    BY <1>1, <1>3, <2>1 DEF Typed, RequestsTyped, Requests, Lease, Steps
  <2>2. CASE ~MayLease(j)
    BY <1>1, <2>2, GotoTyped DEF Typed, Lease, Steps, At
  <2> QED
    BY <2>1, <2>2
<1>7. CollectionsTyped' /\ IndexTyped' /\ ObjectsTyped' /\ SweepsTyped'
  BY DEF Lease, Typed, CollectionsTyped, IndexTyped, ObjectsTyped, SweepsTyped,
         indexVars, objectVars, sweepVars
<1> QED
  BY <1>4, <1>5, <1>6, <1>7 DEF Typed

LEMMA HeartbeatTyped ==
    ASSUME Typed, NEW c \in Clients, Heartbeat(c)
    PROVE  Typed'
<1>1. ObjectsTyped'
  BY FreshTyped DEF Typed, Heartbeat, ObjectsTyped
<1>2. LocksTyped'
  BY DropLeaseTyped DEF Typed, Heartbeat, LocksTyped, Leases
<1>3. CollectionsTyped' /\ IndexTyped' /\ ClientJobsTyped' /\ SweepsTyped' /\ RequestsTyped'
  BY DEF Heartbeat, Typed, CollectionsTyped, IndexTyped, ClientJobsTyped, SweepsTyped,
         RequestsTyped, indexVars, sweepVars
<1> QED
  BY <1>1, <1>2, <1>3 DEF Typed

LEMMA AgingTyped ==
    ASSUME Typed, NEW j \in Jobs, HeartbeatAges(j) \/ LeaseAges(j)
    PROVE  Typed'
<1>1. ObjectsTyped'
  BY FreshTyped DEF Typed, HeartbeatAges, LeaseAges, ObjectsTyped, objectVars
<1>2. LocksTyped'
  BY DEF HeartbeatAges, LeaseAges, Typed, LocksTyped, Leases, leaseVars
<1>3. /\ CollectionsTyped' /\ IndexTyped' /\ ClientJobsTyped' /\ SweepsTyped'
      /\ RequestsTyped'
  BY DEF HeartbeatAges, LeaseAges, Typed, CollectionsTyped, IndexTyped, ClientJobsTyped,
         SweepsTyped, RequestsTyped, indexVars, leaseVars, sweepVars
<1> QED
  BY <1>1, <1>2, <1>3 DEF Typed

\* The sections that change requests, and perhaps leases, but no object and no
\* collection of a sweep.
LEMMA PullTyped ==
    ASSUME Typed, NEW c \in Clients,
           RequeueAborted(c) \/ UnlinkAborted(c) \/ Finalize(c) \/ WorkerDies(c)
    PROVE  Typed'
<1>1. RequestsTyped'
  BY GotoTyped, FinishTyped
  DEF RequeueAborted, UnlinkAborted, Finalize, WorkerDies, Typed, At, Steps, PullSteps
<1>2. ObjectsTyped'
  BY UntimeTyped
  DEF RequeueAborted, UnlinkAborted, Finalize, WorkerDies, Released, Typed, ObjectsTyped, objectVars
<1>3. CollectionsTyped' /\ IndexTyped'
  <2>1. ~UNCHANGED queued => req[c].job \in Jobs
    BY HasItsJob DEF RequeueAborted, UnlinkAborted, Finalize, WorkerDies, Typed, At, indexVars
  <2> QED
    BY <2>1 DEF RequeueAborted, UnlinkAborted, Finalize, WorkerDies, Typed, CollectionsTyped,
                IndexTyped, Enqueue, Locations, indexVars
<1>4. LocksTyped' /\ ClientJobsTyped' /\ SweepsTyped'
  BY DEF RequeueAborted, UnlinkAborted, Finalize, WorkerDies, Typed, LocksTyped,
         ClientJobsTyped, SweepsTyped, leaseVars, sweepVars
<1> QED
  BY <1>1, <1>2, <1>3, <1>4 DEF Typed

LEMMA AckTyped ==
    ASSUME Typed, NEW c \in Clients, Ack(c) \/ AckClaim(c) \/ AckRelease(c) \/ AckCommit(c)
    PROVE  Typed'
<1>1. RequestsTyped'
  BY GotoTyped, FinishTyped
  DEF Ack, AckClaim, AckRelease, AckCommit, AckUnowned, Complete, Typed, At, Steps, AckSteps
<1>2. LocksTyped' /\ ClientJobsTyped'
  BY ReleaseLockTyped, UnregisterTyped
  DEF Ack, AckClaim, AckRelease, AckCommit, Complete, Typed, LocksTyped, ClientJobsTyped, leaseVars
<1>3. CollectionsTyped' /\ IndexTyped'
  BY DEF Ack, AckClaim, AckRelease, AckCommit, Complete, Typed, CollectionsTyped, IndexTyped,
         Locations, indexVars
<1>4. ObjectsTyped' /\ SweepsTyped'
  BY DEF Ack, AckClaim, AckRelease, AckCommit, Released, Typed, ObjectsTyped, SweepsTyped,
         objectVars, sweepVars
<1> QED
  BY <1>1, <1>2, <1>3, <1>4 DEF Typed

LEMMA QueuedAckTyped ==
    ASSUME Typed, NEW c \in Clients,
           NEW from \in AckSteps, NEW commit \in AckSteps,
           CompleteQueued(c, from, commit) \/ CommitQueued(c, from)
    PROVE  Typed'
<1>1. RequestsTyped'
  BY GotoTyped, FinishTyped
  DEF CompleteQueued, CommitQueued, Complete, Typed, At, Steps, AckSteps
<1>2. LocksTyped' /\ ClientJobsTyped'
  BY ReleaseLockTyped, UnregisterTyped
  DEF CompleteQueued, CommitQueued, Complete, Typed, LocksTyped, ClientJobsTyped, leaseVars
<1>3. CollectionsTyped' /\ IndexTyped'
  BY DEF CompleteQueued, CommitQueued, Complete, Typed, CollectionsTyped, IndexTyped, Locations
<1>4. ObjectsTyped' /\ SweepsTyped'
  BY DEF CompleteQueued, CommitQueued, Released, Typed, ObjectsTyped, SweepsTyped,
         objectVars, sweepVars
<1> QED
  BY <1>1, <1>2, <1>3, <1>4 DEF Typed

LEMMA FailTyped ==
    ASSUME Typed, NEW c \in Clients, Fail(c)
    PROVE  Typed'
<1>1. RequestsTyped'
  <2>1. CASE Finish(c)
    BY <2>1, FinishTyped DEF Typed
  <2>2. CASE req' = [req EXCEPT ![c].pc = "failClaim", ![c].hadLease = HasLease(req[c].job)]
    <3>1. req[c].job \in Jobs
      BY HasItsJob DEF Typed, Fail, At
    <3>2. [[req[c] EXCEPT !.pc = "failClaim"] EXCEPT !.hadLease = HasLease(req[c].job)]
            \in Requests
      BY DEF Typed, RequestsTyped, Requests, Steps, FailSteps, HasLease
    <3> QED
      BY <2>2, <3>1, <3>2 DEF Typed, RequestsTyped
  <2> QED
    BY <2>1, <2>2 DEF Fail
<1>2. LocksTyped'
  BY ReleaseLockTyped DEF Fail, Typed, LocksTyped
<1>3. CollectionsTyped' /\ IndexTyped' /\ ObjectsTyped' /\ ClientJobsTyped' /\ SweepsTyped'
  BY DEF Fail, Typed, CollectionsTyped, IndexTyped, ObjectsTyped, ClientJobsTyped, SweepsTyped,
         indexVars, objectVars, sweepVars
<1> QED
  BY <1>1, <1>2, <1>3 DEF Typed

LEMMA FailClaimTyped ==
    ASSUME Typed, NEW c \in Clients, FailClaim(c)
    PROVE  Typed'
<1>1. RequestsTyped'
  BY GotoTyped, FinishTyped DEF FailClaim, FailUnowned, Typed, At, Steps, FailSteps
<1>2. ObjectsTyped' /\ CollectionsTyped'
  BY DEF FailClaim, Typed, ObjectsTyped, JobObjects, CollectionsTyped
<1>3. LocksTyped'
  BY ReleaseLockTyped DEF FailClaim, FailUnowned, Typed, LocksTyped
<1>4. IndexTyped' /\ ClientJobsTyped' /\ SweepsTyped'
  BY DEF FailClaim, Typed, IndexTyped, ClientJobsTyped, SweepsTyped, sweepVars
<1> QED
  BY <1>1, <1>2, <1>3, <1>4 DEF Typed

LEMMA FailMoveTyped ==
    ASSUME Typed, NEW c \in Clients, FailMove(c) \/ FailEnd(c)
    PROVE  Typed'
<1>1. RequestsTyped'
  BY GotoTyped, FinishTyped DEF FailMove, FailEnd, FailUnowned, Typed, At, Steps, FailSteps
<1>2. ObjectsTyped'
  BY UntimeTyped DEF FailMove, FailEnd, Typed, ObjectsTyped, Released, objectVars
<1>3. LocksTyped' /\ ClientJobsTyped'
  BY ReleaseLockTyped, UnregisterTyped
  DEF FailMove, FailEnd, FailUnowned, Typed, LocksTyped, ClientJobsTyped
<1>4. CollectionsTyped' /\ IndexTyped'
  <2>1. req[c].job \in Jobs
    BY HasItsJob DEF FailMove, FailEnd, Typed, At
  <2> QED
    BY <2>1 DEF FailMove, FailEnd, Enqueue, Bury, Typed, CollectionsTyped, IndexTyped,
                Locations, indexVars
<1>5. SweepsTyped'
  BY DEF FailMove, FailEnd, Typed, SweepsTyped, sweepVars
<1> QED
  BY <1>1, <1>2, <1>3, <1>4, <1>5 DEF Typed

LEMMA MoveTyped ==
    ASSUME Typed, NEW c \in Clients, NEW j \in Jobs, NEW step \in Steps, NEW location,
           Move(c, j, step, location)
    PROVE  Typed'
<1>1. RequestsTyped'
  BY DEF Typed, Move, RequestsTyped, Requests
<1>2. /\ CollectionsTyped' /\ IndexTyped' /\ ObjectsTyped' /\ LocksTyped'
      /\ ClientJobsTyped' /\ SweepsTyped'
  BY DEF Move, Typed, CollectionsTyped, IndexTyped, ObjectsTyped, LocksTyped, ClientJobsTyped,
         SweepsTyped, indexVars, objectVars, leaseVars, sweepVars
<1> QED
  BY <1>1, <1>2 DEF Typed

LEMMA ClaimForMoveTyped ==
    ASSUME Typed, NEW c \in Clients, NEW from \in MoveSteps, NEW to \in MoveSteps,
           ClaimForMove(c, from, to)
    PROVE  Typed'
<1>1. RequestsTyped'
  BY GotoTyped, FinishTyped DEF ClaimForMove, Typed, At, Steps, MoveSteps
<1>2. ObjectsTyped'
  BY UntimeTyped DEF Typed, ClaimForMove, ObjectsTyped
<1>3. LocksTyped' /\ ClientJobsTyped'
  BY DropLeaseTyped, DetachTyped
  DEF ClaimForMove, Typed, LocksTyped, ClientJobsTyped, leaseVars
<1>4. CollectionsTyped' /\ IndexTyped' /\ SweepsTyped'
  BY DEF ClaimForMove, Typed, CollectionsTyped, IndexTyped, SweepsTyped, sweepVars
<1> QED
  BY <1>1, <1>2, <1>3, <1>4 DEF Typed

LEMMA MoveOnTyped ==
    ASSUME Typed, NEW c \in Clients,
           \/ RemoveForDiscard(c) \/ MoveToQueue(c) \/ DelayInQueue(c) \/ MoveEnd(c)
           \/ \E from \in MoveSteps : MoveToDlq(c, from)
    PROVE  Typed'
<1>1. RequestsTyped'
  BY GotoTyped, FinishTyped
  DEF RemoveForDiscard, MoveToQueue, DelayInQueue, MoveEnd, MoveToDlq, Typed, At, Steps, MoveSteps
<1>2. LocksTyped'
  BY ReleaseLockTyped
  DEF RemoveForDiscard, MoveToQueue, DelayInQueue, MoveEnd, MoveToDlq, Typed, LocksTyped, leaseVars
<1>3. CollectionsTyped' /\ IndexTyped'
  <2>1. req[c].job \in Jobs
    BY HasItsJob
    DEF RemoveForDiscard, MoveToQueue, DelayInQueue, MoveEnd, MoveToDlq, Typed, At, MoveSteps
  <2> QED
    BY <2>1
    DEF RemoveForDiscard, MoveToQueue, DelayInQueue, MoveEnd, MoveToDlq, Enqueue, Bury,
        Typed, CollectionsTyped, IndexTyped, Locations, indexVars
<1>4. ObjectsTyped' /\ ClientJobsTyped' /\ SweepsTyped'
  BY DEF RemoveForDiscard, MoveToQueue, DelayInQueue, MoveEnd, MoveToDlq, Released, Typed,
         ObjectsTyped, ClientJobsTyped, SweepsTyped, objectVars, leaseVars, sweepVars
<1> QED
  BY <1>1, <1>2, <1>3, <1>4 DEF Typed

LEMMA CheckTyped ==
    ASSUME Typed, CheckStalledJobs \/ CheckExpiredLocks
    PROVE  Typed'
<1>1. SweepsTyped'
  BY DEF CheckStalledJobs, Stalled, StallAction, Verdicts, CheckExpiredLocks, Expired, Typed,
         CollectionsTyped, SweepsTyped, LocksTyped, Leases
<1>2. LocksTyped'
  <2>1. CASE CheckStalledJobs
    BY <2>1 DEF CheckStalledJobs, Typed, LocksTyped, leaseVars
  <2>2. CASE CheckExpiredLocks
    <3>1. NoLease \in Leases
      BY DEF NoLease, Leases, Tokens, NoToken
    <3> QED
      BY <2>2, <3>1 DEF CheckExpiredLocks, Typed, LocksTyped
  <2> QED
    BY <2>1, <2>2
<1>3. CollectionsTyped' /\ IndexTyped' /\ ObjectsTyped' /\ ClientJobsTyped' /\ RequestsTyped'
  BY DEF CheckStalledJobs, CheckExpiredLocks, Typed, CollectionsTyped, IndexTyped, ObjectsTyped,
         ClientJobsTyped, RequestsTyped, indexVars, objectVars, leaseVars
<1> QED
  BY <1>1, <1>2, <1>3 DEF Typed

LEMMA HandleTyped ==
    ASSUME Typed,
           \/ \E v \in verdicts : HandleStalled(v)
           \/ \E x \in lapsed : HandleExpired(x)
    PROVE  Typed'
<1>1. ObjectsTyped'
  BY ChargeStallTyped
  DEF HandleStalled, HandleExpired, Typed, ObjectsTyped, Reclaim, Released
<1>2. LocksTyped'
  BY DropLeaseTyped DEF HandleStalled, HandleExpired, Typed, LocksTyped, leaseVars
<1>3. CollectionsTyped' /\ IndexTyped'
  BY DEF HandleStalled, HandleExpired, Reclaim, Enqueue, Bury, StillProcessing, Typed,
         CollectionsTyped, IndexTyped, Locations, SweepsTyped, indexVars
<1>4. SweepsTyped' /\ ClientJobsTyped' /\ RequestsTyped'
  BY DEF HandleStalled, HandleExpired, Typed, SweepsTyped, ClientJobsTyped, RequestsTyped, leaseVars
<1> QED
  BY <1>1, <1>2, <1>3, <1>4 DEF Typed

LEMMA DisconnectTyped ==
    ASSUME Typed, NEW c \in Clients, Disconnect(c)
    PROVE  Typed'
<1>1. SweepsTyped' /\ ClientJobsTyped'
  BY DEF Disconnect, Typed, SweepsTyped, ClientJobsTyped
<1>2. CollectionsTyped' /\ IndexTyped' /\ ObjectsTyped' /\ LocksTyped' /\ RequestsTyped'
  BY DEF Disconnect, Typed, CollectionsTyped, IndexTyped, ObjectsTyped, LocksTyped,
         RequestsTyped, indexVars, objectVars
<1> QED
  BY <1>1, <1>2 DEF Typed

LEMMA ReleaseJobTyped ==
    ASSUME Typed, NEW r \in releasing, ReleaseJob(r)
    PROVE  Typed'
<1>1. ObjectsTyped'
  BY DEF ReleaseJob, Reclaim, Released, Typed, ObjectsTyped, JobObjects
<1>2. LocksTyped'
  BY DropLeaseTyped DEF ReleaseJob, Typed, LocksTyped
<1>3. CollectionsTyped' /\ IndexTyped'
  BY DEF ReleaseJob, Reclaim, Enqueue, StillProcessing, Typed, CollectionsTyped, IndexTyped,
         Locations, SweepsTyped, indexVars
<1>4. SweepsTyped' /\ ClientJobsTyped' /\ RequestsTyped'
  BY DEF ReleaseJob, Typed, SweepsTyped, ClientJobsTyped, RequestsTyped
<1> QED
  BY <1>1, <1>2, <1>3, <1>4 DEF Typed

LEMMA TypedNext ==
    ASSUME Typed, [Next]_vars
    PROVE  Typed'
<1>1. ASSUME NEW j \in Jobs, Push(j) \/ HeartbeatAges(j) \/ LeaseAges(j)
      PROVE  Typed'
  BY <1>1, PushTyped, AgingTyped
<1>2. ASSUME NEW c \in Clients, ClientStep(c)
      PROVE  Typed'
  <2>1. ASSUME NEW j \in Jobs,
               MoveActive(c, j) \/ DiscardActive(c, j) \/ DiscardQueued(c, j) \/ DelayQueued(c, j)
        PROVE  Typed'
    BY <2>1, MoveTyped DEF MoveActive, DiscardActive, DiscardQueued, DelayQueued, Steps, MoveSteps
  <2> QED
    BY <1>2, <2>1, DequeueTyped, HeartbeatTyped, AckTyped, FailTyped, PullTyped, DisconnectTyped
    DEF ClientStep
<1>3. ASSUME NEW c \in Clients, RequestStep(c)
      PROVE  Typed'
  <2>1. CASE \/ CompleteQueued(c, "completeFirst", "commitFirst")
             \/ CompleteQueued(c, "completeAgain", "commitAgain")
             \/ CommitQueued(c, "commitFirst") \/ CommitQueued(c, "commitAgain")
    BY <2>1, QueuedAckTyped DEF AckSteps
  <2>2. CASE \/ ClaimForMove(c, "moveClaim", "moveQueue")
             \/ ClaimForMove(c, "discardClaim", "discardActiveMove")
             \/ RemoveForDiscard(c) \/ MoveToQueue(c) \/ DelayInQueue(c) \/ MoveEnd(c)
             \/ MoveToDlq(c, "discardActiveMove") \/ MoveToDlq(c, "discardQueuedMove")
    BY <2>2, ClaimForMoveTyped, MoveOnTyped DEF MoveSteps
  <2> QED
    BY <1>3, <2>1, <2>2, PullTyped, LeaseTyped, AckTyped, FailClaimTyped, FailMoveTyped
    DEF RequestStep
<1>4. CASE Sweep
  BY <1>4, CheckTyped, HandleTyped, ReleaseJobTyped DEF Sweep
<1>5. CASE UNCHANGED vars
  BY <1>5 DEF vars, indexVars, objectVars, leaseVars, sweepVars, Typed, CollectionsTyped,
              IndexTyped, ObjectsTyped, LocksTyped, ClientJobsTyped, SweepsTyped, RequestsTyped
<1> QED
  BY <1>1, <1>2, <1>3, <1>4, <1>5 DEF Next

-----------------------------------------------------------------------------
(***************************************************************************)
(* The inductive invariant.                                                *)
(***************************************************************************)

\* The handlers that took their job out of the queue; the other claims are from
\* the processing map.
WaitingClaims == {"discardQueuedMove", "commitFirst", "commitAgain"}
\* The handler of c has j in hand.
Owns(c, j) == req[c].job = j /\ req[c].pc \in ClaimSteps
Unowned(j) == \A c \in Clients : ~Owns(c, j)
SoleOwner(c, j) == \A d \in Clients : Owns(d, j) => d = c

\* The job has attempts and stalls left.
Fit(j) == job[j].attempts < MaxAttempts /\ (MaxStalls > 0 => job[j].stallCount < MaxStalls)

\* The four places of a job.  A job that is to go back to the queue is fit for it.
Waiting(j) ==
    /\ j \in queued /\ j \notin processing /\ jobIndex[j] = "queue"
    /\ Unowned(j) /\ Fit(j)
Active(j) ==
    /\ j \notin queued /\ j \in processing /\ jobIndex[j] = "processing"
    /\ Unowned(j) /\ Fit(j) /\ job[j].startedAt # 0
HeldBy(c, j) ==
    /\ j \notin queued /\ j \notin processing
    /\ Owns(c, j) /\ SoleOwner(c, j)
    /\ jobIndex[j] = IF req[c].pc \in WaitingClaims THEN "queue" ELSE "processing"
    /\ req[c].pc \in {"failRetry", "moveQueue"} => Fit(j)
Out(j) ==
    /\ j \notin queued /\ j \notin processing /\ jobIndex[j] \in Terminal \cup {"none"}
    /\ Unowned(j)
    /\ jobIndex[j] = "none" => Fit(j)
Placed(j) == Waiting(j) \/ Active(j) \/ (\E c \in Clients : HeldBy(c, j)) \/ Out(j)

\* No pull is being aborted.
NobodyUnlinks == \A c \in Clients : ~At(c, "unlink")

\* What stall detection decided is still so when it is carried out: there is one
\* verdict a job, and no lease expires in the same turn.
VerdictsHold ==
    /\ \A v \in verdicts : v.action = "retry" => job[v.job].stallCount + 1 < MaxStalls
    /\ \A v, w \in verdicts : v.job = w.job => v = w
    /\ verdicts # {} => lapsed = {}

IInv ==
    /\ Typed
    /\ \A j \in Jobs : Placed(j)
    /\ NobodyUnlinks
    /\ VerdictsHold
    /\ NoSlotLeak

-----------------------------------------------------------------------------
(***************************************************************************)
(* What a step leaves alone.                                               *)
(***************************************************************************)

\* A step does not touch job k.
OwnersSame(k) == \A d \in Clients : Owns(d, k) \/ Owns(d, k)' => req'[d] = req[d]
Same(k) ==
    /\ (k \in queued') <=> (k \in queued)
    /\ (k \in processing') <=> (k \in processing)
    /\ jobIndex'[k] = jobIndex[k]
    /\ job'[k].attempts = job[k].attempts
    /\ job'[k].stallCount = job[k].stallCount
    /\ job'[k].startedAt = job[k].startedAt
    /\ OwnersSame(k)
OthersSame(j) == \A k \in Jobs \ {j} : Same(k)

LEMMA SameStaysPlaced ==
    ASSUME NEW k \in Jobs, Placed(k), Same(k)
    PROVE  Placed(k)'
<1>1. Unowned(k) => Unowned(k)'
  BY DEF Same, OwnersSame, Unowned, Owns
<1>2. Fit(k) => Fit(k)'
  BY DEF Same, Fit
<1>3. ASSUME NEW c \in Clients, HeldBy(c, k)
      PROVE  HeldBy(c, k)'
  <2>1. req'[c] = req[c] /\ Owns(c, k)'
    BY <1>3 DEF HeldBy, Same, OwnersSame, Owns
  <2>2. SoleOwner(c, k)'
    BY <1>3 DEF HeldBy, Same, OwnersSame, Owns, SoleOwner
  <2> QED
    BY <1>2, <1>3, <2>1, <2>2 DEF HeldBy, Same
<1> QED
  BY <1>1, <1>2, <1>3 DEF Placed, Waiting, Active, Out, Same

\* The handler of c goes on, or ends.
LEMMA GotoMoves ==
    ASSUME RequestsTyped, NEW c \in Clients, NEW s, Goto(c, s)
    PROVE  /\ req'[c].pc = s /\ req'[c].job = req[c].job
           /\ \A d \in Clients : d # c => req'[d] = req[d]
  BY DEF RequestsTyped, Requests, Goto

LEMMA FinishMoves ==
    ASSUME RequestsTyped, NEW c \in Clients, Finish(c)
    PROVE  /\ req'[c].pc = "idle"
           /\ \A d \in Clients : d # c => req'[d] = req[d]
  BY DEF RequestsTyped, Requests, Finish, Idle

\* It concerns no job but its own.
LEMMA OthersOwnersSame ==
    ASSUME RequestsTyped, NEW c \in Clients, NEW k, k # req[c].job,
           Finish(c) \/ \E s \in Steps : Goto(c, s)
    PROVE  OwnersSame(k)
<1>1. CASE Finish(c)
  BY <1>1, FinishMoves DEF OwnersSame, Owns, ClaimSteps
<1>2. ASSUME NEW s \in Steps, Goto(c, s)
      PROVE  OwnersSame(k)
  BY <1>2, GotoMoves DEF OwnersSame, Owns
<1> QED
  BY <1>1, <1>2

\* Nor its own, unless it has claimed it or claims it now.
LEMMA NoClaimOwnersSame ==
    ASSUME RequestsTyped, NEW c \in Clients, NEW k, req[c].pc \notin ClaimSteps,
           Finish(c) \/ \E s \in Steps \ ClaimSteps : Goto(c, s)
    PROVE  OwnersSame(k)
<1>1. CASE Finish(c)
  BY <1>1, FinishMoves DEF OwnersSame, Owns, ClaimSteps
<1>2. ASSUME NEW s \in Steps \ ClaimSteps, Goto(c, s)
      PROVE  OwnersSame(k)
  BY <1>2, GotoMoves DEF OwnersSame, Owns
<1> QED
  BY <1>1, <1>2

LEMMA NoRequestOwnersSame ==
    ASSUME UNCHANGED req, NEW k
    PROVE  OwnersSame(k)
  BY DEF OwnersSame

\* A claim makes the handler the only owner, and its end leaves none.
LEMMA Claims ==
    ASSUME RequestsTyped, NEW c \in Clients, NEW j, j = req[c].job,
           SoleOwner(c, j), NEW s \in ClaimSteps, Goto(c, s)
    PROVE  Owns(c, j)' /\ SoleOwner(c, j)' /\ req'[c].pc = s
  BY GotoMoves DEF Owns, SoleOwner

LEMMA LetsGo ==
    ASSUME RequestsTyped, NEW c \in Clients, NEW j, SoleOwner(c, j),
           Finish(c) \/ \E s \in Steps \ ClaimSteps : Goto(c, s)
    PROVE  Unowned(j)'
<1>1. CASE Finish(c)
  BY <1>1, FinishMoves DEF Owns, SoleOwner, Unowned, ClaimSteps
<1>2. ASSUME NEW s \in Steps \ ClaimSteps, Goto(c, s)
      PROVE  Unowned(j)'
  BY <1>2, GotoMoves DEF Owns, SoleOwner, Unowned
<1> QED
  BY <1>1, <1>2

LEMMA NoUnlink ==
    ASSUME RequestsTyped, NobodyUnlinks, NEW c \in Clients,
           Finish(c) \/ \E s \in Steps \ {"unlink"} : Goto(c, s)
    PROVE  NobodyUnlinks'
<1>1. CASE Finish(c)
  BY <1>1, FinishMoves DEF NobodyUnlinks, At
<1>2. ASSUME NEW s \in Steps \ {"unlink"}, Goto(c, s)
      PROVE  NobodyUnlinks'
  BY <1>2, GotoMoves DEF NobodyUnlinks, At
<1> QED
  BY <1>1, <1>2

\* What it means to find a job somewhere.
LEMMA Found ==
    ASSUME NEW j, Placed(j)
    PROVE  /\ j \in queued => Waiting(j)
           /\ j \in processing => Active(j)
           /\ \A c \in Clients : Owns(c, j) => HeldBy(c, j)
           /\ \A c \in Clients : Waiting(j) \/ Active(j) \/ Out(j) => SoleOwner(c, j)
  BY DEF Placed, Waiting, Active, Out, HeldBy, SoleOwner, Unowned

-----------------------------------------------------------------------------
(***************************************************************************)
(* Slots.                                                                  *)
(***************************************************************************)

LEMMA SlotHoldersFinite ==
    ASSUME Typed
    PROVE  /\ SlotHolders \subseteq Jobs
           /\ IsFiniteSet(SlotHolders) /\ Cardinality(SlotHolders) \in Nat
<1>1. \A c \in Clients : HoldsSlot(c) => req[c].job \in Jobs
  BY HasItsJob DEF Typed, HoldsSlot
<1>2. SlotHolders \subseteq Jobs
  BY <1>1 DEF SlotHolders, Typed, CollectionsTyped
<1> QED
  BY <1>2, JobsAssumption, FS_Subset, FS_CardinalityType

\* The same in the next state.
LEMMA SlotHoldersFiniteNext ==
    ASSUME Typed'
    PROVE  IsFiniteSet(SlotHolders') /\ Cardinality(SlotHolders') \in Nat
<1>1. \A c \in Clients : HoldsSlot(c)' => req'[c].job \in Jobs
  BY DEF Typed, RequestsTyped, HoldsSlot
<1>2. SlotHolders' \subseteq Jobs
  BY <1>1 DEF SlotHolders, Typed, CollectionsTyped
<1> QED
  BY <1>2, JobsAssumption, FS_Subset, FS_CardinalityType

LEMMA OthersKeepSlots ==
    ASSUME NEW j, OthersSame(j), Typed
    PROVE  SlotHolders \ {j} \subseteq SlotHolders'
<1> SUFFICES ASSUME NEW k \in SlotHolders \ {j}
             PROVE  k \in SlotHolders'
  OBVIOUS
<1>1. k \in Jobs /\ Same(k)
  BY SlotHoldersFinite DEF OthersSame
<1>2. CASE k \in processing
  BY <1>1, <1>2 DEF Same, SlotHolders
<1>3. CASE \E c \in Clients : HoldsSlot(c) /\ req[c].job = k
  <2>1. PICK c \in Clients : HoldsSlot(c) /\ req[c].job = k
    BY <1>3
  <2>2. Owns(c, k)
    BY <2>1 DEF Owns, HoldsSlot, ClaimSteps
  <2>3. req'[c] = req[c]
    BY <1>1, <2>2 DEF Same, OwnersSame
  <2>4. HoldsSlot(c)' /\ req'[c].job = k
    BY <2>1, <2>3 DEF HoldsSlot
  <2> QED
    BY <2>4 DEF SlotHolders
<1> QED
  BY <1>2, <1>3 DEF SlotHolders

LEMMA SlotGivenBack ==
    ASSUME Typed, Typed', NoSlotLeak, NEW j, OthersSame(j), active' = Released
    PROVE  NoSlotLeak'
<1>1. IsFiniteSet(SlotHolders) /\ Cardinality(SlotHolders) \in Nat
  BY SlotHoldersFinite
<1>2. IsFiniteSet(SlotHolders') /\ Cardinality(SlotHolders') \in Nat
  BY SlotHoldersFiniteNext
<1>3. /\ IsFiniteSet(SlotHolders \ {j})
      /\ Cardinality(SlotHolders \ {j}) >= Cardinality(SlotHolders) - 1
  BY <1>1, FS_RemoveElement
<1>4. /\ Cardinality(SlotHolders \ {j}) \in Nat
      /\ Cardinality(SlotHolders \ {j}) <= Cardinality(SlotHolders')
  BY <1>2, <1>3, OthersKeepSlots, FS_Subset, FS_CardinalityType
<1>5. active \in Nat
  BY DEF Typed, ObjectsTyped
<1> QED
  BY <1>1, <1>2, <1>3, <1>4, <1>5 DEF NoSlotLeak, Released

LEMMA SlotKept ==
    ASSUME Typed, Typed', NoSlotLeak, NEW j, OthersSame(j), active' = active,
           j \in SlotHolders => j \in SlotHolders'
    PROVE  NoSlotLeak'
<1>1. SlotHolders \subseteq SlotHolders'
  BY OthersKeepSlots
<1>2. IsFiniteSet(SlotHolders') /\ Cardinality(SlotHolders') \in Nat
  BY SlotHoldersFiniteNext
<1>3. Cardinality(SlotHolders) \in Nat /\ Cardinality(SlotHolders) <= Cardinality(SlotHolders')
  BY <1>1, <1>2, SlotHoldersFinite, FS_Subset
<1>4. active \in Nat
  BY DEF Typed, ObjectsTyped
<1> QED
  BY <1>2, <1>3, <1>4 DEF NoSlotLeak

\* The verdicts of stall detection and the leases it excludes.
LEMMA VerdictsKept ==
    ASSUME VerdictsHold, SweepsTyped, verdicts' = verdicts, lapsed' = lapsed,
           \A j \in Jobs : job'[j].stallCount = job[j].stallCount
    PROVE  VerdictsHold'
  BY DEF VerdictsHold, SweepsTyped

-----------------------------------------------------------------------------
(***************************************************************************)
(* Every step touches one job at most.                                     *)
(***************************************************************************)

LEMMA StepOnNoJob ==
    ASSUME IInv, Typed', NobodyUnlinks', VerdictsHold', active' = active,
           \A k \in Jobs : Same(k)
    PROVE  IInv'
<1>1. \A k \in Jobs : Placed(k)'
  BY SameStaysPlaced DEF IInv
<1>2. NoSlotLeak'
  <2>1. OthersSame(NoJob)
    BY DEF OthersSame
  <2>2. NoJob \notin SlotHolders
    BY SlotHoldersFinite, JobsAssumption DEF IInv
  <2> QED
    BY <2>1, <2>2, SlotKept DEF IInv
<1> QED
  BY <1>1, <1>2 DEF IInv

LEMMA StepOnJob ==
    ASSUME IInv, Typed', NobodyUnlinks', VerdictsHold',
           NEW j \in Jobs, OthersSame(j), Placed(j)',
           \/ active' = Released
           \/ active' = active /\ (j \in SlotHolders => j \in SlotHolders')
    PROVE  IInv'
<1>1. \A k \in Jobs : Placed(k)'
  BY SameStaysPlaced DEF IInv, OthersSame
<1>2. NoSlotLeak'
  BY SlotGivenBack, SlotKept DEF IInv
<1> QED
  BY <1>1, <1>2 DEF IInv

\* The sections in which a handler comes and goes without a claim.
LEMMA NoClaimKeeps ==
    ASSUME IInv, Typed', UNCHANGED <<indexVars, objectVars, active, sweepVars>>,
           NEW c \in Clients, req[c].pc \notin ClaimSteps,
           Finish(c) \/ \E s \in Steps \ (ClaimSteps \cup {"unlink"}) : Goto(c, s)
    PROVE  IInv'
<1>1. \A k \in Jobs : Same(k)
  BY NoClaimOwnersSame DEF Same, indexVars, objectVars, IInv, Typed
<1>2. NobodyUnlinks'
  BY NoUnlink DEF IInv, Typed
<1>3. VerdictsHold'
  BY VerdictsKept DEF IInv, Typed, sweepVars, objectVars
<1> QED
  BY <1>1, <1>2, <1>3, StepOnNoJob

\* The steps of timers and calls that move no request.
LEMMA NoRequestKeeps ==
    ASSUME IInv, Typed', VerdictsHold', UNCHANGED <<indexVars, active, req>>,
           \A k \in Jobs : /\ job'[k].attempts = job[k].attempts
                           /\ job'[k].stallCount = job[k].stallCount
                           /\ job'[k].startedAt = job[k].startedAt
    PROVE  IInv'
<1>1. \A k \in Jobs : Same(k)
  BY NoRequestOwnersSame DEF Same, indexVars
<1>2. NobodyUnlinks'
  BY DEF IInv, NobodyUnlinks, At
<1> QED
  BY <1>1, <1>2, StepOnNoJob DEF indexVars

-----------------------------------------------------------------------------
(***************************************************************************)
(* The invariant, section by section.                                      *)
(***************************************************************************)

LEMMA PushKeeps ==
    ASSUME IInv, Typed', NEW j \in Jobs, Push(j)
    PROVE  IInv'
<1>1. Out(j) /\ Fit(j)
  BY DEF IInv, Placed, Waiting, Active, HeldBy, Out, Push
<1>2. OthersSame(j)
  BY NoRequestOwnersSame DEF OthersSame, Same, Push, Enqueue, objectVars, IInv, Typed, IndexTyped
<1>3. Waiting(j)'
  BY <1>1 DEF Out, Waiting, Push, Enqueue, Fit, Unowned, Owns, objectVars, IInv, Typed, IndexTyped
<1>4. j \notin SlotHolders
  BY <1>1 DEF Out, Unowned, Owns, SlotHolders, HoldsSlot, ClaimSteps
<1>5. NobodyUnlinks' /\ VerdictsHold'
  BY VerdictsKept DEF IInv, Typed, Push, NobodyUnlinks, At, sweepVars, objectVars
<1> QED
  BY <1>2, <1>3, <1>4, <1>5, StepOnJob DEF Push, Placed

LEMMA DequeueKeeps ==
    ASSUME IInv, Typed', NEW c \in Clients, NEW j \in Jobs, Dequeue(c, j)
    PROVE  IInv'
<1>1. Waiting(j)
  BY Found DEF IInv, Dequeue
<1>2. /\ req'[c].pc = "dequeued" /\ req[c].pc = "idle"
      /\ \A d \in Clients : d # c => req'[d] = req[d]
  BY DEF Dequeue, At, IInv, Typed, RequestsTyped, Requests
<1>3. \A k \in Jobs : OwnersSame(k)
  BY <1>2 DEF OwnersSame, Owns, ClaimSteps
<1>4. /\ job'[j].attempts = job[j].attempts
      /\ job'[j].stallCount = job[j].stallCount
      /\ job'[j].startedAt = deliveries[j] + 1
      /\ \A k \in Jobs \ {j} : job'[k] = job[k]
  BY DEF Dequeue, Start, IInv, Typed, ObjectsTyped, JobObjects
<1>5. OthersSame(j)
  BY <1>3, <1>4 DEF OthersSame, Same, Dequeue, IInv, Typed, IndexTyped
<1>6. Active(j)'
  <2>1. Unowned(j)'
    BY <1>1, <1>3 DEF Waiting, OwnersSame, Unowned, Owns
  <2>2. Fit(j)'
    BY <1>1, <1>4 DEF Waiting, Fit
  <2>3. deliveries[j] + 1 # 0
    BY DEF IInv, Typed, ObjectsTyped
  <2> QED
    BY <1>4, <2>1, <2>2, <2>3 DEF Active, Dequeue, IInv, Typed, IndexTyped
<1>7. NoSlotLeak'
  <2>1. j \notin SlotHolders
    BY <1>1 DEF Waiting, Unowned, Owns, SlotHolders, HoldsSlot, ClaimSteps
  <2>2. SlotHolders \cup {j} \subseteq SlotHolders'
    BY <1>5, <2>1, OthersKeepSlots DEF IInv, SlotHolders, Dequeue
  <2>3. Cardinality(SlotHolders \cup {j}) = Cardinality(SlotHolders) + 1
    BY <2>1, SlotHoldersFinite, FS_AddElement DEF IInv
  <2>4. Cardinality(SlotHolders \cup {j}) <= Cardinality(SlotHolders')
    BY <2>2, SlotHoldersFiniteNext, FS_Subset
  <2> QED
    BY <2>3, <2>4, SlotHoldersFinite, SlotHoldersFiniteNext
    DEF NoSlotLeak, Dequeue, IInv, Typed, ObjectsTyped
<1>8. NobodyUnlinks'
  BY <1>2 DEF IInv, NobodyUnlinks, At
<1>9. VerdictsHold'
  BY <1>4, VerdictsKept DEF IInv, Typed, Dequeue, sweepVars
<1>10. \A k \in Jobs : Placed(k)'
  BY <1>5, <1>6, SameStaysPlaced DEF IInv, OthersSame, Placed
<1> QED
  BY <1>7, <1>8, <1>9, <1>10 DEF IInv

LEMMA AckClaimKeeps ==
    ASSUME IInv, Typed', NEW c \in Clients, AckClaim(c)
    PROVE  IInv'
<1>1. PICK j \in Jobs : req[c].job = j
  BY HasItsJob DEF IInv, Typed, AckClaim, At
<1>2. CASE j \in processing
  <2>1. Active(j) /\ SoleOwner(c, j)
    BY <1>2, Found DEF IInv
  <2>2. Goto(c, "ackRelease") /\ "ackRelease" \in Steps \cap ClaimSteps
    BY <1>1, <1>2 DEF AckClaim, Steps, AckSteps, ClaimSteps
  <2>3. OthersSame(j)
    BY <1>1, <2>2, OthersOwnersSame DEF OthersSame, Same, AckClaim, objectVars, IInv, Typed
  <2>4. Owns(c, j)' /\ SoleOwner(c, j)' /\ req'[c].pc = "ackRelease"
    BY <1>1, <2>1, <2>2, Claims DEF IInv, Typed
  <2>5. HeldBy(c, j)'
    BY <1>1, <1>2, <2>1, <2>4 DEF HeldBy, Active, AckClaim, WaitingClaims
  <2>6. j \in SlotHolders'
    BY <2>4 DEF SlotHolders, HoldsSlot, Owns
  <2>7. NobodyUnlinks' /\ VerdictsHold'
    BY <2>2, NoUnlink, VerdictsKept DEF IInv, Typed, AckClaim, sweepVars, objectVars
  <2> QED
    BY <1>1, <1>2, <2>3, <2>5, <2>6, <2>7, StepOnJob DEF Placed, AckClaim
<1>3. CASE j \notin processing
  BY <1>1, <1>3, NoClaimKeeps DEF AckClaim, AckUnowned, At, ClaimSteps, Steps, AckSteps, indexVars
<1> QED
  BY <1>2, <1>3

LEMMA AckReleaseKeeps ==
    ASSUME IInv, Typed', NEW c \in Clients, AckRelease(c)
    PROVE  IInv'
<1>1. PICK j \in Jobs : req[c].job = j
  BY HasItsJob DEF IInv, Typed, AckRelease, At
<1>2. HeldBy(c, j) /\ jobIndex[j] = "processing"
  BY <1>1, Found DEF IInv, Owns, AckRelease, At, ClaimSteps, HeldBy, WaitingClaims
<1>3. Goto(c, "ackCommit") /\ "ackCommit" \in Steps \cap ClaimSteps
  BY <1>1, <1>2 DEF AckRelease, Steps, AckSteps, ClaimSteps
<1>4. OthersSame(j)
  BY <1>1, <1>3, OthersOwnersSame
  DEF OthersSame, Same, AckRelease, indexVars, objectVars, IInv, Typed
<1>5. Owns(c, j)' /\ SoleOwner(c, j)' /\ req'[c].pc = "ackCommit"
  BY <1>1, <1>2, <1>3, Claims DEF IInv, Typed, HeldBy
<1>6. HeldBy(c, j)'
  BY <1>2, <1>5 DEF HeldBy, AckRelease, WaitingClaims, indexVars
<1>7. NobodyUnlinks' /\ VerdictsHold'
  BY <1>3, NoUnlink, VerdictsKept DEF IInv, Typed, AckRelease, sweepVars, objectVars
<1> QED
  BY <1>1, <1>2, <1>4, <1>6, <1>7, StepOnJob DEF Placed, AckRelease

LEMMA AckCommitKeeps ==
    ASSUME IInv, Typed', NEW c \in Clients, AckCommit(c)
    PROVE  IInv'
<1>1. PICK j \in Jobs : req[c].job = j
  BY HasItsJob DEF IInv, Typed, AckCommit, At
<1>2. HeldBy(c, j) /\ jobIndex[j] = "processing"
  BY <1>1, Found DEF IInv, Owns, AckCommit, At, ClaimSteps, HeldBy, WaitingClaims
<1>3. Finish(c) /\ jobIndex' = [jobIndex EXCEPT ![j] = "completed"]
  BY <1>1, <1>2 DEF AckCommit, Complete
<1>4. OthersSame(j)
  BY <1>1, <1>3, OthersOwnersSame
  DEF OthersSame, Same, AckCommit, objectVars, IInv, Typed, IndexTyped
<1>5. Out(j)'
  BY <1>2, <1>3, LetsGo DEF HeldBy, Out, Terminal, AckCommit, IInv, Typed, IndexTyped
<1>6. j \notin SlotHolders
  BY <1>1, <1>2 DEF HeldBy, SoleOwner, Owns, SlotHolders, HoldsSlot, ClaimSteps, AckCommit, At
<1>7. NobodyUnlinks' /\ VerdictsHold'
  BY <1>3, NoUnlink, VerdictsKept DEF IInv, Typed, AckCommit, sweepVars, objectVars
<1> QED
  BY <1>4, <1>5, <1>6, <1>7, StepOnJob DEF Placed, AckCommit

LEMMA CompleteQueuedKeeps ==
    ASSUME IInv, Typed', NEW c \in Clients,
           NEW from \in {"completeFirst", "completeAgain"},
           NEW commit \in {"commitFirst", "commitAgain"}, CompleteQueued(c, from, commit)
    PROVE  IInv'
<1>1. PICK j \in Jobs : req[c].job = j
  BY HasItsJob DEF IInv, Typed, CompleteQueued, At
<1>2. CASE j \in queued
  <2>1. Waiting(j) /\ SoleOwner(c, j)
    BY <1>2, Found DEF IInv
  <2>2. Goto(c, commit) /\ commit \in Steps \cap ClaimSteps
    BY <1>1, <1>2 DEF CompleteQueued, Steps, AckSteps, ClaimSteps
  <2>3. OthersSame(j)
    BY <1>1, <2>2, OthersOwnersSame DEF OthersSame, Same, CompleteQueued, objectVars, IInv, Typed
  <2>4. Owns(c, j)' /\ SoleOwner(c, j)' /\ req'[c].pc = commit
    BY <1>1, <2>1, <2>2, Claims DEF IInv, Typed
  <2>5. HeldBy(c, j)'
    BY <1>1, <1>2, <2>1, <2>4 DEF HeldBy, Waiting, CompleteQueued, WaitingClaims
  <2>6. NobodyUnlinks' /\ VerdictsHold'
    BY <2>2, NoUnlink, VerdictsKept
    DEF IInv, Typed, CompleteQueued, sweepVars, objectVars, ClaimSteps
  <2> QED
    BY <1>1, <1>2, <2>3, <2>5, <2>6, StepOnJob DEF Placed, CompleteQueued
<1>3. CASE j \notin queued
  BY <1>1, <1>3, NoClaimKeeps DEF CompleteQueued, At, ClaimSteps, Steps, AckSteps, indexVars
<1> QED
  BY <1>2, <1>3

LEMMA CommitQueuedKeeps ==
    ASSUME IInv, Typed', NEW c \in Clients,
           NEW from \in {"commitFirst", "commitAgain"}, CommitQueued(c, from)
    PROVE  IInv'
<1>1. PICK j \in Jobs : req[c].job = j
  BY HasItsJob DEF IInv, Typed, CommitQueued, At
<1>2. HeldBy(c, j) /\ jobIndex[j] = "queue"
  BY <1>1, Found DEF IInv, Owns, CommitQueued, At, ClaimSteps, HeldBy, WaitingClaims
<1>3. Finish(c) /\ jobIndex' = [jobIndex EXCEPT ![j] = "completed"]
  BY <1>1, <1>2 DEF CommitQueued, Complete
<1>4. OthersSame(j)
  BY <1>1, <1>3, OthersOwnersSame
  DEF OthersSame, Same, CommitQueued, objectVars, IInv, Typed, IndexTyped
<1>5. Out(j)'
  BY <1>2, <1>3, LetsGo DEF HeldBy, Out, Terminal, CommitQueued, IInv, Typed, IndexTyped
<1>6. j \notin SlotHolders
  BY <1>1, <1>2 DEF HeldBy, SoleOwner, Owns, SlotHolders, HoldsSlot, ClaimSteps, CommitQueued, At
<1>7. NobodyUnlinks' /\ VerdictsHold'
  BY <1>3, NoUnlink, VerdictsKept DEF IInv, Typed, CommitQueued, sweepVars, objectVars
<1> QED
  BY <1>4, <1>5, <1>6, <1>7, StepOnJob DEF Placed, CommitQueued

LEMMA FailClaimKeeps ==
    ASSUME IInv, Typed', NEW c \in Clients, FailClaim(c)
    PROVE  IInv'
<1>1. PICK j \in Jobs : req[c].job = j
  BY HasItsJob DEF IInv, Typed, FailClaim, At
<1>2. CASE j \in processing
  <2>1. Active(j) /\ SoleOwner(c, j)
    BY <1>2, Found DEF IInv
  <2>2. PICK s \in {"failRetry", "failBury"} :
            Goto(c, s) /\ (s = "failRetry" => job[j].attempts + 1 < MaxAttempts)
    BY <1>1, <1>2 DEF FailClaim
  <2>3. s \in Steps \cap ClaimSteps
    BY DEF Steps, FailSteps, ClaimSteps
  <2>4. job' = [job EXCEPT ![j].attempts = @ + 1]
    BY <1>1, <1>2 DEF FailClaim
  <2>5. /\ \A k \in Jobs : job'[k].stallCount = job[k].stallCount
        /\ job'[j].attempts = job[j].attempts + 1
        /\ \A k \in Jobs \ {j} : job'[k] = job[k]
    BY <2>4 DEF IInv, Typed, ObjectsTyped, JobObjects
  <2>6. OthersSame(j)
    BY <1>1, <2>2, <2>3, <2>5, OthersOwnersSame DEF OthersSame, Same, FailClaim, IInv, Typed
  <2>7. Owns(c, j)' /\ SoleOwner(c, j)' /\ req'[c].pc = s
    BY <1>1, <2>1, <2>2, <2>3, Claims DEF IInv, Typed
  <2>8. HeldBy(c, j)'
    BY <1>1, <1>2, <2>1, <2>2, <2>5, <2>7 DEF HeldBy, Active, FailClaim, WaitingClaims, Fit
  <2>9. j \in SlotHolders'
    BY <2>7 DEF SlotHolders, HoldsSlot, Owns
  <2>10. NobodyUnlinks' /\ VerdictsHold'
    BY <2>2, <2>3, <2>5, NoUnlink, VerdictsKept DEF IInv, Typed, FailClaim, sweepVars, ClaimSteps
  <2> QED
    BY <1>1, <1>2, <2>6, <2>8, <2>9, <2>10, StepOnJob DEF Placed, FailClaim
<1>3. CASE j \notin processing
  BY <1>1, <1>3, NoClaimKeeps
  DEF FailClaim, FailUnowned, At, ClaimSteps, indexVars, objectVars
<1> QED
  BY <1>2, <1>3

LEMMA FailMoveKeeps ==
    ASSUME IInv, Typed', NEW c \in Clients, FailMove(c)
    PROVE  IInv'
<1>1. PICK j \in Jobs : req[c].job = j
  BY HasItsJob DEF IInv, Typed, FailMove
<1>2. HeldBy(c, j) /\ jobIndex[j] = "processing"
  BY <1>1, Found DEF IInv, Owns, FailMove, ClaimSteps, HeldBy, WaitingClaims
<1>3. Goto(c, "failEnd") /\ active' = Released /\ "failEnd" \in Steps \ ClaimSteps
  BY <1>1, <1>2 DEF FailMove, Steps, FailSteps, ClaimSteps
<1>4. Unowned(j)'
  BY <1>2, <1>3, LetsGo DEF HeldBy, IInv, Typed
<1>5. NobodyUnlinks'
  BY <1>3, NoUnlink DEF IInv, Typed
<1>6. CASE At(c, "failRetry")
  <2>1. Enqueue(j) /\ job' = [job EXCEPT ![j].startedAt = 0]
    BY <1>1, <1>2, <1>6 DEF FailMove
  <2>2. /\ \A k \in Jobs : /\ job'[k].stallCount = job[k].stallCount
                           /\ job'[k].attempts = job[k].attempts
        /\ \A k \in Jobs \ {j} : job'[k] = job[k]
    BY <2>1 DEF IInv, Typed, ObjectsTyped, JobObjects
  <2>3. OthersSame(j)
    BY <1>1, <1>3, <2>1, <2>2, OthersOwnersSame
    DEF OthersSame, Same, FailMove, Enqueue, IInv, Typed, IndexTyped
  <2>4. Waiting(j)'
    BY <1>2, <1>4, <1>6, <2>1, <2>2
    DEF HeldBy, Waiting, FailMove, Enqueue, Fit, At, IInv, Typed, IndexTyped
  <2>5. VerdictsHold'
    BY <2>2, VerdictsKept DEF IInv, Typed, FailMove, sweepVars
  <2> QED
    BY <1>3, <1>5, <2>3, <2>4, <2>5, StepOnJob DEF Placed
<1>7. CASE At(c, "failBury")
  <2>1. Bury(j) /\ job' = job
    BY <1>1, <1>2, <1>7 DEF FailMove, At
  <2>2. OthersSame(j)
    BY <1>1, <1>3, <2>1, OthersOwnersSame
    DEF OthersSame, Same, FailMove, Bury, IInv, Typed, IndexTyped
  <2>3. Out(j)'
    BY <1>2, <1>4, <2>1 DEF HeldBy, Out, FailMove, Bury, Terminal, IInv, Typed, IndexTyped
  <2>4. VerdictsHold'
    BY <2>1, VerdictsKept DEF IInv, Typed, FailMove, sweepVars
  <2> QED
    BY <1>3, <1>5, <2>2, <2>3, <2>4, StepOnJob DEF Placed
<1> QED
  BY <1>6, <1>7 DEF FailMove, At

LEMMA ClaimForMoveKeeps ==
    ASSUME IInv, Typed', NEW c \in Clients,
           NEW from \in {"moveClaim", "discardClaim"},
           NEW to \in {"moveQueue", "discardActiveMove"}, ClaimForMove(c, from, to)
    PROVE  IInv'
<1>1. PICK j \in Jobs : req[c].job = j
  BY HasItsJob DEF IInv, Typed, ClaimForMove, At
<1>2. CASE j \in processing
  <2>1. Active(j) /\ SoleOwner(c, j)
    BY <1>2, Found DEF IInv
  <2>2. Goto(c, to) /\ to \in Steps \cap ClaimSteps
    BY <1>1, <1>2 DEF ClaimForMove, Steps, MoveSteps, ClaimSteps
  <2>3. job' = [job EXCEPT ![j].startedAt = 0] \/ job' = job
    BY <1>1, <1>2 DEF ClaimForMove
  <2>4. /\ \A k \in Jobs : /\ job'[k].stallCount = job[k].stallCount
                           /\ job'[k].attempts = job[k].attempts
        /\ \A k \in Jobs \ {j} : job'[k] = job[k]
    BY <2>3 DEF IInv, Typed, ObjectsTyped, JobObjects
  <2>5. OthersSame(j)
    BY <1>1, <2>2, <2>4, OthersOwnersSame DEF OthersSame, Same, ClaimForMove, IInv, Typed
  <2>6. Owns(c, j)' /\ SoleOwner(c, j)' /\ req'[c].pc = to
    BY <1>1, <2>1, <2>2, Claims DEF IInv, Typed
  <2>7. HeldBy(c, j)'
    BY <1>1, <1>2, <2>1, <2>4, <2>6 DEF HeldBy, Active, ClaimForMove, WaitingClaims, Fit
  <2>8. j \in SlotHolders'
    BY <2>6 DEF SlotHolders, HoldsSlot, Owns
  <2>9. NobodyUnlinks' /\ VerdictsHold'
    BY <2>2, <2>4, NoUnlink, VerdictsKept DEF IInv, Typed, ClaimForMove, sweepVars
  <2> QED
    BY <1>1, <1>2, <2>5, <2>7, <2>8, <2>9, StepOnJob DEF Placed, ClaimForMove
<1>3. CASE j \notin processing
  BY <1>1, <1>3, NoClaimKeeps DEF ClaimForMove, At, ClaimSteps, indexVars, objectVars
<1> QED
  BY <1>2, <1>3

LEMMA RemoveForDiscardKeeps ==
    ASSUME IInv, Typed', NEW c \in Clients, RemoveForDiscard(c)
    PROVE  IInv'
<1>1. PICK j \in Jobs : req[c].job = j
  BY HasItsJob DEF IInv, Typed, RemoveForDiscard, At
<1>2. CASE j \in queued
  <2>1. Waiting(j) /\ SoleOwner(c, j)
    BY <1>2, Found DEF IInv
  <2>2. /\ Goto(c, "discardQueuedMove")
        /\ "discardQueuedMove" \in Steps \cap ClaimSteps
    BY <1>1, <1>2 DEF RemoveForDiscard, Steps, MoveSteps, ClaimSteps
  <2>3. OthersSame(j)
    BY <1>1, <2>2, OthersOwnersSame DEF OthersSame, Same, RemoveForDiscard, objectVars, IInv, Typed
  <2>4. Owns(c, j)' /\ SoleOwner(c, j)' /\ req'[c].pc = "discardQueuedMove"
    BY <1>1, <2>1, <2>2, Claims DEF IInv, Typed
  <2>5. HeldBy(c, j)'
    BY <1>1, <1>2, <2>1, <2>4 DEF HeldBy, Waiting, RemoveForDiscard, WaitingClaims
  <2>6. j \notin SlotHolders
    BY <2>1 DEF Waiting, Unowned, Owns, SlotHolders, HoldsSlot, ClaimSteps
  <2>7. NobodyUnlinks' /\ VerdictsHold'
    BY <2>2, NoUnlink, VerdictsKept DEF IInv, Typed, RemoveForDiscard, sweepVars, objectVars
  <2> QED
    BY <1>1, <1>2, <2>3, <2>5, <2>6, <2>7, StepOnJob DEF Placed, RemoveForDiscard
<1>3. CASE j \notin queued
  <2>1. queued' = queued /\ Finish(c)
    BY <1>1, <1>3 DEF RemoveForDiscard
  <2> QED
    BY <2>1, NoClaimKeeps DEF RemoveForDiscard, At, ClaimSteps, indexVars
<1> QED
  BY <1>2, <1>3

LEMMA MoveToQueueKeeps ==
    ASSUME IInv, Typed', NEW c \in Clients, MoveToQueue(c)
    PROVE  IInv'
<1>1. PICK j \in Jobs : req[c].job = j
  BY HasItsJob DEF IInv, Typed, MoveToQueue, At
<1>2. HeldBy(c, j) /\ Fit(j)
  BY <1>1, Found DEF IInv, Owns, MoveToQueue, At, ClaimSteps, HeldBy
<1>3. /\ Goto(c, "moveEnd") /\ "moveEnd" \in Steps \ ClaimSteps
      /\ Enqueue(j) /\ active' = Released
  BY <1>1 DEF MoveToQueue, Steps, MoveSteps, ClaimSteps
<1>4. OthersSame(j)
  BY <1>1, <1>3, OthersOwnersSame
  DEF OthersSame, Same, MoveToQueue, Enqueue, objectVars, IInv, Typed, IndexTyped
<1>5. Unowned(j)'
  BY <1>2, <1>3, LetsGo DEF HeldBy, IInv, Typed
<1>6. Waiting(j)'
  BY <1>2, <1>3, <1>5
  DEF HeldBy, Waiting, MoveToQueue, Enqueue, Fit, objectVars, IInv, Typed, IndexTyped
<1>7. NobodyUnlinks' /\ VerdictsHold'
  BY <1>3, NoUnlink, VerdictsKept DEF IInv, Typed, MoveToQueue, sweepVars, objectVars
<1> QED
  BY <1>3, <1>4, <1>6, <1>7, StepOnJob DEF Placed

LEMMA MoveToDlqKeeps ==
    ASSUME IInv, Typed', NEW c \in Clients,
           NEW from \in {"discardActiveMove", "discardQueuedMove"}, MoveToDlq(c, from)
    PROVE  IInv'
<1>1. PICK j \in Jobs : req[c].job = j
  BY HasItsJob DEF IInv, Typed, MoveToDlq, At
<1>2. HeldBy(c, j)
  BY <1>1, Found DEF IInv, Owns, MoveToDlq, At, ClaimSteps
<1>3. Finish(c) /\ Bury(j)
  BY <1>1 DEF MoveToDlq
<1>4. OthersSame(j)
  BY <1>1, <1>3, OthersOwnersSame
  DEF OthersSame, Same, MoveToDlq, Bury, objectVars, IInv, Typed, IndexTyped
<1>5. Out(j)'
  BY <1>2, <1>3, LetsGo DEF HeldBy, Out, Terminal, MoveToDlq, Bury, IInv, Typed, IndexTyped
<1>6. active' = Released \/ (active' = active /\ j \notin SlotHolders)
  BY <1>1, <1>2
  DEF MoveToDlq, HadSlot, HeldBy, SoleOwner, Owns, SlotHolders, HoldsSlot, ClaimSteps, At
<1>7. NobodyUnlinks' /\ VerdictsHold'
  BY <1>3, NoUnlink, VerdictsKept DEF IInv, Typed, MoveToDlq, sweepVars, objectVars
<1> QED
  BY <1>4, <1>5, <1>6, <1>7, StepOnJob DEF Placed

\* An active job goes where a sweep puts it: nobody has it in hand.
LEMMA ReclaimKeeps ==
    ASSUME IInv, Typed', VerdictsHold', NEW j \in Jobs, j \in processing,
           Reclaim(j), UNCHANGED req,
           \A k \in Jobs \ {j} : job'[k] = job[k],
           \/ Enqueue(j) /\ Fit(j)'
           \/ Bury(j)
    PROVE  IInv'
<1>1. Active(j)
  BY Found DEF IInv
<1>2. OthersSame(j)
  BY NoRequestOwnersSame DEF OthersSame, Same, Reclaim, Enqueue, Bury, IInv, Typed, IndexTyped
<1>3. Unowned(j)'
  BY <1>1 DEF Active, Unowned, Owns
<1>4. Waiting(j)' \/ Out(j)'
  BY <1>1, <1>3 DEF Active, Waiting, Out, Reclaim, Enqueue, Bury, Terminal, IInv, Typed, IndexTyped
<1>5. NobodyUnlinks'
  BY DEF IInv, NobodyUnlinks, At
<1> QED
  BY <1>2, <1>4, <1>5, StepOnJob DEF Reclaim, Placed

\* The job found to be stalled or without its lease is charged, and is put back
\* only within its budgets.
LEMMA Charged ==
    ASSUME Typed, NEW j \in Jobs, ChargeStall(j)
    PROVE  /\ job'[j].attempts = job[j].attempts + 1
           /\ job'[j].stallCount = job[j].stallCount + 1
           /\ \A k \in Jobs \ {j} : job'[k] = job[k]
  BY DEF Typed, ObjectsTyped, ChargeStall

LEMMA HandleStalledKeeps ==
    ASSUME IInv, Typed', NEW v \in verdicts, HandleStalled(v)
    PROVE  IInv'
<1>1. PICK j \in Jobs : v.job = j
  BY DEF IInv, Typed, SweepsTyped
<1>2. v.action \in {"retry", "dlq"}
  BY DEF IInv, Typed, SweepsTyped, Verdicts
<1>3. CASE j \in processing
  <2>1. /\ Reclaim(j) /\ ChargeStall(j)
        /\ \/ Bury(j)
           \/ Enqueue(j) /\ v.action = "retry" /\ ~AttemptsExhausted(j)
    BY <1>1, <1>2, <1>3 DEF HandleStalled, StillProcessing
  <2>2. /\ job'[j].attempts = job[j].attempts + 1
        /\ job'[j].stallCount = job[j].stallCount + 1
        /\ \A k \in Jobs \ {j} : job'[k] = job[k]
    BY <2>1, Charged DEF IInv
  <2>3. VerdictsHold'
    BY <1>1, <2>2 DEF IInv, VerdictsHold, HandleStalled, Typed, SweepsTyped
  <2>4. Enqueue(j) /\ v.action = "retry" /\ ~AttemptsExhausted(j) => Fit(j)'
    <3>1. job[j].stallCount + 1 < MaxStalls \/ v.action # "retry"
      BY <1>1 DEF IInv, VerdictsHold
    <3>2. job[j].attempts + 1 < MaxAttempts \/ AttemptsExhausted(j)
      BY BudgetAssumption DEF AttemptsExhausted, IInv, Typed, ObjectsTyped, JobObjects
    <3> QED
      BY <2>2, <3>1, <3>2 DEF Fit
  <2> QED
    BY <1>3, <2>1, <2>2, <2>3, <2>4, ReclaimKeeps DEF HandleStalled
<1>4. CASE j \notin processing
  <2>1. UNCHANGED <<indexVars, active, job>>
    BY <1>1, <1>4 DEF HandleStalled, StillProcessing
  <2>2. VerdictsHold'
    BY <2>1 DEF IInv, VerdictsHold, HandleStalled
  <2> QED
    BY <2>1, <2>2, NoRequestKeeps DEF HandleStalled
<1> QED
  BY <1>3, <1>4

LEMMA HandleExpiredKeeps ==
    ASSUME IInv, Typed', NEW x \in lapsed, HandleExpired(x)
    PROVE  IInv'
<1>1. PICK j \in Jobs : x.job = j
  BY DEF IInv, Typed, SweepsTyped
<1>2. verdicts = {} /\ VerdictsHold'
  BY DEF IInv, VerdictsHold, HandleExpired
<1>3. CASE UNCHANGED <<indexVars, active, job>>
  BY <1>2, <1>3, NoRequestKeeps DEF HandleExpired
<1>4. CASE ~UNCHANGED <<indexVars, active, job>>
  <2>1. /\ j \in processing /\ Reclaim(j) /\ ChargeStall(j)
        /\ \/ Bury(j)
           \/ /\ Enqueue(j) /\ ~AttemptsExhausted(j)
              /\ ~(MaxStalls > 0 /\ job[j].stallCount + 1 >= MaxStalls)
    BY <1>1, <1>4 DEF HandleExpired, StillProcessing
  <2>2. /\ job'[j].attempts = job[j].attempts + 1
        /\ job'[j].stallCount = job[j].stallCount + 1
        /\ \A k \in Jobs \ {j} : job'[k] = job[k]
    BY <2>1, Charged DEF IInv
  <2>3. Bury(j) \/ (Enqueue(j) /\ Fit(j)')
    BY <2>1, <2>2, BudgetAssumption
    DEF Fit, AttemptsExhausted, IInv, Typed, ObjectsTyped, JobObjects
  <2> QED
    BY <1>2, <2>1, <2>2, <2>3, ReclaimKeeps DEF HandleExpired
<1> QED
  BY <1>3, <1>4

LEMMA ReleaseJobKeeps ==
    ASSUME IInv, Typed', NEW r \in releasing, ReleaseJob(r)
    PROVE  IInv'
<1>1. PICK j \in Jobs : r.job = j
  BY DEF IInv, Typed, SweepsTyped
<1>2. CASE j \in processing
  <2>1. /\ Reclaim(j) /\ Enqueue(j)
        /\ job' = [job EXCEPT ![j].startedAt = 0, ![j].stale = FALSE]
    BY <1>1, <1>2 DEF ReleaseJob, StillProcessing
  <2>2. /\ \A k \in Jobs : /\ job'[k].stallCount = job[k].stallCount
                           /\ job'[k].attempts = job[k].attempts
        /\ \A k \in Jobs \ {j} : job'[k] = job[k]
    BY <2>1 DEF IInv, Typed, ObjectsTyped, JobObjects
  <2>3. Fit(j)'
    BY <1>2, <2>2, Found DEF IInv, Active, Fit
  <2>4. VerdictsHold'
    BY <2>2, VerdictsKept DEF IInv, Typed, ReleaseJob
  <2> QED
    BY <1>2, <2>1, <2>2, <2>3, <2>4, ReclaimKeeps DEF ReleaseJob
<1>3. CASE j \notin processing
  <2>1. UNCHANGED <<indexVars, active, job>>
    BY <1>1, <1>3 DEF ReleaseJob, StillProcessing
  <2>2. VerdictsHold'
    BY <2>1, VerdictsKept DEF IInv, Typed, ReleaseJob
  <2> QED
    BY <2>1, <2>2, NoRequestKeeps DEF ReleaseJob
<1> QED
  BY <1>2, <1>3

LEMMA CheckStalledJobsKeeps ==
    ASSUME IInv, Typed', CheckStalledJobs
    PROVE  IInv'
<1>1. lapsed' = {}
  BY DEF CheckStalledJobs, Quiet, NoSweep
<1>2. ASSUME NEW v \in verdicts'
      PROVE  /\ v.action = StallAction(v.job) /\ v.job \in Jobs
             /\ v = [job |-> v.job, action |-> StallAction(v.job)]
  BY DEF CheckStalledJobs, Stalled, IInv, Typed, SweepsTyped
<1>3. ASSUME NEW k \in Jobs, StallAction(k) = "retry"
      PROVE  job[k].stallCount + 1 < MaxStalls
  BY <1>3, BudgetAssumption DEF StallAction, IInv, Typed, ObjectsTyped, JobObjects
<1>4. VerdictsHold'
  <2>1. job' = job
    BY DEF CheckStalledJobs, objectVars
  <2> QED
    BY <1>1, <1>2, <1>3, <2>1 DEF VerdictsHold
<1> QED
  BY <1>4, NoRequestKeeps DEF CheckStalledJobs, objectVars

LEMMA CheckExpiredLocksKeeps ==
    ASSUME IInv, Typed', CheckExpiredLocks
    PROVE  IInv'
<1>1. VerdictsHold'
  BY DEF CheckExpiredLocks, Quiet, NoSweep, VerdictsHold
<1> QED
  BY <1>1, NoRequestKeeps DEF CheckExpiredLocks, objectVars

\* Heartbeats, time, and a closing connection change no custody.
LEMMA HeartbeatKeeps ==
    ASSUME IInv, Typed', NEW c \in Clients, Heartbeat(c)
    PROVE  IInv'
<1>1. \A k \in Jobs : /\ job'[k].attempts = job[k].attempts
                      /\ job'[k].stallCount = job[k].stallCount
                      /\ job'[k].startedAt = job[k].startedAt
  BY DEF Heartbeat, IInv, Typed, ObjectsTyped, JobObjects
<1>2. VerdictsHold'
  BY <1>1, VerdictsKept DEF IInv, Typed, Heartbeat, sweepVars
<1> QED
  BY <1>1, <1>2, NoRequestKeeps DEF Heartbeat

LEMMA AgingKeeps ==
    ASSUME IInv, Typed', NEW j \in Jobs, HeartbeatAges(j) \/ LeaseAges(j)
    PROVE  IInv'
<1>1. \A k \in Jobs : /\ job'[k].attempts = job[k].attempts
                      /\ job'[k].stallCount = job[k].stallCount
                      /\ job'[k].startedAt = job[k].startedAt
  BY DEF HeartbeatAges, LeaseAges, objectVars, IInv, Typed, ObjectsTyped, JobObjects
<1>2. VerdictsHold'
  BY <1>1, VerdictsKept DEF IInv, Typed, HeartbeatAges, LeaseAges, sweepVars
<1> QED
  BY <1>1, <1>2, NoRequestKeeps DEF HeartbeatAges, LeaseAges

LEMMA DisconnectKeeps ==
    ASSUME IInv, Typed', NEW c \in Clients, Disconnect(c)
    PROVE  IInv'
<1>1. VerdictsHold'
  BY VerdictsKept DEF IInv, Typed, Disconnect, objectVars
<1> QED
  BY <1>1, NoRequestKeeps DEF Disconnect, objectVars

\* The sections that come before a claim or after the job has changed hands.
LEMMA LeaseKeeps ==
    ASSUME IInv, Typed', NEW c \in Clients, Lease(c)
    PROVE  IInv'
<1>1. /\ req[c].pc = "finalized" /\ req'[c].pc = "working"
      /\ \A d \in Clients : d # c => req'[d] = req[d]
  BY DEF Lease, Goto, At, IInv, Typed, RequestsTyped, Requests
<1>2. \A k \in Jobs : Same(k)
  BY <1>1 DEF Same, OwnersSame, Owns, ClaimSteps, Lease, indexVars, objectVars
<1>3. NobodyUnlinks' /\ VerdictsHold'
  BY <1>1, VerdictsKept DEF IInv, Typed, NobodyUnlinks, At, Lease, sweepVars, objectVars
<1> QED
  BY <1>2, <1>3, StepOnNoJob DEF Lease

LEMMA MoveKeeps ==
    ASSUME IInv, Typed', NEW c \in Clients, NEW j \in Jobs,
           NEW step \in Steps \ (ClaimSteps \cup {"unlink"}), NEW location,
           Move(c, j, step, location)
    PROVE  IInv'
<1>1. /\ req[c].pc \in {"idle", "working"} /\ req'[c].pc = step
      /\ \A d \in Clients : d # c => req'[d] = req[d]
  BY DEF Move, ToldToMove, At, IInv, Typed, RequestsTyped, Requests
<1>2. \A k \in Jobs : Same(k)
  BY <1>1 DEF Same, OwnersSame, Owns, ClaimSteps, Move, indexVars, objectVars
<1>3. NobodyUnlinks' /\ VerdictsHold'
  BY <1>1, VerdictsKept DEF IInv, Typed, NobodyUnlinks, At, Move, sweepVars, objectVars
<1> QED
  BY <1>2, <1>3, StepOnNoJob DEF Move

LEMMA FailKeeps ==
    ASSUME IInv, Typed', NEW c \in Clients, Fail(c)
    PROVE  IInv'
<1>1. /\ req[c].pc = "working" /\ req'[c].pc \in {"idle", "failClaim"}
      /\ \A d \in Clients : d # c => req'[d] = req[d]
  BY DEF Fail, Finish, Idle, At, IInv, Typed, RequestsTyped, Requests
<1>2. \A k \in Jobs : Same(k)
  BY <1>1 DEF Same, OwnersSame, Owns, ClaimSteps, Fail, indexVars, objectVars
<1>3. NobodyUnlinks' /\ VerdictsHold'
  BY <1>1, VerdictsKept DEF IInv, Typed, NobodyUnlinks, At, Fail, sweepVars, objectVars
<1> QED
  BY <1>2, <1>3, StepOnNoJob DEF Fail

LEMMA UnclaimedKeeps ==
    ASSUME IInv, Typed', NEW c \in Clients,
           \/ Finalize(c) \/ WorkerDies(c) \/ Ack(c)
           \/ DelayInQueue(c) \/ MoveEnd(c) \/ FailEnd(c)
    PROVE  IInv'
<1>1. CASE Finalize(c)
  BY <1>1, NoClaimKeeps DEF Finalize, At, ClaimSteps, Steps, PullSteps
<1>2. CASE WorkerDies(c)
  BY <1>2, NoClaimKeeps DEF WorkerDies, At, ClaimSteps
<1>3. CASE Ack(c)
  BY <1>3, NoClaimKeeps DEF Ack, At, ClaimSteps, Steps, AckSteps
<1>4. CASE DelayInQueue(c)
  BY <1>4, NoClaimKeeps DEF DelayInQueue, At, ClaimSteps, Steps, MoveSteps
<1>5. CASE MoveEnd(c)
  BY <1>5, NoClaimKeeps DEF MoveEnd, At, ClaimSteps
<1>6. CASE FailEnd(c)
  BY <1>6, NoClaimKeeps DEF FailEnd, At, ClaimSteps
<1> QED
  BY <1>1, <1>2, <1>3, <1>4, <1>5, <1>6

-----------------------------------------------------------------------------
(***************************************************************************)
(* The theorems.                                                           *)
(***************************************************************************)

LEMMA Initially == Init => IInv
<1> SUFFICES ASSUME Init
             PROVE  IInv
  OBVIOUS
<1>1. \A j \in Jobs : Out(j)
  BY BudgetAssumption DEF Init, Out, Unowned, Owns, Idle, ClaimSteps, Fit, NewJob
<1>2. NobodyUnlinks /\ VerdictsHold
  BY DEF Init, NobodyUnlinks, At, Idle, VerdictsHold
<1>3. NoSlotLeak
  BY TypedInit, SlotHoldersFinite DEF Init, NoSlotLeak
<1> QED
  BY <1>1, <1>2, <1>3, TypedInit DEF IInv, Placed

LEMMA Inductive ==
    ASSUME "abort" \notin Hazards, IInv, [Next]_vars
    PROVE  IInv'
<1>1. Typed'
  BY TypedNext DEF IInv
<1>2. ASSUME NEW j \in Jobs, Push(j) \/ HeartbeatAges(j) \/ LeaseAges(j)
      PROVE  IInv'
  BY <1>1, <1>2, PushKeeps, AgingKeeps
<1>3. ASSUME NEW c \in Clients, ClientStep(c)
      PROVE  IInv'
  <2>1. ASSUME NEW j \in Jobs, Dequeue(c, j)
        PROVE  IInv'
    BY <1>1, <2>1, DequeueKeeps
  <2>2. ASSUME NEW j \in Jobs,
               MoveActive(c, j) \/ DiscardActive(c, j) \/ DiscardQueued(c, j) \/ DelayQueued(c, j)
        PROVE  IInv'
    <3>1. {"moveClaim", "discardClaim", "discardQueued", "delayQueued"}
              \subseteq Steps \ (ClaimSteps \cup {"unlink"})
      BY DEF Steps, MoveSteps, ClaimSteps
    <3> QED
      BY <1>1, <2>2, <3>1, MoveKeeps DEF MoveActive, DiscardActive, DiscardQueued, DelayQueued
  <2>3. CASE Heartbeat(c) \/ Fail(c) \/ Disconnect(c)
    BY <1>1, <2>3, HeartbeatKeeps, FailKeeps, DisconnectKeeps
  <2>4. CASE Ack(c) \/ WorkerDies(c)
    BY <1>1, <2>4, UnclaimedKeeps
  <2> QED
    BY <1>3, <2>1, <2>2, <2>3, <2>4 DEF ClientStep
<1>4. ASSUME NEW c \in Clients, RequestStep(c)
      PROVE  IInv'
  <2>1. CASE RequeueAborted(c) \/ UnlinkAborted(c)
    BY <2>1 DEF RequeueAborted, UnlinkAborted, IInv, NobodyUnlinks
  <2>2. CASE Lease(c) \/ Finalize(c) \/ FailEnd(c) \/ DelayInQueue(c) \/ MoveEnd(c)
    BY <1>1, <2>2, LeaseKeeps, UnclaimedKeeps
  <2>3. CASE AckClaim(c) \/ AckRelease(c) \/ AckCommit(c)
    BY <1>1, <2>3, AckClaimKeeps, AckReleaseKeeps, AckCommitKeeps
  <2>4. CASE \/ CompleteQueued(c, "completeFirst", "commitFirst")
             \/ CompleteQueued(c, "completeAgain", "commitAgain")
    BY <1>1, <2>4, CompleteQueuedKeeps
  <2>5. CASE CommitQueued(c, "commitFirst") \/ CommitQueued(c, "commitAgain")
    BY <1>1, <2>5, CommitQueuedKeeps
  <2>6. CASE FailClaim(c) \/ FailMove(c)
    BY <1>1, <2>6, FailClaimKeeps, FailMoveKeeps
  <2>7. CASE \/ ClaimForMove(c, "moveClaim", "moveQueue")
             \/ ClaimForMove(c, "discardClaim", "discardActiveMove")
    BY <1>1, <2>7, ClaimForMoveKeeps
  <2>8. CASE RemoveForDiscard(c) \/ MoveToQueue(c)
    BY <1>1, <2>8, RemoveForDiscardKeeps, MoveToQueueKeeps
  <2>9. CASE MoveToDlq(c, "discardActiveMove") \/ MoveToDlq(c, "discardQueuedMove")
    BY <1>1, <2>9, MoveToDlqKeeps
  <2> QED
    BY <1>4, <2>1, <2>2, <2>3, <2>4, <2>5, <2>6, <2>7, <2>8, <2>9 DEF RequestStep
<1>5. CASE Sweep
  BY <1>1, <1>5, CheckStalledJobsKeeps, HandleStalledKeeps, CheckExpiredLocksKeeps,
     HandleExpiredKeeps, ReleaseJobKeeps
  DEF Sweep
<1>6. CASE UNCHANGED vars
  <2>1. VerdictsHold'
    BY <1>6, VerdictsKept DEF vars, sweepVars, objectVars, IInv, Typed
  <2> QED
    BY <1>1, <1>6, <2>1, NoRequestKeeps DEF vars, objectVars
<1> QED
  BY <1>2, <1>3, <1>4, <1>5, <1>6 DEF Next

LEMMA TypedImpliesTypeOK == Typed => TypeOK
  BY DEF Typed, TypeOK, CollectionsTyped, IndexTyped, ObjectsTyped, LocksTyped,
         ClientJobsTyped, SweepsTyped, RequestsTyped

\* Every variable keeps its type, whatever the hazards.
THEOREM DeliveryTypes == Spec => []TypeOK
<1>1. Spec => []Typed
  BY TypedInit, TypedNext, PTL DEF Spec
<1> QED
  BY <1>1, TypedImpliesTypeOK, PTL

\* Without aborted pulls the inductive invariant holds: whichever of ack, fail,
\* the moves, stall detection, lease expiry and disconnection run into each
\* other, each job stays placed.
THEOREM Custody ==
    ASSUME "abort" \notin Hazards
    PROVE  Spec => []IInv
<1>1. IInv /\ [Next]_vars => IInv'
  BY Inductive
<1> QED
  BY <1>1, Initially, PTL DEF Spec

\* A job that is placed is in one place.
LEMMA PlacedOnce ==
    ASSUME NEW j \in Jobs, Placed(j)
    PROVE  LET ended == jobIndex[j] \in Terminal \cup {"none"}
               places == {p \in {"queue", "processing", "end"} :
                            \/ p = "queue" /\ j \in queued
                            \/ p = "processing" /\ j \in processing
                            \/ p = "end" /\ ended}
           IN  Cardinality(places) + Cardinality(Owners(j)) = 1
<1> DEFINE places == {p \in {"queue", "processing", "end"} :
                        \/ p = "queue" /\ j \in queued
                        \/ p = "processing" /\ j \in processing
                        \/ p = "end" /\ jobIndex[j] \in Terminal \cup {"none"}}
<1> DEFINE owners == Owners(j)
<1>1. Cardinality({}) = 0 /\ \A x : Cardinality({x}) = 1
  BY FS_EmptySet, FS_Singleton
<1>2. owners = {c \in Clients : Owns(c, j)}
  BY DEF Owners, Owns
<1>3. Waiting(j) => places = {"queue"} /\ owners = {}
  BY <1>2 DEF Waiting, Unowned, Terminal
<1>4. Active(j) => places = {"processing"} /\ owners = {}
  BY <1>2 DEF Active, Unowned, Terminal
<1>5. \A c \in Clients : HeldBy(c, j) => places = {} /\ owners = {c}
  BY <1>2 DEF HeldBy, SoleOwner, Terminal
<1>6. Out(j) => places = {"end"} /\ owners = {}
  BY <1>2 DEF Out, Unowned
<1>7. \/ \E x : places = {x} /\ owners = {}
      \/ \E x : places = {} /\ owners = {x}
  <2> HIDE DEF places, owners
  <2> QED
    BY <1>3, <1>4, <1>5, <1>6 DEF Placed
<1>8. Cardinality(places) + Cardinality(owners) = 1
  <2> HIDE DEF places, owners
  <2>1. CASE \E x : places = {x} /\ owners = {}
    <3>1. Cardinality(places) = 1 /\ Cardinality(owners) = 0
      BY <1>1, <2>1, Zenon
    <3> QED
      BY <3>1
  <2>2. CASE \E x : places = {} /\ owners = {x}
    <3>1. Cardinality(places) = 0 /\ Cardinality(owners) = 1
      BY <1>1, <2>2, Zenon
    <3> QED
      BY <3>1
  <2> QED
    BY <1>7, <2>1, <2>2
<1> QED
  BY <1>8

\* A job is in the queue, in the processing map, in the hands of one handler or
\* at its end, and in one of them only: no race loses or doubles it.
THEOREM JobsAreInOnePlace ==
    ASSUME "abort" \notin Hazards
    PROVE  Spec => []OnePlace
<1>1. IInv => OnePlace
  BY PlacedOnce DEF IInv, OnePlace
<1> QED
  BY <1>1, Custody, PTL

LEMMA PlacedByIndex ==
    ASSUME NEW j \in Jobs, Placed(j), Owners(j) = {}
    PROVE  /\ (jobIndex[j] = "queue") <=> (j \in queued)
           /\ (jobIndex[j] = "processing") <=> (j \in processing)
<1>1. \A c \in Clients : ~HeldBy(c, j)
  BY DEF HeldBy, Owns, Owners
<1> QED
  BY <1>1 DEF Placed, Waiting, Active, Out, Terminal

\* The index names the collection that holds a job, whenever no handler has the
\* job in hand.
THEOREM IndexIsRight ==
    ASSUME "abort" \notin Hazards
    PROVE  Spec => []IndexAgrees
<1>1. IInv => IndexAgrees
  BY PlacedByIndex DEF IInv, IndexAgrees
<1> QED
  BY <1>1, Custody, PTL

\* No path leaks a concurrency slot: those in use are covered by active jobs
\* and by handlers that are about to give one back.
THEOREM SlotsComeBack ==
    ASSUME "abort" \notin Hazards
    PROVE  Spec => []NoSlotLeak
<1>1. IInv => NoSlotLeak
  BY DEF IInv
<1> QED
  BY <1>1, Custody, PTL

LEMMA LiveIsFit ==
    ASSUME IInv, NEW j \in queued \cup processing
    PROVE  Fit(j) /\ (j \in processing => job[j].startedAt # 0)
<1>1. j \in Jobs /\ Placed(j)
  BY DEF IInv, Typed, CollectionsTyped
<1> QED
  BY <1>1, Found DEF Waiting, Active

LEMMA BudgetsFollow == IInv => RetryBudget /\ StallBudget /\ ActiveIsWatched
<1> SUFFICES ASSUME IInv
             PROVE  RetryBudget /\ StallBudget /\ ActiveIsWatched
  OBVIOUS
<1>1. RetryBudget /\ StallBudget
  BY LiveIsFit DEF RetryBudget, StallBudget, Fit
<1>2. ActiveIsWatched
  BY LiveIsFit DEF ActiveIsWatched
<1> QED
  BY <1>1, <1>2

\* Failures, stalls and expired leases together never offer a job again that
\* has used up its attempts.
THEOREM RetriesAreBounded ==
    ASSUME "abort" \notin Hazards
    PROVE  Spec => []RetryBudget
  BY Custody, BudgetsFollow, PTL

\* Stall detection and lease expiry, between them, never offer a job again that
\* has used up its stalls, although a verdict is taken before it is acted on.
THEOREM StallsAreBounded ==
    ASSUME "abort" \notin Hazards
    PROVE  Spec => []StallBudget
  BY Custody, BudgetsFollow, PTL

\* No active job has a null startedAt, which would hide it from stall detection.
THEOREM StallDetectionSeesAll ==
    ASSUME "abort" \notin Hazards
    PROVE  Spec => []ActiveIsWatched
  BY Custody, BudgetsFollow, PTL

LEMMA LiveIsNotTerminal ==
    ASSUME IInv, NEW j \in Jobs,
           \/ j \in queued \cup processing
           \/ \E c \in Clients : Owns(c, j)
    PROVE  jobIndex[j] \notin Terminal
<1>1. Placed(j)
  BY DEF IInv
<1> QED
  BY <1>1, Found DEF Waiting, Active, HeldBy, Terminal

LEMMA TerminalStays ==
    ASSUME "abort" \notin Hazards, IInv, [Next]_vars,
           NEW k \in Jobs, jobIndex[k] \in Terminal
    PROVE  jobIndex'[k] = jobIndex[k]
<1>1. \A j \in Jobs : Push(j) => jobIndex'[k] = jobIndex[k]
  BY DEF Push, Enqueue, Terminal, IInv, Typed, IndexTyped
<1>2. \A c \in Clients, j \in Jobs : Dequeue(c, j) => jobIndex'[k] = jobIndex[k]
  BY LiveIsNotTerminal DEF Dequeue, IInv, Typed, IndexTyped
<1>3. ASSUME NEW c \in Clients, req[c].pc \in ClaimSteps,
             NEW location, jobIndex' = [jobIndex EXCEPT ![req[c].job] = location]
      PROVE  jobIndex'[k] = jobIndex[k]
  <2>1. k # req[c].job
    BY <1>3, LiveIsNotTerminal DEF Owns
  <2> QED
    BY <2>1, <1>3 DEF IInv, Typed, IndexTyped
<1>4. \A c \in Clients : AckCommit(c) => jobIndex'[k] = jobIndex[k]
  BY <1>3 DEF AckCommit, Complete, At, ClaimSteps
<1>5. \A c \in Clients : CommitQueued(c, "commitFirst") \/ CommitQueued(c, "commitAgain")
          => jobIndex'[k] = jobIndex[k]
  BY <1>3 DEF CommitQueued, Complete, At, ClaimSteps
<1>6. \A c \in Clients : FailMove(c) => jobIndex'[k] = jobIndex[k]
  BY <1>3 DEF FailMove, Enqueue, Bury, ClaimSteps
<1>7. \A c \in Clients : \/ MoveToQueue(c)
                         \/ MoveToDlq(c, "discardActiveMove")
                         \/ MoveToDlq(c, "discardQueuedMove")
          => jobIndex'[k] = jobIndex[k]
  BY <1>3 DEF MoveToQueue, MoveToDlq, Enqueue, Bury, At, ClaimSteps
<1>8. \A c \in Clients : RequeueAborted(c) => jobIndex'[k] = jobIndex[k]
  BY DEF RequeueAborted
<1>9. ASSUME Sweep
      PROVE  jobIndex'[k] = jobIndex[k]
  <2>1. k \notin processing
    BY LiveIsNotTerminal
  <2> QED
    BY <1>9, <2>1
    DEF Sweep, CheckStalledJobs, HandleStalled, CheckExpiredLocks, HandleExpired, ReleaseJob,
        StillProcessing, Enqueue, Bury, indexVars, IInv, Typed, IndexTyped
<1>10. \A c \in Clients : RequestStep(c) => jobIndex'[k] = jobIndex[k]
  BY <1>4, <1>5, <1>6, <1>7, <1>8
  DEF RequestStep, UnlinkAborted, Finalize, Lease, AckClaim, AckRelease, CompleteQueued,
      FailClaim, FailEnd, ClaimForMove, RemoveForDiscard, DelayInQueue, MoveEnd, indexVars
<1>11. \A c \in Clients : ClientStep(c) => jobIndex'[k] = jobIndex[k]
  BY <1>2
  DEF ClientStep, Heartbeat, Ack, Fail, WorkerDies, Disconnect, MoveActive, DiscardActive,
      DiscardQueued, DelayQueued, Move, indexVars
<1>12. \A j \in Jobs : HeartbeatAges(j) \/ LeaseAges(j) => jobIndex'[k] = jobIndex[k]
  BY DEF HeartbeatAges, LeaseAges, indexVars
<1> QED
  BY <1>1, <1>9, <1>10, <1>11, <1>12 DEF Next, vars, indexVars

\* A completed or buried job stays so: late outcomes, recovery and moves leave
\* it alone.
THEOREM OutcomesAreFinal ==
    ASSUME "abort" \notin Hazards
    PROVE  Spec => TerminalIsFinal
<1>1. IInv /\ [Next]_vars
          => [\A j \in Jobs : jobIndex[j] \in Terminal => jobIndex'[j] = jobIndex[j]]_vars
  BY TerminalStays
<1> QED
  BY <1>1, Custody, PTL DEF Spec, TerminalIsFinal

-----------------------------------------------------------------------------
(***************************************************************************)
(* The limit.  The count of slots is that of the jobs in use: those that   *)
(* the index has as active and whose ack has not given back the slot yet.  *)
(* One section can break it, the completion of a job from the queue, which *)
(* gives back a slot that the job has not got.                             *)
(***************************************************************************)

Committing(j) == \E c \in Clients : req[c].pc = "ackCommit" /\ req[c].job = j
InUse == {j \in Jobs : jobIndex[j] = "processing" /\ ~Committing(j)}
Counted == active = Cardinality(InUse) /\ active <= Limit

\* No ack finds its job back in the queue.
Late == {"completeFirst", "completeAgain"}
NoLateAck == \A c \in Clients : req[c].pc \in Late => req[c].job \notin queued

LEMMA InUseFinite ==
    /\ IsFiniteSet(InUse) /\ Cardinality(InUse) \in Nat
    /\ IsFiniteSet(InUse') /\ Cardinality(InUse') \in Nat
<1>1. InUse \subseteq Jobs /\ InUse' \subseteq Jobs
  BY DEF InUse
<1> QED
  BY <1>1, JobsAssumption, FS_Subset, FS_CardinalityType

\* The count follows a job that comes into use or leaves it.
LEMMA CountStays ==
    ASSUME Counted, active' = active, InUse' = InUse
    PROVE  Counted'
  BY DEF Counted

LEMMA CountRises ==
    ASSUME Counted, NEW j, j \notin InUse, InUse' = InUse \cup {j},
           active' = active + 1, active < Limit
    PROVE  Counted'
<1>1. Cardinality(InUse') = Cardinality(InUse) + 1
  BY InUseFinite, FS_AddElement
<1> QED
  BY <1>1, InUseFinite, LimitAssumption DEF Counted

LEMMA CountFalls ==
    ASSUME Counted, NEW j, j \in InUse, InUse' = InUse \ {j}, active' = Released
    PROVE  Counted'
<1>1. Cardinality(InUse') = Cardinality(InUse) - 1
  BY InUseFinite, FS_RemoveElement
<1>2. active > 0
  BY <1>1, InUseFinite DEF Counted
<1> QED
  BY <1>1, <1>2, InUseFinite, LimitAssumption DEF Counted, Released

\* No ack comes to its commit or leaves it.
CommitsSame == \A k \in Jobs : Committing(k)' <=> Committing(k)

LEMMA NoCommit ==
    ASSUME NEW c \in Clients, \A d \in Clients : d # c => req'[d] = req[d],
           req[c].pc # "ackCommit", req'[c].pc # "ackCommit"
    PROVE  CommitsSame
  BY DEF CommitsSame, Committing

LEMMA MovesNoCommit ==
    ASSUME RequestsTyped, NEW c \in Clients, req[c].pc # "ackCommit",
           Finish(c) \/ \E s \in Steps \ {"ackCommit"} : Goto(c, s)
    PROVE  CommitsSame
<1>1. CASE Finish(c)
  BY <1>1, FinishMoves, NoCommit
<1>2. ASSUME NEW s \in Steps \ {"ackCommit"}, Goto(c, s)
      PROVE  CommitsSame
  BY <1>2, GotoMoves, NoCommit
<1> QED
  BY <1>1, <1>2

LEMMA NoRequestNoCommit ==
    ASSUME UNCHANGED req
    PROVE  CommitsSame
  BY DEF CommitsSame, Committing

\* What is in use then depends on the index.
LEMMA UseSame ==
    ASSUME CommitsSame, UNCHANGED jobIndex
    PROVE  InUse' = InUse
  BY DEF CommitsSame, InUse

LEMMA UseElsewhere ==
    ASSUME IndexTyped, CommitsSame, NEW j \in Jobs, j \notin InUse,
           NEW l, l # "processing", jobIndex' = [jobIndex EXCEPT ![j] = l]
    PROVE  InUse' = InUse
  BY DEF CommitsSame, InUse, IndexTyped

LEMMA UseEnds ==
    ASSUME IndexTyped, CommitsSame, NEW j \in Jobs, j \in InUse,
           NEW l, l # "processing", jobIndex' = [jobIndex EXCEPT ![j] = l]
    PROVE  InUse' = InUse \ {j}
  BY DEF CommitsSame, InUse, IndexTyped

LEMMA UseBegins ==
    ASSUME IndexTyped, CommitsSame, NEW j \in Jobs, ~Committing(j),
           jobIndex' = [jobIndex EXCEPT ![j] = "processing"]
    PROVE  InUse' = InUse \cup {j}
  BY DEF CommitsSame, InUse, IndexTyped

\* Which jobs are in use, by their place.
LEMMA UseOf ==
    ASSUME NEW j \in Jobs
    PROVE  /\ Waiting(j) \/ Out(j) => j \notin InUse /\ ~Committing(j)
           /\ Active(j) => j \in InUse
           /\ \A c \in Clients : HeldBy(c, j) =>
                (j \in InUse <=> req[c].pc \notin WaitingClaims \cup {"ackCommit"})
  BY DEF Waiting, Out, Active, HeldBy, InUse, Committing, Unowned, Owns, SoleOwner, ClaimSteps,
         Terminal, WaitingClaims

-----------------------------------------------------------------------------
(***************************************************************************)
(* The limit, section by section.                                          *)
(***************************************************************************)

LEMMA PullCounts ==
    ASSUME IInv, Counted, NEW c \in Clients, NEW j \in Jobs, Dequeue(c, j)
    PROVE  Counted'
<1>1. Waiting(j)
  BY Found DEF IInv, Dequeue
<1>2. CommitsSame
  <2>1. /\ req'[c].pc = "dequeued" /\ req[c].pc = "idle"
        /\ \A d \in Clients : d # c => req'[d] = req[d]
    BY DEF Dequeue, At, IInv, Typed, RequestsTyped, Requests
  <2> QED
    BY <2>1, NoCommit
<1>3. j \notin InUse /\ InUse' = InUse \cup {j}
  BY <1>1, <1>2, UseOf, UseBegins DEF Dequeue, IInv, Typed
<1> QED
  BY <1>3, CountRises DEF Dequeue

\* The sections of ack: the slot goes between the claim and the commit.
LEMMA AckCounts ==
    ASSUME IInv, Counted, NEW c \in Clients, AckClaim(c) \/ AckRelease(c) \/ AckCommit(c)
    PROVE  Counted'
<1>1. PICK j \in Jobs : req[c].job = j
  BY HasItsJob DEF IInv, Typed, AckClaim, AckRelease, AckCommit, At
<1>2. RequestsTyped /\ IndexTyped /\ Placed(j)
  BY DEF IInv, Typed
<1>3. CASE AckClaim(c)
  <2>1. Finish(c) \/ \E s \in Steps \ {"ackCommit"} : Goto(c, s)
    BY <1>3 DEF AckClaim, AckUnowned, Steps, AckSteps
  <2>2. CommitsSame
    BY <1>2, <1>3, <2>1, MovesNoCommit DEF AckClaim, At
  <2> QED
    BY <1>3, <2>2, UseSame, CountStays DEF AckClaim
<1>4. CASE AckRelease(c)
  <2>1. HeldBy(c, j) /\ j \in InUse
    BY <1>1, <1>2, <1>4, Found, UseOf DEF AckRelease, At, Owns, ClaimSteps, WaitingClaims
  <2>2. jobIndex[j] = "processing"
    BY <2>1 DEF InUse
  <2>3. /\ active' = Released /\ jobIndex' = jobIndex
        /\ Goto(c, "ackCommit")
    BY <1>1, <1>4, <2>2 DEF AckRelease, indexVars
  <2>4. /\ req'[c].pc = "ackCommit" /\ req'[c].job = j /\ req[c].pc = "ackRelease"
        /\ \A d \in Clients : d # c => req'[d] = req[d]
    BY <1>1, <1>2, <1>4, <2>3, GotoMoves DEF AckRelease, At
  <2>5. InUse' = InUse \ {j}
    BY <2>3, <2>4, <1>1 DEF InUse, Committing
  <2> QED
    BY <2>1, <2>3, <2>5, CountFalls
<1>5. CASE AckCommit(c)
  <2>1. HeldBy(c, j) /\ j \notin InUse /\ jobIndex[j] = "processing"
    BY <1>1, <1>2, <1>5, Found, UseOf DEF AckCommit, At, Owns, ClaimSteps, WaitingClaims, HeldBy
  <2>2. /\ jobIndex' = [jobIndex EXCEPT ![j] = "completed"]
        /\ Finish(c) /\ active' = active
    BY <1>1, <1>5, <2>1 DEF AckCommit, Complete
  <2>3. \A k \in Jobs \ {j} : Committing(k)' <=> Committing(k)
    BY <1>1, <1>2, <2>2, FinishMoves DEF Committing
  <2>4. InUse' = InUse
    BY <1>2, <2>1, <2>2, <2>3 DEF InUse, IndexTyped
  <2> QED
    BY <2>2, <2>4, CountStays
<1> QED
  BY <1>3, <1>4, <1>5

\* The sections that complete a job from the queue, unless it is there.
LEMMA QueuedAckCounts ==
    ASSUME IInv, Counted, NoLateAck, NEW c \in Clients,
           \/ CompleteQueued(c, "completeFirst", "commitFirst")
           \/ CompleteQueued(c, "completeAgain", "commitAgain")
           \/ CommitQueued(c, "commitFirst") \/ CommitQueued(c, "commitAgain")
    PROVE  Counted'
<1>1. PICK j \in Jobs : req[c].job = j
  BY HasItsJob DEF IInv, Typed, CompleteQueued, CommitQueued, At
<1>2. RequestsTyped /\ IndexTyped /\ Placed(j)
  BY DEF IInv, Typed
<1>3. req[c].pc # "ackCommit"
  BY DEF CompleteQueued, CommitQueued, At
<1>4. Finish(c) \/ \E s \in Steps \ {"ackCommit"} : Goto(c, s)
  BY DEF CompleteQueued, CommitQueued, Complete, Steps, AckSteps
<1>5. CommitsSame
  BY <1>2, <1>3, <1>4, MovesNoCommit
<1>6. CASE req[c].pc \in Late
  <2>1. j \notin queued
    BY <1>1, <1>6 DEF NoLateAck
  <2>2. active' = active /\ jobIndex' = jobIndex
    BY <1>1, <1>6, <2>1 DEF CompleteQueued, CommitQueued, At, Late
  <2> QED
    BY <1>5, <2>2, UseSame, CountStays
<1>7. CASE req[c].pc \notin Late
  <2>1. req[c].pc \in {"commitFirst", "commitAgain"} /\ active' = active
    BY <1>7 DEF CompleteQueued, CommitQueued, At, Late
  <2>2. HeldBy(c, j) /\ jobIndex[j] = "queue" /\ j \notin InUse
    BY <1>1, <1>2, <2>1, Found DEF Owns, ClaimSteps, HeldBy, WaitingClaims, InUse
  <2>3. jobIndex' = [jobIndex EXCEPT ![j] = "completed"]
    BY <1>1, <1>7, <2>2 DEF CompleteQueued, CommitQueued, Complete, At, Late
  <2> QED
    BY <1>2, <1>5, <2>1, <2>2, <2>3, UseElsewhere, CountStays
<1> QED
  BY <1>6, <1>7

LEMMA FailCounts ==
    ASSUME IInv, Counted, NEW c \in Clients, FailClaim(c) \/ FailMove(c)
    PROVE  Counted'
<1>1. PICK j \in Jobs : req[c].job = j
  BY HasItsJob DEF IInv, Typed, FailClaim, FailMove, At
<1>2. RequestsTyped /\ IndexTyped /\ Placed(j)
  BY DEF IInv, Typed
<1>3. req[c].pc # "ackCommit"
  BY DEF FailClaim, FailMove, At
<1>4. Finish(c) \/ \E s \in Steps \ {"ackCommit"} : Goto(c, s)
  BY DEF FailClaim, FailMove, FailUnowned, Steps, FailSteps
<1>5. CommitsSame
  BY <1>2, <1>3, <1>4, MovesNoCommit
<1>6. CASE FailClaim(c)
  BY <1>5, <1>6, UseSame, CountStays DEF FailClaim
<1>7. CASE FailMove(c)
  <2>1. HeldBy(c, j) /\ j \in InUse
    BY <1>1, <1>2, <1>7, Found, UseOf DEF FailMove, Owns, ClaimSteps, WaitingClaims
  <2>2. active' = Released /\ (Enqueue(j) \/ Bury(j))
    BY <1>1, <1>7, <2>1 DEF FailMove, InUse
  <2>3. InUse' = InUse \ {j}
    BY <1>2, <1>5, <2>1, <2>2, UseEnds DEF Enqueue, Bury
  <2> QED
    BY <2>1, <2>2, <2>3, CountFalls
<1> QED
  BY <1>6, <1>7

LEMMA MoveCounts ==
    ASSUME IInv, Counted, NEW c \in Clients,
           \/ ClaimForMove(c, "moveClaim", "moveQueue")
           \/ ClaimForMove(c, "discardClaim", "discardActiveMove")
           \/ RemoveForDiscard(c) \/ MoveToQueue(c)
           \/ MoveToDlq(c, "discardActiveMove") \/ MoveToDlq(c, "discardQueuedMove")
    PROVE  Counted'
<1>1. PICK j \in Jobs : req[c].job = j
  BY HasItsJob DEF IInv, Typed, ClaimForMove, RemoveForDiscard, MoveToQueue, MoveToDlq, At
<1>2. RequestsTyped /\ IndexTyped /\ Placed(j)
  BY DEF IInv, Typed
<1>3. req[c].pc # "ackCommit"
  BY DEF ClaimForMove, RemoveForDiscard, MoveToQueue, MoveToDlq, At
<1>4. Finish(c) \/ \E s \in Steps \ {"ackCommit"} : Goto(c, s)
  BY DEF ClaimForMove, RemoveForDiscard, MoveToQueue, MoveToDlq, Steps, MoveSteps
<1>5. CommitsSame
  BY <1>2, <1>3, <1>4, MovesNoCommit
<1>6. CASE req[c].pc \in {"moveClaim", "discardClaim", "discardQueued"}
  <2>1. active' = active /\ jobIndex' = jobIndex
    BY <1>6 DEF ClaimForMove, RemoveForDiscard, MoveToQueue, MoveToDlq, At
  <2> QED
    BY <1>5, <2>1, UseSame, CountStays
<1>7. CASE req[c].pc \in {"moveQueue", "discardActiveMove"}
  <2>1. HeldBy(c, j) /\ j \in InUse
    BY <1>1, <1>2, <1>7, Found, UseOf DEF Owns, ClaimSteps, WaitingClaims
  <2>2. active' = Released /\ (Enqueue(j) \/ Bury(j))
    BY <1>1, <1>7 DEF ClaimForMove, RemoveForDiscard, MoveToQueue, MoveToDlq, At, HadSlot
  <2>3. InUse' = InUse \ {j}
    BY <1>2, <1>5, <2>1, <2>2, UseEnds DEF Enqueue, Bury
  <2> QED
    BY <2>1, <2>2, <2>3, CountFalls
<1>8. CASE req[c].pc = "discardQueuedMove"
  <2>1. HeldBy(c, j) /\ j \notin InUse
    BY <1>1, <1>2, <1>8, Found, UseOf DEF Owns, ClaimSteps, WaitingClaims
  <2>2. active' = active /\ Bury(j)
    BY <1>1, <1>8 DEF ClaimForMove, RemoveForDiscard, MoveToQueue, MoveToDlq, At, HadSlot
  <2> QED
    BY <1>2, <1>5, <2>1, <2>2, UseElsewhere, CountStays DEF Bury
<1> QED
  BY <1>6, <1>7, <1>8 DEF ClaimForMove, RemoveForDiscard, MoveToQueue, MoveToDlq, At

\* A sweep takes a job back and its slot with it, or leaves both.
LEMMA SweepCounts ==
    ASSUME IInv, Counted, Sweep
    PROVE  Counted'
<1>1. CommitsSame
  BY NoRequestNoCommit
  DEF Sweep, CheckStalledJobs, HandleStalled, CheckExpiredLocks, HandleExpired, ReleaseJob
<1>2. ASSUME NEW j \in Jobs, j \in processing, Reclaim(j), Enqueue(j) \/ Bury(j)
      PROVE  Counted'
  <2>1. j \in InUse
    BY <1>2, Found, UseOf DEF IInv
  <2>2. InUse' = InUse \ {j}
    BY <1>1, <1>2, <2>1, UseEnds DEF Enqueue, Bury, IInv, Typed
  <2> QED
    BY <1>2, <2>1, <2>2, CountFalls DEF Reclaim
<1>3. \/ active' = active /\ jobIndex' = jobIndex
      \/ \E j \in processing : Reclaim(j) /\ (Enqueue(j) \/ Bury(j))
  BY DEF Sweep, CheckStalledJobs, HandleStalled, CheckExpiredLocks, HandleExpired, ReleaseJob,
         StillProcessing, indexVars
<1>4. processing \subseteq Jobs
  BY DEF IInv, Typed, CollectionsTyped
<1> QED
  BY <1>1, <1>2, <1>3, <1>4, UseSame, CountStays

\* The other sections use no slot and give none back.
LEMMA RestCounts ==
    ASSUME IInv, Counted,
           \/ \E j \in Jobs : Push(j) \/ HeartbeatAges(j) \/ LeaseAges(j)
           \/ \E c \in Clients :
                \/ Heartbeat(c) \/ Ack(c) \/ Fail(c) \/ WorkerDies(c) \/ Disconnect(c)
                \/ \E j \in Jobs : \/ MoveActive(c, j) \/ DiscardActive(c, j)
                                   \/ DiscardQueued(c, j) \/ DelayQueued(c, j)
                \/ Finalize(c) \/ Lease(c) \/ FailEnd(c) \/ DelayInQueue(c) \/ MoveEnd(c)
           \/ UNCHANGED vars
    PROVE  Counted'
<1> USE DEF IInv, Typed
<1>1. ASSUME NEW j \in Jobs, Push(j)
      PROVE  Counted'
  <2>1. j \notin InUse
    BY <1>1 DEF InUse, Push
  <2>2. CommitsSame /\ active' = active /\ Enqueue(j)
    BY <1>1, NoRequestNoCommit DEF Push
  <2> QED
    BY <2>1, <2>2, UseElsewhere, CountStays DEF Enqueue
<1>2. ASSUME UNCHANGED <<jobIndex, active, req>>
      PROVE  Counted'
  BY <1>2, NoRequestNoCommit, UseSame, CountStays
<1>3. ASSUME NEW c \in Clients, UNCHANGED <<jobIndex, active>>,
             req[c].pc # "ackCommit", req'[c].pc # "ackCommit",
             \A d \in Clients : d # c => req'[d] = req[d]
      PROVE  Counted'
  BY <1>3, NoCommit, UseSame, CountStays
<1>4. ASSUME NEW j \in Jobs, HeartbeatAges(j) \/ LeaseAges(j)
      PROVE  Counted'
  BY <1>2, <1>4 DEF HeartbeatAges, LeaseAges, indexVars
<1>5. ASSUME NEW c \in Clients, Heartbeat(c) \/ Disconnect(c)
      PROVE  Counted'
  BY <1>2, <1>5 DEF Heartbeat, Disconnect, indexVars
<1>6. ASSUME NEW c \in Clients,
             \/ Ack(c) \/ Fail(c) \/ WorkerDies(c)
             \/ \E j \in Jobs : \/ MoveActive(c, j) \/ DiscardActive(c, j)
                                \/ DiscardQueued(c, j) \/ DelayQueued(c, j)
             \/ Finalize(c) \/ Lease(c) \/ FailEnd(c) \/ DelayInQueue(c) \/ MoveEnd(c)
      PROVE  Counted'
  <2>1. UNCHANGED <<jobIndex, active>> /\ req[c].pc # "ackCommit"
    BY <1>6
    DEF Ack, Fail, WorkerDies, MoveActive, DiscardActive, DiscardQueued, DelayQueued, Move,
        ToldToMove, Finalize, Lease, FailEnd, DelayInQueue, MoveEnd, At, indexVars
  <2>2. CASE Ack(c) \/ WorkerDies(c) \/ Finalize(c) \/ FailEnd(c) \/ DelayInQueue(c) \/ MoveEnd(c)
    <3>1. Finish(c) \/ \E s \in Steps \ {"ackCommit"} : Goto(c, s)
      BY <2>2
      DEF Ack, WorkerDies, Finalize, FailEnd, DelayInQueue, MoveEnd, Steps, AckSteps, PullSteps,
          MoveSteps
    <3> QED
      BY <2>1, <3>1, MovesNoCommit, UseSame, CountStays
  <2>3. CASE Fail(c) \/ Lease(c)
    <3>1. req'[c].pc # "ackCommit" /\ \A d \in Clients : d # c => req'[d] = req[d]
      BY <2>3 DEF Fail, Lease, Finish, Goto, Idle, RequestsTyped, Requests
    <3> QED
      BY <1>3, <2>1, <3>1
  <2>4. ASSUME NEW j \in Jobs, \/ MoveActive(c, j) \/ DiscardActive(c, j)
                               \/ DiscardQueued(c, j) \/ DelayQueued(c, j)
        PROVE  Counted'
    <3>1. req'[c].pc # "ackCommit" /\ \A d \in Clients : d # c => req'[d] = req[d]
      BY <2>4
      DEF MoveActive, DiscardActive, DiscardQueued, DelayQueued, Move, RequestsTyped, Requests
    <3> QED
      BY <1>3, <2>1, <3>1
  <2> QED
    BY <1>6, <2>2, <2>3, <2>4
<1>7. CASE UNCHANGED vars
  BY <1>2, <1>7 DEF vars, indexVars
<1> QED
  BY <1>1, <1>4, <1>5, <1>6, <1>7

LEMMA Counts ==
    ASSUME "abort" \notin Hazards, IInv, Counted, NoLateAck, [Next]_vars
    PROVE  Counted'
<1>1. ASSUME NEW c \in Clients, RequestStep(c)
      PROVE  Counted'
  <2>1. CASE RequeueAborted(c) \/ UnlinkAborted(c)
    BY <2>1 DEF RequeueAborted, UnlinkAborted, IInv, NobodyUnlinks
  <2> QED
    BY <1>1, <2>1, AckCounts, QueuedAckCounts, FailCounts, MoveCounts, RestCounts DEF RequestStep
<1>2. ASSUME NEW c \in Clients, ClientStep(c)
      PROVE  Counted'
  BY <1>2, PullCounts, RestCounts DEF ClientStep
<1> QED
  BY <1>1, <1>2, SweepCounts, RestCounts DEF Next

LEMMA InitCounts == Init => Counted
<1> SUFFICES ASSUME Init
             PROVE  Counted
  OBVIOUS
<1>1. InUse = {}
  BY DEF Init, InUse
<1> QED
  BY <1>1, FS_EmptySet, LimitAssumption DEF Init, Counted

LEMMA InUseBounds ==
    ASSUME Counted, NEW S \in SUBSET InUse
    PROVE  Cardinality(S) <= Limit
<1>1. Cardinality(S) \in Nat /\ Cardinality(S) <= Cardinality(InUse)
  BY InUseFinite, FS_Subset, FS_CardinalityType
<1> QED
  BY <1>1, InUseFinite, LimitAssumption DEF Counted

LEMMA LimitFollows == IInv /\ Counted => LimitHonoured
<1> SUFFICES ASSUME IInv, Counted
             PROVE  LimitHonoured
  OBVIOUS
<1>1. {j \in processing : ~Unlinking(j)} \subseteq InUse
  BY Found, UseOf DEF IInv, Typed, CollectionsTyped
<1> QED
  BY <1>1, InUseBounds DEF LimitHonoured

\* Nothing but the completion of a job from the queue can exceed the limit: it
\* is honoured, through stalls, expired leases, disconnections, moves and any
\* number of attempts, as long as no ack finds its job back in the queue.
THEOREM LimitUnlessLate ==
    ASSUME "abort" \notin Hazards
    PROVE  Spec /\ []NoLateAck => []LimitHonoured
<1>1. IInv /\ Counted /\ NoLateAck /\ [Next]_vars => Counted'
  BY Counts
<1>2. Spec /\ []NoLateAck => []Counted
  BY <1>1, Custody, InitCounts, PTL DEF Spec
<1> QED
  BY <1>2, Custody, LimitFollows, PTL

\* A job with one attempt is not in the queue once it has failed, stalled or
\* lost its lease, so no ack looks for it there.
NobodyLate == \A c \in Clients : req[c].pc \notin Late

LEMMA NobodyComesLate ==
    ASSUME MaxAttempts = 1, IInv, NobodyLate, [Next]_vars
    PROVE  NobodyLate'
<1> USE DEF IInv, Typed
<1>1. \A j \in Jobs : ~StallRetried(j)
  <2> SUFFICES ASSUME NEW j \in Jobs, StallRetried(j)
               PROVE  FALSE
    OBVIOUS
  <2>1. job[j].attempts < 1 /\ job[j].attempts > 0
    BY Found DEF StallRetried, Waiting, Fit
  <2> QED
    BY <2>1 DEF ObjectsTyped, JobObjects
<1>2. ASSUME NEW c \in Clients, \A d \in Clients : d # c => req'[d] = req[d],
             req'[c].pc \notin Late
      PROVE  NobodyLate'
  BY <1>2 DEF NobodyLate
<1>3. ASSUME NEW c \in Clients, Finish(c) \/ \E s \in Steps \ Late : Goto(c, s)
      PROVE  NobodyLate'
  <2>1. CASE Finish(c)
    BY <1>2, <2>1, FinishMoves DEF Late
  <2>2. ASSUME NEW s \in Steps \ Late, Goto(c, s)
        PROVE  NobodyLate'
    BY <1>2, <2>2, GotoMoves
  <2> QED
    BY <1>3, <2>1, <2>2
<1>4. CASE UNCHANGED req
  BY <1>4 DEF NobodyLate
<1>5. ASSUME NEW c \in Clients, RequestStep(c)
      PROVE  NobodyLate'
  <2>1. CASE Lease(c)
    <3>1. req'[c].pc = "working" /\ \A d \in Clients : d # c => req'[d] = req[d]
      BY <2>1 DEF Lease, Goto, RequestsTyped, Requests
    <3> QED
      BY <1>2, <3>1 DEF Late
  <2>2. CASE AckClaim(c) \/ AckRelease(c) \/ AckCommit(c)
    <3>1. ~StallRetried(req[c].job)
      BY <1>1, <2>2, HasItsJob DEF AckClaim, AckRelease, AckCommit, At
    <3>2. Finish(c) \/ \E s \in Steps \ Late : Goto(c, s)
      BY <2>2, <3>1 DEF AckClaim, AckRelease, AckCommit, AckUnowned, Complete, Steps, AckSteps, Late
    <3> QED
      BY <1>3, <3>2
  <2>3. CASE \/ CompleteQueued(c, "completeFirst", "commitFirst")
             \/ CompleteQueued(c, "completeAgain", "commitAgain")
    BY <2>3 DEF CompleteQueued, At, NobodyLate, Late
  <2>4. CASE ~Lease(c) /\ ~AckClaim(c) /\ ~AckRelease(c) /\ ~AckCommit(c)
             /\ req[c].pc \notin Late
    <3>1. Finish(c) \/ \E s \in Steps \ Late : Goto(c, s)
      BY <1>5, <2>4
      DEF RequestStep, RequeueAborted, UnlinkAborted, Finalize, CompleteQueued, CommitQueued,
          Complete, FailClaim, FailMove, FailUnowned, FailEnd, ClaimForMove, RemoveForDiscard,
          MoveToQueue, DelayInQueue, MoveEnd, MoveToDlq, At,
          Steps, PullSteps, AckSteps, FailSteps, MoveSteps, Late
    <3> QED
      BY <1>3, <3>1
  <2> QED
    BY <2>1, <2>2, <2>4 DEF NobodyLate
<1>6. ASSUME NEW c \in Clients, ClientStep(c)
      PROVE  NobodyLate'
  <2>1. CASE Ack(c)
    <3>1. ~StallRetried(req[c].job)
      BY <1>1, <2>1, HasItsJob DEF Ack, At
    <3>2. Finish(c) \/ \E s \in Steps \ Late : Goto(c, s)
      BY <2>1, <3>1 DEF Ack, Steps, AckSteps, Late
    <3> QED
      BY <1>3, <3>2
  <2>2. CASE WorkerDies(c)
    BY <1>3, <2>2 DEF WorkerDies
  <2>3. CASE Heartbeat(c) \/ Disconnect(c)
    BY <1>4, <2>3 DEF Heartbeat, Disconnect
  <2>4. CASE Fail(c) \/ \E j \in Jobs : \/ Dequeue(c, j) \/ MoveActive(c, j)
                                        \/ DiscardActive(c, j) \/ DiscardQueued(c, j)
                                        \/ DelayQueued(c, j)
    <3>1. req'[c].pc \notin Late /\ \A d \in Clients : d # c => req'[d] = req[d]
      BY <2>4
      DEF Fail, Finish, Idle, Dequeue, MoveActive, DiscardActive, DiscardQueued, DelayQueued, Move,
          RequestsTyped, Requests, Late
    <3> QED
      BY <1>2, <3>1
  <2> QED
    BY <1>6, <2>1, <2>2, <2>3, <2>4 DEF ClientStep
<1>7. CASE Sweep \/ UNCHANGED vars \/ \E j \in Jobs : Push(j) \/ HeartbeatAges(j) \/ LeaseAges(j)
  BY <1>4, <1>7
  DEF Sweep, CheckStalledJobs, HandleStalled, CheckExpiredLocks, HandleExpired, ReleaseJob,
      Push, HeartbeatAges, LeaseAges, vars
<1> QED
  BY <1>5, <1>6, <1>7 DEF Next

\* Where every job has one attempt, as with attempts 1, the limit is honoured
\* through stalls, expired leases, disconnections and moves.
THEOREM LimitOfOneAttempt ==
    ASSUME "abort" \notin Hazards, MaxAttempts = 1
    PROVE  Spec => []LimitHonoured
<1>1. IInv /\ NobodyLate /\ [Next]_vars => NobodyLate'
  BY NobodyComesLate
<1>2. Init => NobodyLate
  BY DEF Init, NobodyLate, Late, Idle
<1>3. Spec => []NobodyLate
  BY <1>1, <1>2, Custody, PTL DEF Spec
<1>4. NobodyLate => NoLateAck
  BY DEF NobodyLate, NoLateAck
<1> QED
  BY <1>3, <1>4, LimitUnlessLate, PTL

-----------------------------------------------------------------------------
(***************************************************************************)
(* Aborted pulls.  Between its two sections requeueJob leaves the job in   *)
(* both collections, and another pull may take it there.  Where nothing    *)
(* else takes a job from its worker that does no harm: a job is with one   *)
(* client at a time, and what a late unlink finds it leaves alone.         *)
(***************************************************************************)

\* The steps of a client that a pull has given its job to, up to its claim.
Carries(c, j) ==
    /\ req[c].job = j
    /\ req[c].pc \in {"dequeued", "finalized", "working", "ackClaim", "failClaim"}

\* The job is back in the queue and still to be unlinked.
Undone(j) ==
    /\ j \in queued /\ j \in processing /\ jobIndex[j] = "queue"
    /\ Unowned(j) /\ Fit(j) /\ Unlinking(j)

\* No handler but those of pull, ack and fail, and nothing for a sweep to find.
Plain == {"idle", "dequeued", "unlink", "finalized", "working", "ackClaim", "ackRelease",
          "ackCommit", "failClaim", "failRetry", "failBury", "failEnd"}
Undisturbed ==
    /\ \A c \in Clients : req[c].pc \in Plain
    /\ \A j \in Jobs : ~job[j].stale /\ ~jobLocks[j].expired
    /\ verdicts = {} /\ lapsed = {} /\ releasing = {}

Carried(j) ==
    \A c \in Clients : Carries(c, j) =>
        /\ Active(j)
        /\ \A d \in Clients : Carries(d, j) => c = d

AInv ==
    /\ Typed
    /\ Undisturbed
    /\ \A j \in Jobs : (Placed(j) \/ Undone(j)) /\ Carried(j)
    /\ Counted

LEMMA SameStaysActive ==
    ASSUME NEW k \in Jobs, Active(k), Same(k)
    PROVE  Active(k)'
  BY DEF Active, Same, OwnersSame, Unowned, Owns, Fit

\* Another job stays where it is, and with whom.
LEMMA OtherUndisturbed ==
    ASSUME NEW k \in Jobs, Placed(k) \/ Undone(k), Carried(k), Same(k),
           Unlinking(k) => Unlinking(k)',
           \A d \in Clients : Carries(d, k)' => Carries(d, k)
    PROVE  (Placed(k)' \/ Undone(k)') /\ Carried(k)'
<1>1. Undone(k) => Undone(k)'
  BY DEF Undone, Same, OwnersSame, Unowned, Owns, Fit
<1>2. Carried(k)'
  BY SameStaysActive DEF Carried
<1> QED
  BY <1>1, <1>2, SameStaysPlaced

\* A step of c that concerns its own job only.
OwnStep(c) == \A d \in Clients : d # c => req'[d] = req[d]

LEMMA StepOnOwn ==
    ASSUME AInv, Typed', Undisturbed', Counted', NEW c \in Clients, NEW j \in Jobs,
           OwnStep(c), req'[c].job \in {j, NoJob},
           req[c].pc = "idle" \/ req[c].job = j,
           OthersSame(j), Placed(j)' \/ Undone(j)', Carried(j)'
    PROVE  AInv'
<1>1. ASSUME NEW k \in Jobs, k # j
      PROVE  (Placed(k)' \/ Undone(k)') /\ Carried(k)'
  <2>1. k # NoJob
    BY JobsAssumption
  <2>2. Unlinking(k) => Unlinking(k)'
    BY <1>1 DEF Unlinking, At, OwnStep
  <2>3. \A d \in Clients : Carries(d, k)' => Carries(d, k)
    BY <1>1, <2>1 DEF Carries, OwnStep
  <2> QED
    BY <1>1, <2>2, <2>3, OtherUndisturbed DEF AInv, OthersSame
<1> QED
  BY <1>1 DEF AInv

\* A step that neither claims nor lets go.
LEMMA StepOnNone ==
    ASSUME AInv, Typed', Undisturbed', Counted', NEW c \in Clients, OwnStep(c),
           \A k \in Jobs : Same(k),
           \A k \in Jobs : Unlinking(k) => Unlinking(k)',
           \A k \in Jobs : Carries(c, k)' => Carries(c, k)
    PROVE  AInv'
<1>1. \A d \in Clients : \A k \in Jobs : Carries(d, k)' => Carries(d, k)
  BY DEF Carries, OwnStep
<1> QED
  BY <1>1, OtherUndisturbed DEF AInv

\* Gone on or ended, a handler leaves the others alone and is where it may be.
LEMMA Onward ==
    ASSUME RequestsTyped, Undisturbed, NEW c \in Clients,
           Finish(c) \/ \E s \in Plain : Goto(c, s)
    PROVE  /\ OwnStep(c) /\ \A d \in Clients : req'[d].pc \in Plain
           /\ req'[c].job \in {req[c].job, NoJob}
<1>1. CASE Finish(c)
  BY <1>1 DEF Finish, Idle, OwnStep, Plain, RequestsTyped, Requests, Undisturbed
<1>2. ASSUME NEW s \in Plain, Goto(c, s)
      PROVE  /\ OwnStep(c) /\ \A d \in Clients : req'[d].pc \in Plain
             /\ req'[c].job \in {req[c].job, NoJob}
  BY <1>2, GotoMoves DEF OwnStep, Undisturbed
<1> QED
  BY <1>1, <1>2

\* Whoever carries a job is the only one to have it, and it is active.
LEMMA CarriedBy ==
    ASSUME AInv, NEW c \in Clients, NEW j \in Jobs, Carries(c, j)
    PROVE  /\ Active(j) /\ SoleOwner(c, j)
           /\ j \in processing /\ j \notin queued /\ jobIndex[j] = "processing"
           /\ \A d \in Clients : Carries(d, j) => d = c
  BY DEF AInv, Carried, Active, SoleOwner, Unowned

\* Whoever has a job in hand too.
LEMMA Handled ==
    ASSUME AInv, NEW c \in Clients, NEW j \in Jobs, Owns(c, j)
    PROVE  HeldBy(c, j) /\ \A d \in Clients : ~Carries(d, j)
<1>1. ~Undone(j) /\ ~Active(j)
  BY DEF Undone, Active, Unowned
<1> QED
  BY <1>1, Found DEF AInv, Carried

-----------------------------------------------------------------------------
(***************************************************************************)
(* Aborted pulls, section by section.                                      *)
(***************************************************************************)

LEMMA PushAside ==
    ASSUME AInv, Typed', NEW j \in Jobs, Push(j)
    PROVE  AInv'
<1> USE DEF AInv, Typed
<1>1. Out(j) /\ Fit(j) /\ ~Undone(j)
  BY DEF Placed, Waiting, Active, HeldBy, Out, Push, Undone
<1>2. OthersSame(j)
  BY NoRequestOwnersSame DEF OthersSame, Same, Push, Enqueue, objectVars, IndexTyped
<1>3. Waiting(j)'
  BY <1>1 DEF Out, Waiting, Push, Enqueue, Fit, Unowned, Owns, objectVars, IndexTyped
<1>4. Undisturbed' /\ req' = req
  BY DEF Undisturbed, Push, objectVars, leaseVars, sweepVars
<1>5. Counted'
  <2>1. j \notin InUse
    BY <1>1, UseOf
  <2> QED
    BY <2>1, NoRequestNoCommit, UseElsewhere, CountStays DEF Push, Enqueue
<1>6. \A k \in Jobs : Carried(k)' /\ (k # j => Placed(k)' \/ Undone(k)')
  <2>1. \A d \in Clients : ~Carries(d, j)'
    BY <1>1, <1>4 DEF Carried, Carries, Active, Out
  <2>2. \A k \in Jobs : /\ Unlinking(k)' <=> Unlinking(k)
                        /\ \A d \in Clients : Carries(d, k)' => Carries(d, k)
    BY <1>4 DEF Carries, Unlinking, At
  <2>3. Carried(j)'
    BY <2>1 DEF Carried
  <2> QED
    BY <1>2, <2>2, <2>3, OtherUndisturbed DEF OthersSame
<1> QED
  BY <1>3, <1>4, <1>5, <1>6 DEF Placed

LEMMA DequeueAside ==
    ASSUME AInv, Typed', NEW c \in Clients, NEW j \in Jobs, Dequeue(c, j)
    PROVE  AInv'
<1> USE DEF AInv, Typed
<1>1. Waiting(j) \/ Undone(j)
  BY Found DEF Dequeue
<1>2. /\ req'[c].pc = "dequeued" /\ req'[c].job = j /\ req[c].pc = "idle" /\ OwnStep(c)
  BY DEF Dequeue, At, RequestsTyped, Requests, OwnStep
<1>3. \A k \in Jobs : OwnersSame(k)
  BY <1>2 DEF OwnersSame, Owns, ClaimSteps, OwnStep
<1>4. /\ job'[j].attempts = job[j].attempts
      /\ job'[j].stallCount = job[j].stallCount
      /\ job'[j].startedAt = deliveries[j] + 1
      /\ ~job'[j].stale
      /\ \A k \in Jobs \ {j} : job'[k] = job[k]
  BY DEF Dequeue, Start, ObjectsTyped, JobObjects
<1>5. OthersSame(j)
  BY <1>3, <1>4 DEF OthersSame, Same, Dequeue, IndexTyped
<1>6. Active(j)'
  <2>1. Unowned(j)'
    BY <1>1, <1>3 DEF Waiting, Undone, OwnersSame, Unowned, Owns
  <2>2. Fit(j)'
    BY <1>1, <1>4 DEF Waiting, Undone, Fit
  <2>3. deliveries[j] + 1 # 0
    BY DEF ObjectsTyped
  <2> QED
    BY <1>4, <2>1, <2>2, <2>3 DEF Active, Dequeue, IndexTyped
<1>7. Carried(j)'
  <2>1. \A d \in Clients : ~Carries(d, j)
    BY <1>1, CarriedBy DEF Waiting, Undone
  <2>2. \A d \in Clients : Carries(d, j)' => d = c
    BY <1>2, <2>1 DEF Carries, OwnStep
  <2> QED
    BY <1>6, <2>2 DEF Carried
<1>8. Counted'
  <2>1. j \notin InUse /\ ~Committing(j)
    BY <1>1 DEF InUse, Committing, Waiting, Undone, Unowned, Owns, ClaimSteps
  <2>2. CommitsSame
    BY <1>2, NoCommit DEF OwnStep
  <2> QED
    BY <2>1, <2>2, UseBegins, CountRises DEF Dequeue
<1>9. Undisturbed'
  BY <1>2, <1>4 DEF Undisturbed, Dequeue, OwnStep, Plain, leaseVars, sweepVars
<1> QED
  BY <1>2, <1>5, <1>6, <1>7, <1>8, <1>9, StepOnOwn DEF Placed

LEMMA RequeueAside ==
    ASSUME AInv, Typed', NEW c \in Clients, RequeueAborted(c)
    PROVE  AInv'
<1> USE DEF AInv, Typed
<1>1. PICK j \in Jobs : req[c].job = j
  BY HasItsJob DEF RequeueAborted, At
<1>2. Carries(c, j)
  BY <1>1 DEF Carries, RequeueAborted, At
<1>3. /\ active' = Released /\ job' = [job EXCEPT ![j].startedAt = 0]
      /\ Enqueue(j) /\ Goto(c, "unlink")
  BY <1>1, <1>2, CarriedBy DEF RequeueAborted
<1>4. /\ OwnStep(c) /\ req'[c].pc = "unlink" /\ req'[c].job = j
      /\ \A d \in Clients : req'[d].pc \in Plain
  BY <1>1, <1>3, GotoMoves, Onward DEF Plain
<1>5. /\ \A k \in Jobs : /\ job'[k].stallCount = job[k].stallCount
                         /\ job'[k].attempts = job[k].attempts
                         /\ job'[k].stale = job[k].stale
      /\ \A k \in Jobs \ {j} : job'[k] = job[k]
  BY <1>3 DEF ObjectsTyped, JobObjects
<1>6. OthersSame(j)
  BY <1>1, <1>3, <1>5, OthersOwnersSame
  DEF OthersSame, Same, RequeueAborted, Enqueue, IndexTyped, Steps, PullSteps
<1>7. Undone(j)'
  <2>1. Unowned(j)'
    BY <1>2, <1>4, CarriedBy DEF Unowned, Owns, OwnStep, ClaimSteps, Active
  <2>2. Fit(j)'
    BY <1>2, <1>5, CarriedBy DEF Fit, Active
  <2>3. Unlinking(j)'
    BY <1>4 DEF Unlinking, At
  <2> QED
    BY <1>2, <1>3, <2>1, <2>2, <2>3, CarriedBy DEF Undone, Enqueue, RequeueAborted, IndexTyped
<1>8. Carried(j)'
  BY <1>2, <1>4, CarriedBy DEF Carried, Carries, OwnStep
<1>9. Counted'
  <2>1. CommitsSame
    BY <1>3, MovesNoCommit DEF RequeueAborted, At, Steps, PullSteps
  <2>2. j \in InUse
    BY <1>2, CarriedBy, UseOf
  <2> QED
    BY <1>3, <2>1, <2>2, UseEnds, CountFalls DEF Enqueue
<1>10. Undisturbed'
  BY <1>4, <1>5 DEF Undisturbed, RequeueAborted, leaseVars, sweepVars
<1> QED
  BY <1>1, <1>4, <1>6, <1>7, <1>8, <1>9, <1>10, StepOnOwn

\* Unlinking a job that another pull has taken, or that has gone further, does
\* nothing to it.
LEMMA UnlinkAside ==
    ASSUME AInv, Typed', NEW c \in Clients, UnlinkAborted(c)
    PROVE  AInv'
<1> USE DEF AInv, Typed
<1>1. PICK j \in Jobs : req[c].job = j
  BY HasItsJob DEF UnlinkAborted, At
<1>2. /\ OwnStep(c) /\ \A d \in Clients : req'[d].pc \in Plain
      /\ req'[c].job \in {j, NoJob} /\ req'[c].pc = "idle" /\ req[c].pc = "unlink"
  BY <1>1, Onward, FinishMoves DEF UnlinkAborted, At
<1>3. \A k \in Jobs : OwnersSame(k)
  BY <1>2, NoClaimOwnersSame DEF UnlinkAborted, ClaimSteps
<1>4. OthersSame(j)
  BY <1>1, <1>3 DEF OthersSame, Same, UnlinkAborted, PulledAgain, objectVars
<1>5. Placed(j)'
  <2>1. CASE Placed(j)
    <3>1. processing' = processing
      BY <1>1, <2>1 DEF UnlinkAborted, PulledAgain, Placed, Waiting, Active, HeldBy, Out
    <3> QED
      BY <1>3, <2>1, <3>1, SameStaysPlaced DEF Same, UnlinkAborted, objectVars
  <2>2. CASE Undone(j)
    <3>1. processing' = processing \ {j}
      BY <1>1, <2>2 DEF UnlinkAborted, PulledAgain, Undone
    <3>2. Unowned(j)' /\ Fit(j)'
      BY <1>3, <2>2 DEF Undone, OwnersSame, Unowned, Owns, Fit, UnlinkAborted, objectVars
    <3> QED
      BY <2>2, <3>1, <3>2 DEF Undone, Placed, Waiting, UnlinkAborted
  <2> QED
    BY <2>1, <2>2
<1>6. Carried(j)'
  <2>1. \A d \in Clients : Carries(d, j)' => Carries(d, j)
    BY <1>2 DEF Carries, OwnStep
  <2>2. Active(j) => Active(j)'
    BY <1>1, <1>3
    DEF Active, OwnersSame, Unowned, Owns, Fit, UnlinkAborted, PulledAgain, objectVars
  <2> QED
    BY <2>1, <2>2 DEF Carried
<1>7. Counted'
  BY <1>2, NoCommit, UseSame, CountStays DEF OwnStep, UnlinkAborted
<1>8. Undisturbed'
  BY <1>2 DEF Undisturbed, UnlinkAborted, objectVars, leaseVars, sweepVars
<1> QED
  BY <1>1, <1>2, <1>4, <1>5, <1>6, <1>7, <1>8, StepOnOwn

\* The sections that come before a claim and after the job has changed hands.
LEMMA BesideAside ==
    ASSUME AInv, Typed', NEW c \in Clients,
           \/ Finalize(c) \/ Lease(c) \/ Ack(c) \/ Fail(c) \/ FailEnd(c) \/ WorkerDies(c)
    PROVE  AInv'
<1> USE DEF AInv, Typed
<1>1. PICK j \in Jobs : req[c].job = j
  BY HasItsJob DEF Finalize, Lease, Ack, Fail, FailEnd, WorkerDies, At
<1>2. req[c].pc \in {"finalized", "dequeued", "working", "failEnd"}
  BY DEF Finalize, Lease, Ack, Fail, FailEnd, WorkerDies, At
<1>3. CASE req'[c].pc = "idle" \/ (req[c].pc # "failEnd" /\ req'[c].job = req[c].job
           /\ req'[c].pc \in {"finalized", "working", "ackClaim", "failClaim"})
  <2>1. OwnStep(c)
    <3>1. CASE Finalize(c) \/ Ack(c) \/ FailEnd(c) \/ WorkerDies(c)
      <4>1. Finish(c) \/ \E s : Goto(c, s)
        BY <3>1 DEF Finalize, Ack, FailEnd, WorkerDies
      <4> QED
        BY <4>1, FinishMoves, GotoMoves DEF OwnStep
    <3>2. CASE Lease(c) \/ Fail(c)
      BY <3>2 DEF OwnStep, Lease, Fail, Finish, Goto, RequestsTyped, Requests
    <3> QED
      BY <3>1, <3>2
  <2>2. \A k \in Jobs : Same(k)
    BY <1>2, <1>3, <2>1
    DEF Same, OwnersSame, Owns, ClaimSteps, OwnStep,
        Finalize, Lease, Ack, Fail, FailEnd, WorkerDies, indexVars, objectVars
  <2>3. \A k \in Jobs : /\ Unlinking(k) => Unlinking(k)'
                        /\ Carries(c, k)' => Carries(c, k)
    BY <1>2, <1>3, <2>1 DEF Unlinking, At, Carries, OwnStep
  <2>4. Counted'
    <3>1. CommitsSame
      BY <1>2, <1>3, <2>1, NoCommit DEF OwnStep
    <3>2. UNCHANGED <<jobIndex, active>>
      BY DEF Finalize, Lease, Ack, Fail, FailEnd, WorkerDies, indexVars
    <3> QED
      BY <3>1, <3>2, UseSame, CountStays
  <2>5. Undisturbed'
    <3>1. \A k \in Jobs : ~jobLocks'[k].expired
      BY DEF Undisturbed, Finalize, Lease, Ack, Fail, FailEnd, WorkerDies, ReleaseLock, NoLease,
             leaseVars, LocksTyped, Leases
    <3> QED
      BY <1>2, <1>3, <2>1, <3>1
      DEF Undisturbed, Plain, OwnStep, Finalize, Lease, Ack, Fail, FailEnd, WorkerDies,
          objectVars, sweepVars
  <2> QED
    BY <2>1, <2>2, <2>3, <2>4, <2>5, StepOnNone
<1>4. CASE Ack(c)
  <2>1. ~StallRetried(j)
    BY <1>1, <1>4, CarriedBy DEF Ack, At, Carries, StallRetried
  <2> QED
    BY <1>1, <1>3, <1>4, <2>1, GotoMoves, FinishMoves DEF Ack, At
<1>5. CASE Finalize(c)
  BY <1>1, <1>3, <1>5, GotoMoves, FinishMoves DEF Finalize, At
<1>6. CASE Lease(c)
  <2>1. req'[c].pc = "working" /\ req'[c].job = req[c].job
    BY <1>6 DEF Lease, Goto, RequestsTyped, Requests
  <2> QED
    BY <1>3, <1>6, <2>1 DEF Lease, At
<1>7. CASE Fail(c)
  <2>1. req'[c].pc = "idle" \/ (req'[c].pc = "failClaim" /\ req'[c].job = req[c].job)
    BY <1>7 DEF Fail, Finish, Idle, RequestsTyped, Requests
  <2> QED
    BY <1>3, <1>7, <2>1 DEF Fail, At
<1>8. CASE FailEnd(c) \/ WorkerDies(c)
  BY <1>3, <1>8, FinishMoves DEF FailEnd, WorkerDies
<1> QED
  BY <1>4, <1>5, <1>6, <1>7, <1>8

LEMMA HeartbeatAside ==
    ASSUME AInv, Typed', NEW c \in Clients, Heartbeat(c)
    PROVE  AInv'
<1> USE DEF AInv, Typed
<1>1. \A k \in Jobs : /\ job'[k].attempts = job[k].attempts
                      /\ job'[k].stallCount = job[k].stallCount
                      /\ job'[k].startedAt = job[k].startedAt
                      /\ job'[k].stale => job[k].stale
                      /\ jobLocks'[k].expired => jobLocks[k].expired
  BY DEF Heartbeat, DropLease, NoLease, ObjectsTyped, JobObjects, LocksTyped, Leases
<1>2. \A k \in Jobs : Same(k)
  BY <1>1, NoRequestOwnersSame DEF Same, Heartbeat, indexVars
<1>3. req' = req
  BY DEF Heartbeat
<1>4. Undisturbed'
  BY <1>1, <1>3 DEF Undisturbed, Heartbeat, sweepVars
<1>5. Counted'
  BY NoRequestNoCommit, UseSame, CountStays DEF Heartbeat, indexVars
<1>6. \A k \in Jobs : /\ Unlinking(k) => Unlinking(k)'
                      /\ Carries(c, k)' => Carries(c, k)
  BY <1>3 DEF Unlinking, At, Carries
<1> QED
  BY <1>2, <1>3, <1>4, <1>5, <1>6, StepOnNone DEF OwnStep

\* Claims for ack and fail.
LEMMA ClaimAside ==
    ASSUME AInv, Typed', NEW c \in Clients, AckClaim(c) \/ FailClaim(c)
    PROVE  AInv'
<1> USE DEF AInv, Typed
<1>1. PICK j \in Jobs : req[c].job = j
  BY HasItsJob DEF AckClaim, FailClaim, At
<1>2. Carries(c, j)
  BY <1>1 DEF Carries, AckClaim, FailClaim, At
<1>3. processing' = processing \ {j} /\ queued' = queued /\ jobIndex' = jobIndex
  BY <1>1, <1>2, CarriedBy DEF AckClaim, FailClaim
<1>4. PICK s \in {"ackRelease", "failRetry", "failBury"} :
          Goto(c, s) /\ (s = "failRetry" => job'[j].attempts < MaxAttempts)
  BY <1>1, <1>2, CarriedBy DEF AckClaim, FailClaim, ObjectsTyped, JobObjects
<1>5. s \in Steps \cap ClaimSteps /\ s \in Plain
  BY DEF Steps, AckSteps, FailSteps, ClaimSteps, Plain
<1>6. /\ OwnStep(c) /\ \A d \in Clients : req'[d].pc \in Plain
      /\ req'[c].pc = s /\ req'[c].job = j
  BY <1>1, <1>4, <1>5, GotoMoves, Onward
<1>7. /\ \A k \in Jobs : /\ job'[k].stallCount = job[k].stallCount
                         /\ job'[k].stale = job[k].stale
      /\ \A k \in Jobs \ {j} : job'[k] = job[k]
  BY <1>1 DEF AckClaim, FailClaim, objectVars, ObjectsTyped, JobObjects
<1>8. OthersSame(j)
  BY <1>1, <1>3, <1>4, <1>5, <1>7, OthersOwnersSame DEF OthersSame, Same
<1>9. Owns(c, j)' /\ SoleOwner(c, j)'
  BY <1>1, <1>2, <1>4, <1>5, CarriedBy, Claims
<1>10. HeldBy(c, j)'
  BY <1>2, <1>3, <1>4, <1>6, <1>7, <1>9, CarriedBy DEF HeldBy, Active, WaitingClaims, Fit
<1>11. Carried(j)'
  BY <1>2, <1>6, CarriedBy DEF Carried, Carries, OwnStep
<1>12. Counted'
  <2>1. CommitsSame
    BY <1>4, <1>5, MovesNoCommit DEF AckClaim, FailClaim, At
  <2> QED
    BY <1>3, <2>1, UseSame, CountStays DEF AckClaim, FailClaim
<1>13. Undisturbed'
  <2>1. jobLocks' = jobLocks
    BY <1>1, <1>2, CarriedBy DEF AckClaim, FailClaim, leaseVars
  <2> QED
    BY <1>6, <1>7, <2>1 DEF Undisturbed, AckClaim, FailClaim, sweepVars
<1> QED
  BY <1>1, <1>6, <1>8, <1>10, <1>11, <1>12, <1>13, StepOnOwn DEF Placed

LEMMA AckReleaseAside ==
    ASSUME AInv, Typed', NEW c \in Clients, AckRelease(c)
    PROVE  AInv'
<1> USE DEF AInv, Typed
<1>1. PICK j \in Jobs : req[c].job = j
  BY HasItsJob DEF AckRelease, At
<1>2. /\ HeldBy(c, j) /\ jobIndex[j] = "processing" /\ req[c].pc = "ackRelease"
      /\ \A d \in Clients : ~Carries(d, j)
  BY <1>1, Handled DEF Owns, AckRelease, At, ClaimSteps, HeldBy, WaitingClaims
<1>3. Goto(c, "ackCommit") /\ active' = Released
  BY <1>1, <1>2 DEF AckRelease
<1>4. "ackCommit" \in Steps \cap ClaimSteps /\ "ackCommit" \in Plain
  BY DEF Steps, AckSteps, ClaimSteps, Plain
<1>5. /\ OwnStep(c) /\ \A d \in Clients : req'[d].pc \in Plain
      /\ req'[c].pc = "ackCommit" /\ req'[c].job = j
  BY <1>1, <1>3, <1>4, GotoMoves, Onward
<1>6. OthersSame(j)
  BY <1>1, <1>3, <1>4, OthersOwnersSame DEF OthersSame, Same, AckRelease, indexVars, objectVars
<1>7. HeldBy(c, j)'
  <2>1. Owns(c, j)' /\ SoleOwner(c, j)'
    BY <1>1, <1>2, <1>3, <1>4, Claims DEF HeldBy
  <2> QED
    BY <1>2, <1>5, <2>1 DEF HeldBy, AckRelease, WaitingClaims, indexVars
<1>8. Carried(j)'
  BY <1>2, <1>5 DEF Carried, Carries, OwnStep
<1>9. Counted'
  <2>1. j \in InUse
    BY <1>2, UseOf DEF WaitingClaims
  <2>2. InUse' = InUse \ {j}
    BY <1>1, <1>2, <1>5 DEF InUse, Committing, OwnStep, AckRelease, indexVars
  <2> QED
    BY <1>3, <2>1, <2>2, CountFalls
<1>10. Undisturbed'
  BY <1>5 DEF Undisturbed, AckRelease, objectVars, leaseVars, sweepVars
<1> QED
  BY <1>1, <1>5, <1>6, <1>7, <1>8, <1>9, <1>10, StepOnOwn DEF Placed

LEMMA AckCommitAside ==
    ASSUME AInv, Typed', NEW c \in Clients, AckCommit(c)
    PROVE  AInv'
<1> USE DEF AInv, Typed
<1>1. PICK j \in Jobs : req[c].job = j
  BY HasItsJob DEF AckCommit, At
<1>2. /\ HeldBy(c, j) /\ jobIndex[j] = "processing" /\ req[c].pc = "ackCommit"
      /\ \A d \in Clients : ~Carries(d, j)
  BY <1>1, Handled DEF Owns, AckCommit, At, ClaimSteps, HeldBy, WaitingClaims
<1>3. /\ Finish(c) /\ jobIndex' = [jobIndex EXCEPT ![j] = "completed"]
      /\ ReleaseLock(j, req[c].token)
  BY <1>1, <1>2 DEF AckCommit, Complete
<1>4. /\ OwnStep(c) /\ \A d \in Clients : req'[d].pc \in Plain
      /\ req'[c].pc = "idle" /\ req'[c].job \in {j, NoJob}
  BY <1>1, <1>3, FinishMoves, Onward
<1>5. OthersSame(j)
  BY <1>1, <1>3, OthersOwnersSame DEF OthersSame, Same, AckCommit, objectVars, IndexTyped
<1>6. Out(j)'
  BY <1>2, <1>3, LetsGo DEF HeldBy, Out, Terminal, AckCommit, IndexTyped
<1>7. Carried(j)'
  BY <1>2, <1>4 DEF Carried, Carries, OwnStep
<1>8. Counted'
  <2>1. j \notin InUse
    BY <1>2, UseOf
  <2>2. \A k \in Jobs \ {j} : Committing(k)' <=> Committing(k)
    BY <1>1, <1>4 DEF Committing, OwnStep
  <2>3. InUse' = InUse
    BY <1>3, <2>1, <2>2 DEF InUse, IndexTyped
  <2> QED
    BY <2>3, CountStays DEF AckCommit
<1>9. Undisturbed'
  BY <1>3, <1>4
  DEF Undisturbed, AckCommit, ReleaseLock, NoLease, LocksTyped, Leases, objectVars, sweepVars
<1> QED
  BY <1>1, <1>4, <1>5, <1>6, <1>7, <1>8, <1>9, StepOnOwn DEF Placed

LEMMA FailMoveAside ==
    ASSUME AInv, Typed', NEW c \in Clients, FailMove(c)
    PROVE  AInv'
<1> USE DEF AInv, Typed
<1>1. PICK j \in Jobs : req[c].job = j
  BY HasItsJob DEF FailMove
<1>2. /\ HeldBy(c, j) /\ jobIndex[j] = "processing"
      /\ \A d \in Clients : ~Carries(d, j)
  BY <1>1, Handled DEF Owns, FailMove, ClaimSteps, HeldBy, WaitingClaims
<1>3. /\ Goto(c, "failEnd") /\ active' = Released /\ jobLocks' = jobLocks
      /\ \/ Enqueue(j) /\ req[c].pc = "failRetry" /\ job' = [job EXCEPT ![j].startedAt = 0]
         \/ Bury(j) /\ job' = job
  BY <1>1, <1>2 DEF FailMove, At
<1>4. "failEnd" \in Steps \ (ClaimSteps \cup {"ackCommit"}) /\ "failEnd" \in Plain
  BY DEF Steps, FailSteps, ClaimSteps, Plain
<1>5. /\ OwnStep(c) /\ \A d \in Clients : req'[d].pc \in Plain
      /\ req'[c].pc = "failEnd" /\ req'[c].job = j
  BY <1>1, <1>3, <1>4, GotoMoves, Onward
<1>6. /\ \A k \in Jobs : /\ job'[k].stallCount = job[k].stallCount
                         /\ job'[k].attempts = job[k].attempts
                         /\ job'[k].stale = job[k].stale
      /\ \A k \in Jobs \ {j} : job'[k] = job[k]
  BY <1>3 DEF ObjectsTyped, JobObjects
<1>7. OthersSame(j)
  BY <1>1, <1>3, <1>4, <1>6, OthersOwnersSame
  DEF OthersSame, Same, FailMove, Enqueue, Bury, IndexTyped
<1>8. Waiting(j)' \/ Out(j)'
  <2>1. Unowned(j)'
    BY <1>2, <1>3, <1>4, LetsGo DEF HeldBy
  <2>2. req[c].pc = "failRetry" => Fit(j)'
    BY <1>2, <1>6 DEF HeldBy, Fit
  <2> QED
    BY <1>2, <1>3, <2>1, <2>2
    DEF HeldBy, Waiting, Out, Terminal, FailMove, Enqueue, Bury, IndexTyped
<1>9. Carried(j)'
  BY <1>2, <1>5 DEF Carried, Carries, OwnStep
<1>10. Counted'
  <2>1. CommitsSame
    BY <1>3, <1>4, MovesNoCommit DEF FailMove
  <2>2. j \in InUse
    BY <1>2, UseOf DEF FailMove, WaitingClaims
  <2>3. InUse' = InUse \ {j}
    BY <1>3, <2>1, <2>2, UseEnds DEF Enqueue, Bury
  <2> QED
    BY <1>3, <2>2, <2>3, CountFalls
<1>11. Undisturbed'
  BY <1>3, <1>5, <1>6 DEF Undisturbed, FailMove, sweepVars
<1> QED
  BY <1>1, <1>5, <1>7, <1>8, <1>9, <1>10, <1>11, StepOnOwn DEF Placed

\* Timers find nothing: no heartbeat is old and no lease has expired.
LEMMA SweepAside ==
    ASSUME AInv, Typed', Sweep
    PROVE  AInv'
<1> USE DEF AInv, Typed
<1>1. CheckStalledJobs
  BY DEF Sweep, Undisturbed, CheckExpiredLocks, Expired
<1>2. verdicts' = {} /\ UNCHANGED <<indexVars, objectVars, active, jobLocks, lapsed, releasing, req>>
  BY <1>1 DEF CheckStalledJobs, Stalled, Undisturbed, CollectionsTyped, leaseVars
<1>3. \A k \in Jobs : Same(k)
  BY <1>2, NoRequestOwnersSame DEF Same, indexVars, objectVars
<1>4. Undisturbed'
  BY <1>2 DEF Undisturbed, objectVars
<1>5. Counted'
  BY <1>2, NoRequestNoCommit, UseSame, CountStays DEF indexVars
<1>6. \A k \in Jobs : /\ Unlinking(k) => Unlinking(k)'
                      /\ \A d \in Clients : Carries(d, k)' => Carries(d, k)
  BY <1>2 DEF Unlinking, At, Carries
<1> QED
  BY <1>3, <1>4, <1>5, <1>6, OtherUndisturbed

LEMMA NextAside ==
    ASSUME Hazards \subseteq {"abort", "callback"}, AInv, [Next]_vars
    PROVE  AInv'
<1>1. Typed'
  BY TypedNext DEF AInv
<1>2. ASSUME NEW j \in Jobs, Push(j) \/ HeartbeatAges(j) \/ LeaseAges(j)
      PROVE  AInv'
  BY <1>1, <1>2, PushAside DEF HeartbeatAges, LeaseAges
<1>3. ASSUME NEW c \in Clients, ClientStep(c)
      PROVE  AInv'
  BY <1>1, <1>3, DequeueAside, HeartbeatAside, BesideAside
  DEF ClientStep, Disconnect, MoveActive, DiscardActive, DiscardQueued, DelayQueued, Move
<1>4. ASSUME NEW c \in Clients, RequestStep(c)
      PROVE  AInv'
  <2>1. req[c].pc \in Plain
    BY DEF AInv, Undisturbed
  <2>2. \/ RequeueAborted(c) \/ UnlinkAborted(c) \/ Finalize(c) \/ Lease(c)
        \/ AckClaim(c) \/ AckRelease(c) \/ AckCommit(c)
        \/ FailClaim(c) \/ FailMove(c) \/ FailEnd(c)
    BY <1>4, <2>1
    DEF RequestStep, CompleteQueued, CommitQueued, ClaimForMove, RemoveForDiscard, MoveToQueue,
        DelayInQueue, MoveEnd, MoveToDlq, At, Plain
  <2> QED
    BY <1>1, <2>2, RequeueAside, UnlinkAside, BesideAside, ClaimAside, AckReleaseAside,
       AckCommitAside, FailMoveAside
<1>5. CASE Sweep
  BY <1>1, <1>5, SweepAside
<1>6. CASE UNCHANGED vars
  <2>1. \A k \in Jobs : Same(k)
    BY <1>6, NoRequestOwnersSame DEF Same, vars, indexVars, objectVars
  <2>2. Undisturbed'
    BY <1>6 DEF AInv, Undisturbed, vars, objectVars, leaseVars, sweepVars
  <2>3. Counted'
    BY <1>6, NoRequestNoCommit, UseSame, CountStays DEF AInv, vars, indexVars
  <2>4. \A k \in Jobs : /\ Unlinking(k) => Unlinking(k)'
                        /\ \A d \in Clients : Carries(d, k)' => Carries(d, k)
    BY <1>6 DEF vars, Unlinking, At, Carries
  <2> QED
    BY <1>1, <2>1, <2>2, <2>3, <2>4, OtherUndisturbed DEF AInv
<1> QED
  BY <1>2, <1>3, <1>4, <1>5, <1>6 DEF Next

LEMMA InitAside == Init => AInv
<1> SUFFICES ASSUME Init
             PROVE  AInv
  OBVIOUS
<1>1. \A j \in Jobs : Placed(j)
  BY Initially DEF IInv
<1>2. Undisturbed
  BY DEF Init, Undisturbed, Plain, Idle, NewJob, NoLease
<1>3. \A j \in Jobs : Carried(j)
  BY DEF Init, Carried, Carries, Idle
<1> QED
  BY <1>1, <1>2, <1>3, TypedInit, InitCounts DEF AInv

THEOREM Undoing ==
    ASSUME Hazards \subseteq {"abort", "callback"}
    PROVE  Spec => []AInv
<1>1. AInv /\ [Next]_vars => AInv'
  BY NextAside
<1> QED
  BY <1>1, InitAside, PTL DEF Spec

\* Where nothing but pull, ack and fail takes a job, aborted pulls are undone
\* cleanly, whichever pulls of the same job come between their two sections:
\* the job is in one place, and the index says where.
THEOREM AbortsKeepOnePlace ==
    ASSUME Hazards \subseteq {"abort", "callback"}
    PROVE  Spec => [](OnePlace /\ IndexAgrees)
<1>1. AInv => OnePlace /\ IndexAgrees
  BY PlacedOnce, PlacedByIndex DEF AInv, Undone, OnePlace, IndexAgrees
<1> QED
  BY <1>1, Undoing, PTL

\* Nor does an aborted pull give back a slot too many or keep one: the limit is
\* honoured and no slot leaks, with any number of attempts.
THEOREM AbortsKeepLimit ==
    ASSUME Hazards \subseteq {"abort", "callback"}
    PROVE  Spec => [](LimitHonoured /\ NoSlotLeak)
<1>1. ASSUME AInv
      PROVE  LimitHonoured
  <2>1. {j \in processing : ~Unlinking(j)} \subseteq InUse
    BY <1>1, Found, UseOf DEF AInv, Undone, Typed, CollectionsTyped
  <2> QED
    BY <1>1, <2>1, InUseBounds DEF AInv, LimitHonoured
<1>2. ASSUME AInv
      PROVE  NoSlotLeak
  <2>1. ASSUME NEW j \in InUse
        PROVE  j \in SlotHolders
    <3>1. j \in Jobs /\ jobIndex[j] = "processing"
      BY <2>1 DEF InUse
    <3>2. Placed(j)
      BY <1>2, <3>1 DEF AInv, Undone
    <3>3. CASE Active(j)
      BY <3>3 DEF Active, SlotHolders
    <3>4. ASSUME NEW c \in Clients, HeldBy(c, j)
          PROVE  j \in SlotHolders
      BY <2>1, <3>1, <3>4, UseOf DEF HeldBy, Owns, ClaimSteps, WaitingClaims, SlotHolders, HoldsSlot
    <3> QED
      BY <3>1, <3>2, <3>3, <3>4 DEF Placed, Waiting, Out, Terminal
  <2>2. Cardinality(InUse) <= Cardinality(SlotHolders)
    BY <1>2, <2>1, SlotHoldersFinite, FS_Subset DEF AInv
  <2> QED
    BY <1>2, <2>2 DEF AInv, Counted, NoSlotLeak
<1>3. AInv => LimitHonoured /\ NoSlotLeak
  BY <1>1, <1>2
<1> QED
  BY <1>3, Undoing, PTL

-----------------------------------------------------------------------------
(***************************************************************************)
(* Leases.  A token says whose it is and which delivery it was made for,   *)
(* and that is what protects the lease of a delivery that goes on.         *)
(***************************************************************************)

TokensTold ==
    /\ \A c \in Clients : req[c].token # NoToken => req[c].token \in {c} \X Nat
    /\ \A j \in Jobs, c \in Clients, n \in Nat :
          jobLocks[j].token = <<c, n>> => jobLocks[j].createdAt = n

\* A token is never the empty one.
LEMMA TokenIsNone ==
    ASSUME NEW c, NEW n
    PROVE  <<c, n>> # NoToken
BY SMT DEF NoToken

LEMMA TokensStay ==
    ASSUME Typed, TokensTold, [Next]_vars
    PROVE  TokensTold'
<1> USE DEF Typed
<1>1. ASSUME NEW c \in Clients, Lease(c)
      PROVE  TokensTold'
  <2>1. PICK j \in Jobs : req[c].job = j
    BY <1>1, HasItsJob DEF Lease, At
  <2>2. deliveries[j] \in Nat
    BY DEF ObjectsTyped
  <2>3. /\ \/ req'[c].token = <<c, deliveries[j]>>
           \/ req'[c].token = req[c].token
        /\ \A d \in Clients : d # c => req'[d] = req[d]
    BY <1>1, <2>1 DEF Lease, Goto, RequestsTyped, Requests
  <2>4. \A k \in Jobs : \/ jobLocks'[k] = jobLocks[k]
                        \/ /\ jobLocks'[k].token = <<c, deliveries[j]>>
                           /\ jobLocks'[k].createdAt = deliveries[j]
    BY <1>1, <2>1 DEF Lease, LocksTyped
  <2>5. \A d \in Clients : req'[d].token # NoToken => req'[d].token \in {d} \X Nat
    <3>1. <<c, deliveries[j]>> \in {c} \X Nat
      BY <2>2
    <3> QED
      BY <2>3, <3>1 DEF TokensTold
  <2>6. ASSUME NEW k \in Jobs, NEW d \in Clients, NEW n \in Nat, jobLocks'[k].token = <<d, n>>
        PROVE  jobLocks'[k].createdAt = n
    <3>1. CASE jobLocks'[k] = jobLocks[k]
      BY <2>6, <3>1 DEF TokensTold
    <3>2. CASE /\ jobLocks'[k].token = <<c, deliveries[j]>>
               /\ jobLocks'[k].createdAt = deliveries[j]
      BY <2>6, <3>2
    <3> QED
      BY <2>4, <3>1, <3>2
  <2> QED
    BY <2>5, <2>6 DEF TokensTold
<1>2. ASSUME \A c \in Clients : req'[c].token \in {NoToken, req[c].token},
             \A j \in Jobs : \/ jobLocks'[j] = NoLease
                             \/ /\ jobLocks'[j].token = jobLocks[j].token
                                /\ jobLocks'[j].createdAt = jobLocks[j].createdAt
      PROVE  TokensTold'
  BY <1>2 DEF TokensTold, NoLease, NoToken
<1>3. ASSUME NEW c \in Clients, ClientStep(c)
      PROVE  TokensTold'
  <2>1. \A j \in Jobs : \/ jobLocks'[j] = NoLease
                        \/ /\ jobLocks'[j].token = jobLocks[j].token
                           /\ jobLocks'[j].createdAt = jobLocks[j].createdAt
    BY <1>3
    DEF ClientStep, Dequeue, Heartbeat, Ack, Fail, WorkerDies, Disconnect, MoveActive,
        DiscardActive, DiscardQueued, DelayQueued, Move, DropLease, ReleaseLock, leaseVars,
        LocksTyped, Leases
  <2>2. \A d \in Clients : req'[d].token \in {NoToken, req[d].token}
    BY <1>3
    DEF ClientStep, Dequeue, Heartbeat, Ack, Fail, WorkerDies, Disconnect, MoveActive,
        DiscardActive, DiscardQueued, DelayQueued, Move, Finish, Idle, Goto,
        RequestsTyped, Requests
  <2> QED
    BY <1>2, <2>1, <2>2
<1>4. ASSUME NEW c \in Clients, RequestStep(c), ~Lease(c)
      PROVE  TokensTold'
  <2>1. \A j \in Jobs : jobLocks'[j] = NoLease \/ jobLocks'[j] = jobLocks[j]
    BY <1>4
    DEF RequestStep, RequeueAborted, UnlinkAborted, Finalize, AckClaim, AckRelease, AckCommit,
        CompleteQueued, CommitQueued, Complete, FailClaim, FailMove, FailUnowned, FailEnd,
        ClaimForMove, RemoveForDiscard, MoveToQueue, DelayInQueue, MoveEnd, MoveToDlq,
        DropLease, ReleaseLock, leaseVars, LocksTyped
  <2>2. Finish(c) \/ \E s \in Steps : Goto(c, s)
    BY <1>4
    DEF RequestStep, RequeueAborted, UnlinkAborted, Finalize, AckClaim, AckRelease, AckCommit,
        AckUnowned, CompleteQueued, CommitQueued, Complete, FailClaim, FailMove, FailUnowned,
        FailEnd, ClaimForMove, RemoveForDiscard, MoveToQueue, DelayInQueue, MoveEnd, MoveToDlq,
        Steps, PullSteps, AckSteps, FailSteps, MoveSteps
  <2>3. \A d \in Clients : req'[d].token \in {NoToken, req[d].token}
    BY <2>2 DEF Finish, Goto, Idle, RequestsTyped, Requests
  <2> QED
    BY <1>2, <2>1, <2>3
<1>5. CASE Sweep \/ UNCHANGED vars \/ \E j \in Jobs : Push(j) \/ HeartbeatAges(j) \/ LeaseAges(j)
  <2>1. req' = req
    BY <1>5
    DEF Sweep, CheckStalledJobs, HandleStalled, CheckExpiredLocks, HandleExpired, ReleaseJob,
        Push, HeartbeatAges, LeaseAges, vars
  <2>2. \A j \in Jobs : \/ jobLocks'[j] = NoLease
                        \/ /\ jobLocks'[j].token = jobLocks[j].token
                           /\ jobLocks'[j].createdAt = jobLocks[j].createdAt
    <3>1. CASE CheckStalledJobs \/ UNCHANGED vars \/ \E j \in Jobs : Push(j) \/ HeartbeatAges(j)
      BY <3>1 DEF CheckStalledJobs, Push, HeartbeatAges, leaseVars, vars
    <3>2. CASE \E v \in verdicts : HandleStalled(v)
      BY <3>2 DEF HandleStalled, DropLease, leaseVars, LocksTyped
    <3>3. CASE CheckExpiredLocks
      BY <3>3 DEF CheckExpiredLocks, LocksTyped, Leases
    <3>4. CASE \E x \in lapsed : HandleExpired(x)
      BY <3>4 DEF HandleExpired, DropLease, leaseVars, LocksTyped
    <3>5. CASE \E r \in releasing : ReleaseJob(r)
      BY <3>5 DEF ReleaseJob, DropLease, leaseVars, LocksTyped
    <3>6. ASSUME NEW k \in Jobs, LeaseAges(k)
          PROVE  \A j \in Jobs : /\ jobLocks'[j].token = jobLocks[j].token
                                /\ jobLocks'[j].createdAt = jobLocks[j].createdAt
      BY <3>6 DEF LeaseAges, LocksTyped, Leases
    <3> QED
      BY <1>5, <3>1, <3>2, <3>3, <3>4, <3>5, <3>6 DEF Sweep
  <2> QED
    BY <1>2, <2>1, <2>2
<1> QED
  BY <1>1, <1>3, <1>4, <1>5 DEF Next

\* No step takes an unexpired lease of a delivery that goes on, unless it is one
\* of the three that may.
LEMMA LeaseStays ==
    ASSUME IInv, TokensTold, [Next]_vars, NEW c \in Clients, HoldsLease(c),
           ~TokenlessCallEnds(req[c].job), ~ClaimedByMove(req[c].job),
           ~ReleasedByClose(req[c].job)
    PROVE  jobLocks'[req[c].job].token = req[c].token
<1> USE DEF IInv, Typed
<1>1. PICK j \in Jobs : req[c].job = j
  BY HasItsJob DEF HoldsLease, Current, At
<1>2. PICK n \in Nat : req[c].token = <<c, n>> /\ n = job[j].startedAt
  BY <1>1 DEF HoldsLease, Current, ObjectsTyped, JobObjects
<1>3. /\ Active(j) /\ jobIndex[j] = "processing" /\ req[c].pc = "working"
      /\ jobLocks[j].createdAt = n /\ HasLease(j) /\ req[c].token # NoToken
      /\ jobLocks[j].token = req[c].token /\ ~jobLocks[j].expired
  <2>1. /\ req[c].pc = "working" /\ req[c].token # NoToken
        /\ jobLocks[j].token = req[c].token /\ ~jobLocks[j].expired
    BY <1>1, <1>2, TokenIsNone DEF HoldsLease, Current, At
  <2>2. Active(j) /\ jobIndex[j] = "processing"
    BY <1>1, Found DEF HoldsLease, Current, Active
  <2>3. jobLocks[j].createdAt = n
    BY <1>2, <2>1 DEF TokensTold
  <2> QED
    BY <1>1, <2>1, <2>2, <2>3 DEF HasLease
<1>4. j \in processing
  BY <1>3 DEF Active
<1> SUFFICES jobLocks'[j].token = jobLocks[j].token
  BY <1>1, <1>3
\* Nobody else's token is that of the lease.
<1>5. ASSUME NEW d \in Clients, d # c, req'[d].job = NoJob, ReleaseLock(req[d].job, req[d].token)
      PROVE  jobLocks'[j] = jobLocks[j]
  <2>1. CASE req[d].job # j
    BY <1>5, <2>1 DEF ReleaseLock, LocksTyped
  <2>2. CASE req[d].job = j
    <3>1. req[d].token # NoToken
      BY <1>1, <1>5, <2>2 DEF TokenlessCallEnds
    <3>2. req[d].token # jobLocks[j].token
      BY <1>2, <1>3, <1>5, <3>1 DEF TokensTold
    <3> QED
      BY <1>5, <3>1, <3>2 DEF ReleaseLock, LocksTyped
  <2> QED
    BY <2>1, <2>2
<1>6. ASSUME NEW d \in Clients, RequestStep(d)
      PROVE  jobLocks'[j].token = jobLocks[j].token
  <2>1. d # c
    BY <1>3, <1>6
    DEF RequestStep, RequeueAborted, UnlinkAborted, Finalize, Lease, AckClaim, AckRelease, AckCommit,
        CompleteQueued, CommitQueued, FailClaim, FailMove, FailEnd, ClaimForMove, RemoveForDiscard,
        MoveToQueue, DelayInQueue, MoveEnd, MoveToDlq, At
  <2>2. CASE Lease(d)
    <3>1. req[d].job = j => ~MayLease(j)
      BY <1>2, <1>3 DEF MayLease
    <3> QED
      BY <2>2, <3>1 DEF Lease, LocksTyped
  <2>3. CASE AckCommit(d) \/ CommitQueued(d, "commitFirst") \/ CommitQueued(d, "commitAgain")
    <3>1. req[d].job # j
      BY <1>3, <2>3 DEF AckCommit, CommitQueued, At, Active, Unowned, Owns, ClaimSteps
    <3> QED
      BY <2>3, <3>1 DEF AckCommit, CommitQueued, Complete, ReleaseLock, LocksTyped, leaseVars
  <2>4. CASE FailClaim(d) \/ FailMove(d)
    BY <1>3, <2>4 DEF FailClaim, FailMove, FailUnowned, ReleaseLock, LocksTyped
  <2>5. CASE FailEnd(d) \/ MoveEnd(d)
    <3>1. req[d].job \in Jobs /\ req[d].job # NoJob /\ Finish(d) /\ ReleaseLock(req[d].job, req[d].token)
      BY <2>5, HasItsJob, JobsAssumption DEF FailEnd, MoveEnd, At
    <3>2. req'[d].job = NoJob
      BY <3>1 DEF Finish, Idle, RequestsTyped
    <3> QED
      BY <2>1, <3>1, <3>2, <1>5
  <2>6. CASE \/ ClaimForMove(d, "moveClaim", "moveQueue")
             \/ ClaimForMove(d, "discardClaim", "discardActiveMove")
    <3>1. CASE req[d].job # j
      BY <2>6, <3>1 DEF ClaimForMove, DropLease, LocksTyped, leaseVars
    <3>2. CASE req[d].job = j
      <4>1. \/ At(d, "moveClaim") /\ Goto(d, "moveQueue")
            \/ At(d, "discardClaim") /\ Goto(d, "discardActiveMove")
        BY <1>4, <2>6, <3>2 DEF ClaimForMove
      <4>2. ClaimedByMove(j)
        BY <3>2, <4>1, GotoMoves DEF ClaimedByMove, At
      <4> QED
        BY <1>1, <4>2
    <3> QED
      BY <3>1, <3>2
  <2>7. CASE \/ RequeueAborted(d) \/ UnlinkAborted(d) \/ Finalize(d) \/ AckClaim(d) \/ AckRelease(d)
             \/ CompleteQueued(d, "completeFirst", "commitFirst")
             \/ CompleteQueued(d, "completeAgain", "commitAgain")
             \/ RemoveForDiscard(d) \/ MoveToQueue(d) \/ DelayInQueue(d)
             \/ MoveToDlq(d, "discardActiveMove") \/ MoveToDlq(d, "discardQueuedMove")
    BY <2>7
    DEF RequeueAborted, UnlinkAborted, Finalize, AckClaim, AckRelease, CompleteQueued,
        RemoveForDiscard, MoveToQueue, DelayInQueue, MoveToDlq, leaseVars
  <2> QED
    BY <1>6, <2>2, <2>3, <2>4, <2>5, <2>6, <2>7 DEF RequestStep
<1>7. ASSUME NEW d \in Clients, ClientStep(d)
      PROVE  jobLocks'[j].token = jobLocks[j].token
  <2>1. CASE Fail(d)
    <3>1. CASE jobLocks' = jobLocks
      BY <3>1
    <3>2. CASE jobLocks' # jobLocks
      <4>1. jobIndex[req[d].job] # "processing" /\ ReleaseLock(req[d].job, req[d].token)
        BY <2>1, <3>2 DEF Fail
      <4> QED
        BY <1>3, <4>1 DEF ReleaseLock, LocksTyped
    <3> QED
      BY <3>1, <3>2
  <2>2. CASE Heartbeat(d)
    BY <1>3, <2>2 DEF Heartbeat, DropLease, LocksTyped, Leases
  <2>3. CASE ~Fail(d) /\ ~Heartbeat(d)
    BY <1>7, <2>3
    DEF ClientStep, Dequeue, Ack, WorkerDies, Disconnect, MoveActive, DiscardActive, DiscardQueued,
        DelayQueued, Move, leaseVars
  <2> QED
    BY <2>1, <2>2, <2>3
<1>8. CASE Sweep
  <2>1. ASSUME CheckExpiredLocks
        PROVE  jobLocks'[j].token = jobLocks[j].token
    BY <1>3, <2>1 DEF CheckExpiredLocks, Expired
  <2>2. ASSUME NEW x \in lapsed, HandleExpired(x)
        PROVE  jobLocks'[j].token = jobLocks[j].token
    BY <1>3, <2>2 DEF HandleExpired, DropLease, LocksTyped
  <2>3. ASSUME NEW r \in releasing, ReleaseJob(r)
        PROVE  jobLocks'[j].token = jobLocks[j].token
    <3>1. r.job # j
      BY <1>1, <2>3 DEF ReleaseJob, ReleasedByClose
    <3> QED
      BY <2>3, <3>1 DEF ReleaseJob, DropLease, LocksTyped
  <2>4. CASE CheckStalledJobs \/ \E v \in verdicts : HandleStalled(v)
    BY <2>4 DEF CheckStalledJobs, HandleStalled, leaseVars
  <2> QED
    BY <1>8, <2>1, <2>2, <2>3, <2>4 DEF Sweep
<1>9. CASE UNCHANGED vars \/ \E k \in Jobs : Push(k) \/ HeartbeatAges(k) \/ LeaseAges(k)
  BY <1>9 DEF vars, Push, HeartbeatAges, LeaseAges, leaseVars, LocksTyped, Leases
<1> QED
  BY <1>6, <1>7, <1>8, <1>9 DEF Next

\* An unexpired lease of a delivery that goes on is dropped only by the end of a
\* call without a token, by a move that claims the job, and by the close of a
\* connection with which the job is registered: late outcomes and the sweeps of
\* stalled jobs and expired leases leave it alone.
THEOREM DeliveryKeepsLease ==
    ASSUME "abort" \notin Hazards
    PROVE  Spec => CurrentKeepsLease
<1>1. Spec => []TokensTold
  <2>1. Init => TokensTold
    BY TokenIsNone DEF Init, TokensTold, Idle, NoLease
  <2>2. Typed /\ TokensTold /\ [Next]_vars => TokensTold'
    BY TokensStay
  <2>3. Spec => []Typed
    BY TypedInit, TypedNext, PTL DEF Spec
  <2> QED
    BY <2>1, <2>2, <2>3, PTL DEF Spec
<1>2. IInv /\ TokensTold /\ [Next]_vars
          => [\A c \in Clients :
                 LET j == req[c].job IN
                 HoldsLease(c) /\ jobLocks'[j].token # req[c].token
                     => TokenlessCallEnds(j) \/ ClaimedByMove(j) \/ ReleasedByClose(j)]_vars
  BY LeaseStays
<1> QED
  BY <1>1, <1>2, Custody, PTL DEF Spec, CurrentKeepsLease
=============================================================================
