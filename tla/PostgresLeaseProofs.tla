------------------------ MODULE PostgresLeaseProofs ------------------------
(***************************************************************************)
(* Proofs about PostgresLease, for any finite sets of jobs, processes and  *)
(* connections, any limit and budget, and any of the hazards: each         *)
(* delivery ends once, no token of an ended delivery is ever good again,   *)
(* the runs lost are counted, the limit holds however many brokers claim,  *)
(* a claim takes waiting jobs, only a registered session gets leases, a    *)
(* paused queue delivers nothing, a closed broker holds nothing, and a     *)
(* batch is acknowledged whole.                                            *)
(*                                                                         *)
(* The invariant has two halves.  One speaks of a job alone: its row, the  *)
(* tokens issued for it and how its deliveries have ended.  Any step does  *)
(* one of four things to a job (LeaseStep), so what is said of a job is    *)
(* shown to be kept by these four and not by the twenty actions.  The      *)
(* other half says what the locks of an open transaction stand for: the    *)
(* rows it has taken are still waiting, the session it shares is still     *)
(* registered, the queue it has locked is not paused and has room.         *)
(***************************************************************************)
EXTENDS PostgresLease, FiniteSetTheorems, TLAPS

-----------------------------------------------------------------------------
(***************************************************************************)
(* The invariant.                                                          *)
(***************************************************************************)

\* The row carries the token of the last delivery as long as that has not
\* ended, and every delivery before it has ended once.
Accounted(j) ==
    /\ row[j].token \in {0, issued[j]}
    /\ row[j].state = "active" <=> row[j].token # 0
    /\ \A t \in 1 .. MaxTokens :
          /\ ends[j][t] = {} <=> t > issued[j] \/ t = row[j].token
          /\ \A a, b \in ends[j][t] : a = b

\* The runs that were lost are counted, the expired ones twice over.
Stalled(j) == {t \in 1 .. MaxTokens : "expired" \in ends[j][t]}
Charged(j) ==
    /\ Cardinality(Lost(j)) = row[j].attempts
    /\ Cardinality(Stalled(j)) = row[j].stalls
    /\ row[j].state \in {"waiting", "active"} =>
          row[j].attempts < MaxAttempts /\ (MaxStalls > 0 => row[j].stalls < MaxStalls)

\* The rows that a claim has locked wait for it to commit.
RowsAreReserved ==
    \A c \in Connections : tx[c].op = "claim" =>
        /\ tx[c].at # "commit" => tx[c].taken = {}
        /\ \A j \in tx[c].taken : row[j].state = "waiting" /\ issued[j] < MaxTokens
        /\ \A d \in Connections \ {c} : tx[d].op = "claim" => tx[c].taken \cap tx[d].taken = {}

\* A transaction that shares the row of its session has found it there.
SessionsStay ==
    \A c \in Connections :
        tx[c].op \in {"claim", "renew"} /\ tx[c].at # "again" => Registered(tx[c].proc)

\* Whoever has locked the queue has seen it unpaused.
PauseWaits == \A c \in Connections : LocksQueue(c) => ~paused

\* Transactions belong to processes that serve, and their time has passed.
TransactionsServed ==
    \A c \in Connections :
        /\ ~Idle(c) => Serves(tx[c].proc) /\ tx[c].now <= clock
        /\ tx[c].op = "renew" => May("renew")

LiveJobs(now) == {j \in Jobs : Live(j, now)}

\* With a limit, whoever has locked the queue has it alone, and has counted.
RoomIsKept ==
    Limit # NoLimit /\ ~May("renew") =>
        /\ Cardinality(LiveJobs(clock)) <= Limit
        /\ \A c \in Connections : LocksQueue(c) =>
                  /\ \A d \in Connections : LocksQueue(d) => d = c
                  /\ tx[c].exclusive
                  /\ Cardinality(LiveJobs(tx[c].now)) + tx[c].capacity <= Limit
                  /\ Cardinality(tx[c].taken) <= tx[c].capacity

Accounts == \A j \in Jobs : Accounted(j) /\ Charged(j)

IInv ==
    /\ TypeOK
    /\ Accounts
    /\ RowsAreReserved
    /\ SessionsStay
    /\ PauseWaits
    /\ TransactionsServed
    /\ ClosedHoldsNothing
    /\ RoomIsKept

-----------------------------------------------------------------------------
(***************************************************************************)
(* The setting, and transactions by what they do.                          *)
(***************************************************************************)

LEMMA SettingTyped ==
    ASSUME setting \in Settings
    PROVE  /\ setting.jobs \subseteq Jobs
           /\ Limit \in Nat \cup {NoLimit}
           /\ MaxStalls \in Nat /\ MaxBatch \in Nat /\ MaxClock \in Nat /\ MaxTokens \in Nat
  BY SettingsAssumption DEF Limit, MaxStalls, MaxBatch, MaxClock, MaxTokens

ClaimTx == [op : {"claim"}, at : {"again", "queue", "select", "commit"}, proc : Processes,
            now : Times, count : 1 .. MaxBatch, capacity : 0 .. MaxBatch,
            exclusive : BOOLEAN, taken : SUBSET Jobs]
RenewTx == [op : {"renew"}, at : {"row"}, proc : Processes, now : Times, job : Jobs,
            token : 1 .. MaxTokens]
BatchTx == [op : {"batch"}, at : {"rows"}, proc : Processes, now : Times,
            items : SUBSET LeaseInfo]
RecoverTx == [op : {"recover"}, at : {"rows"}, proc : Processes, now : Times,
              candidates : SUBSET Jobs]

LEMMA TransactionKinds ==
    Transaction = {NoTx} \cup ClaimTx \cup RenewTx \cup BatchTx \cup RecoverTx
  BY DEF Transaction, ClaimTx, RenewTx, BatchTx, RecoverTx

LEMMA KindOfOp ==
    ASSUME NEW x \in Transaction
    PROVE  /\ x.op = "claim" => x \in ClaimTx
           /\ x.op = "renew" => x \in RenewTx
           /\ x.op = "batch" => x \in BatchTx
           /\ x.op = "recover" => x \in RecoverTx
           /\ x # NoTx => /\ x.op \in {"claim", "renew", "batch", "recover"}
                          /\ x.proc \in Processes /\ x.now \in Times
  BY TransactionKinds DEF ClaimTx, RenewTx, BatchTx, RecoverTx, NoTx

-----------------------------------------------------------------------------
(***************************************************************************)
(* What a step does to a job.                                              *)
(***************************************************************************)

Kept(j) == row'[j] = row[j] /\ issued'[j] = issued[j] /\ ends'[j] = ends[j]

\* A lease is given to a process that may have it.
Entitled(p, now) ==
    p \in Processes /\ Serves(p) /\ Registered(p) /\ now \in Times /\ now <= clock

\* The row with a new lease, and with its lease renewed.
Leased(r, t, now, p) ==
    [r EXCEPT !.state = "active", !.token = t, !.until = now + Lease, !.session = p,
              !.renewals = 0]
Extended(r, now, p) == [r EXCEPT !.until = now + Lease, !.session = p, !.renewals = 1]
Ending(e, t, how) == [e EXCEPT ![t] = @ \cup {how}]

Claimed(j) ==
    \E p, now :
        /\ Entitled(p, now) /\ ~paused
        /\ row[j].state = "waiting" /\ issued[j] < MaxTokens
        /\ row'[j] = Leased(row[j], issued[j] + 1, now, p)
        /\ issued'[j] = issued[j] + 1
        /\ ends'[j] = ends[j]

Renewed(j) ==
    \E p, now :
        /\ Entitled(p, now) /\ May("renew")
        /\ row[j].state = "active"
        /\ row'[j] = Extended(row[j], now, p)
        /\ issued'[j] = issued[j]
        /\ ends'[j] = ends[j]

\* The row after a delivery that has ended in one of the four ways.
After(r, how, unrecoverable) ==
    CASE how = "completed" -> Unleased(r, "completed")
      [] how = "failed"    -> Attempted(r, unrecoverable)
      [] how = "expired"   -> Recovered(r)
      [] how = "released"  -> Unleased(r, "waiting")

Ended(j) ==
    \E how \in Outcomes, unrecoverable \in BOOLEAN :
        /\ row[j].state = "active"
        /\ row'[j] = After(row[j], how, unrecoverable)
        /\ issued'[j] = issued[j]
        /\ ends'[j] = Ending(ends[j], row[j].token, how)

\* A job that nobody claims, and any job.
Unclaimed(j) == Kept(j) \/ Renewed(j) \/ Ended(j)
ClaimedBySome(j) ==
    Claimed(j) /\ \E c \in Connections : ClaimCommit(c) /\ j \in tx[c].taken
LeaseStep(j) == Unclaimed(j) \/ ClaimedBySome(j)

\* The tables have the same jobs.
SameJobs ==
    /\ row' = [j \in Jobs |-> row'[j]]
    /\ issued' = [j \in Jobs |-> issued'[j]]
    /\ ends' = [j \in Jobs |-> ends'[j]]

LEMMA MayLease ==
    ASSUME IInv, NEW c \in Connections, tx[c].op \in {"claim", "renew"}, tx[c].at # "again"
    PROVE  Entitled(tx[c].proc, tx[c].now)
<1>1. tx[c] # NoTx
  BY DEF NoTx
<1>2. tx[c].proc \in Processes /\ tx[c].now \in Times
  BY <1>1, KindOfOp DEF IInv, TypeOK
<1> QED
  BY <1>1, <1>2 DEF IInv, SessionsStay, TransactionsServed, Entitled, Idle

LEMMA ClaimCommitLeases ==
    ASSUME IInv, NEW c \in Connections, ClaimCommit(c)
    PROVE  /\ SameJobs
           /\ \A j \in tx[c].taken : ClaimedBySome(j)
           /\ \A j \in Jobs \ tx[c].taken : Kept(j)
<1>1. Entitled(tx[c].proc, tx[c].now) /\ ~paused
  BY MayLease DEF ClaimCommit, IInv, PauseWaits, LocksQueue
<1>2. tx[c].taken \subseteq Jobs
  BY KindOfOp DEF IInv, TypeOK, ClaimCommit, ClaimTx
<1>3. SameJobs
  BY DEF ClaimCommit, SameJobs, IInv, TypeOK
<1>4. ASSUME NEW j \in tx[c].taken
      PROVE  ClaimedBySome(j)
  <2>1. row[j].state = "waiting" /\ issued[j] < MaxTokens
    BY DEF ClaimCommit, IInv, RowsAreReserved
  <2>2. Claimed(j)
    BY <1>1, <1>2, <2>1 DEF ClaimCommit, Claimed, Leased
  <2> QED
    BY <2>2 DEF ClaimedBySome
<1>5. ASSUME NEW j \in Jobs \ tx[c].taken
      PROVE  Kept(j)
  BY DEF ClaimCommit, Kept
<1> QED
  BY <1>3, <1>4, <1>5

LEMMA RenewRowLeases ==
    ASSUME IInv, NEW c \in Connections, RenewRow(c)
    PROVE  SameJobs /\ \A j \in Jobs : Unclaimed(j)
<1>1. tx[c] \in RenewTx
  BY KindOfOp DEF IInv, TypeOK, RenewRow
<1>2. tx[c].job \in Jobs
  BY <1>1 DEF RenewTx
<1>3. Entitled(tx[c].proc, tx[c].now) /\ May("renew")
  BY <1>1, MayLease DEF RenewRow, RenewTx, IInv, TransactionsServed
<1>4. SameJobs
  BY DEF RenewRow, SameJobs, IInv, TypeOK
<1>5. CASE ~ValidToken(tx[c].job, tx[c].token, tx[c].now)
  BY <1>4, <1>5 DEF RenewRow, Unclaimed, Kept
<1>6. CASE ValidToken(tx[c].job, tx[c].token, tx[c].now)
  <2>1. /\ row[tx[c].job].state = "active"
        /\ row' = [row EXCEPT ![tx[c].job] =
                      [@ EXCEPT !.until = tx[c].now + Lease, !.session = tx[c].proc, !.renewals = 1]]
    BY <1>6 DEF RenewRow, ValidToken, Live
  <2>2. Renewed(tx[c].job)
    BY <1>2, <1>3, <2>1 DEF Renewed, Extended, RenewRow, IInv, TypeOK
  <2>3. \A j \in Jobs \ {tx[c].job} : Kept(j)
    BY <2>1 DEF Kept, RenewRow, IInv, TypeOK
  <2> QED
    BY <1>4, <2>2, <2>3 DEF Unclaimed
<1> QED
  BY <1>5, <1>6

\* Outcomes that a worker reports for one lease.
LEMMA OneEnds ==
    ASSUME TypeOK, NEW j \in Jobs, NEW t, NEW how \in Outcomes, NEW unrecoverable \in BOOLEAN,
           ValidToken(j, t, clock),
           row' = [row EXCEPT ![j] = After(@, how, unrecoverable)],
           ends' = End(ends, j, t, how),
           UNCHANGED issued
    PROVE  SameJobs /\ \A k \in Jobs : Unclaimed(k)
<1>1. SameJobs
  BY DEF SameJobs, TypeOK, End
<1>2. Ended(j)
  <2>1. ends'[j] = [ends[j] EXCEPT ![row[j].token] = @ \cup {how}]
    BY DEF TypeOK, End, ValidToken
  <2> QED
    BY <2>1 DEF Ended, Ending, TypeOK, ValidToken, Live
<1>3. \A k \in Jobs \ {j} : Kept(k)
  BY DEF Kept, TypeOK, End
<1> QED
  BY <1>1, <1>2, <1>3 DEF Unclaimed

LEMMA CompleteLeases ==
    ASSUME TypeOK, NEW p \in Processes, NEW h \in held, Complete(p, h)
    PROVE  SameJobs /\ \A j \in Jobs : Unclaimed(j)
<1>1. row' = [row EXCEPT ![h.job] = After(@, "completed", FALSE)]
  BY DEF Complete, After
<1>2. h.job \in Jobs
  BY DEF TypeOK, LeaseInfo
<1> QED
  BY <1>1, <1>2, OneEnds DEF Complete, Outcomes

LEMMA FailJobLeases ==
    ASSUME TypeOK, NEW p \in Processes, NEW h \in held, FailJob(p, h)
    PROVE  SameJobs /\ \A j \in Jobs : Unclaimed(j)
<1>1. PICK unrecoverable \in BOOLEAN : row' = [row EXCEPT ![h.job] = After(@, "failed", unrecoverable)]
  BY DEF FailJob, After
<1>2. h.job \in Jobs
  BY DEF TypeOK, LeaseInfo
<1> QED
  BY <1>1, <1>2, OneEnds DEF FailJob, Outcomes

LEMMA ReleaseClientLeases ==
    ASSUME TypeOK, NEW h \in held, ReleaseClient(h)
    PROVE  SameJobs /\ \A j \in Jobs : Unclaimed(j)
<1>1. row' = [row EXCEPT ![h.job] = After(@, "released", FALSE)]
  BY DEF ReleaseClient, After
<1>2. h.job \in Jobs
  BY DEF TypeOK, LeaseInfo
<1> QED
  BY <1>1, <1>2, OneEnds DEF ReleaseClient, Outcomes

\* Outcomes of many leases at once.
LEMMA BatchRowsLeases ==
    ASSUME TypeOK, NEW c \in Connections, BatchRows(c)
    PROVE  SameJobs /\ \A j \in Jobs : Unclaimed(j)
<1>1. CASE ~Acceptable(tx[c].items, tx[c].now)
  BY <1>1 DEF BatchRows, SameJobs, Unclaimed, Kept, TypeOK
<1>2. CASE Acceptable(tx[c].items, tx[c].now)
  <2> DEFINE applied == {h \in tx[c].items : ValidToken(h.job, h.token, tx[c].now)}
  <2>1. /\ row' = [j \in Jobs |-> IF \E h \in applied : h.job = j
                                  THEN Unleased(row[j], "completed") ELSE row[j]]
        /\ ends' = [j \in Jobs |-> [t \in 1 .. MaxTokens |->
                       IF \E h \in applied : h.job = j /\ h.token = t
                       THEN ends[j][t] \cup {"completed"} ELSE ends[j][t]]]
        /\ issued' = issued
    BY <1>2 DEF BatchRows
  <2>2. SameJobs
    BY <2>1 DEF SameJobs, TypeOK
  <2>3. ASSUME NEW j \in Jobs, NEW h \in applied, h.job = j
        PROVE  Ended(j)
    <3>1. row[j].state = "active" /\ row[j].token = h.token
      BY <2>3 DEF ValidToken, Live
    <3>2. row'[j] = After(row[j], "completed", FALSE)
      BY <2>1, <2>3 DEF After
    <3>3. \A g \in applied : g.job = j => g.token = row[j].token
      BY DEF ValidToken
    <3>4. ends'[j] = [ends[j] EXCEPT ![row[j].token] = @ \cup {"completed"}]
      <4>1. \A t \in 1 .. MaxTokens : (\E g \in applied : g.job = j /\ g.token = t) <=> t = row[j].token
        BY <2>3, <3>1, <3>3
      <4>2. ends'[j] = [t \in 1 .. MaxTokens |->
                          IF t = row[j].token THEN ends[j][t] \cup {"completed"} ELSE ends[j][t]]
        BY <2>1, <4>1
      <4>3. ends[j] \in [1 .. MaxTokens -> SUBSET Outcomes]
        BY DEF TypeOK
      <4> HIDE DEF applied
      <4> QED
        BY <4>2, <4>3
    <3> QED
      BY <2>1, <3>1, <3>2, <3>4 DEF Ended, Ending, Outcomes
  <2>4. ASSUME NEW j \in Jobs, ~ \E h \in applied : h.job = j
        PROVE  Kept(j)
    BY <2>1, <2>4 DEF Kept, TypeOK
  <2> QED
    BY <2>2, <2>3, <2>4 DEF Unclaimed
<1> QED
  BY <1>1, <1>2

LEMMA RecoverRowsLeases ==
    ASSUME TypeOK, NEW c \in Connections, RecoverRows(c)
    PROVE  SameJobs /\ \A j \in Jobs : Unclaimed(j)
<1> DEFINE rows == StillExpired(tx[c].candidates, tx[c].now)
<1>1. SameJobs
  BY DEF SameJobs, RecoverRows, TypeOK
<1>2. ASSUME NEW j \in Jobs, j \in rows
      PROVE  Ended(j)
  <2>1. row'[j] = After(row[j], "expired", FALSE)
    BY <1>2 DEF RecoverRows, After
  <2> QED
    BY <1>2, <2>1 DEF RecoverRows, StillExpired, Expired, Ended, Ending, Outcomes
<1>3. ASSUME NEW j \in Jobs, j \notin rows
      PROVE  Kept(j)
  BY <1>3 DEF RecoverRows, Kept
<1> QED
  BY <1>1, <1>2, <1>3 DEF Unclaimed

LEMMA CloseReleaseLeases ==
    ASSUME TypeOK, NEW p \in Processes, CloseRelease(p)
    PROVE  SameJobs /\ \A j \in Jobs : Unclaimed(j)
<1> DEFINE own == {j \in Jobs : row[j].state = "active" /\ row[j].session = p}
<1>1. SameJobs
  BY DEF SameJobs, CloseRelease, TypeOK
<1>2. ASSUME NEW j \in own
      PROVE  Ended(j)
  <2>1. row'[j] = After(row[j], "released", FALSE)
    BY DEF CloseRelease, After
  <2> QED
    BY <2>1 DEF CloseRelease, Ended, Ending, Outcomes
<1>3. ASSUME NEW j \in Jobs \ own
      PROVE  Kept(j)
  BY DEF CloseRelease, Kept
<1> QED
  BY <1>1, <1>2, <1>3 DEF Unclaimed

LEMMA NoLeasesTouched ==
    ASSUME TypeOK, UNCHANGED leases
    PROVE  SameJobs /\ \A j \in Jobs : Unclaimed(j)
  BY DEF leases, SameJobs, Unclaimed, Kept, TypeOK

LEMMA StepCases ==
    ASSUME [Next]_vars
    PROVE  /\ UNCHANGED setting
           /\ \/ UNCHANGED vars
              \/ Tick \/ SetPaused
              \/ \E c \in Connections : Calls(c) \/ Proceeds(c)
              \/ \E p \in Processes : Sessions(p)
              \/ \E p \in Processes, h \in held : Complete(p, h) \/ FailJob(p, h)
              \/ \E h \in held : ReleaseClient(h)
  BY DEF Next, Steps, vars

LEMMA CallsLeases ==
    ASSUME NEW c \in Connections, Calls(c)
    PROVE  UNCHANGED leases
  BY DEF Calls, ClaimBegin, RenewBegin, BatchBegin, RecoverBegin, Abort

LEMMA StepLeases ==
    ASSUME IInv, [Next]_vars
    PROVE  SameJobs /\ \A j \in Jobs : LeaseStep(j)
<1> USE DEF LeaseStep, IInv
<1>1. CASE UNCHANGED leases
  BY <1>1, NoLeasesTouched
<1>2. CASE Tick \/ SetPaused
  BY <1>1, <1>2 DEF Tick, SetPaused
<1>3. ASSUME NEW c \in Connections, Calls(c) \/ Proceeds(c)
      PROVE  SameJobs /\ \A j \in Jobs : LeaseStep(j)
  <2>1. CASE Calls(c)
    BY <1>1, <2>1, CallsLeases
  <2>2. CASE ClaimAgain(c) \/ ClaimQueue(c) \/ ClaimSelect(c)
    BY <1>1, <2>2 DEF ClaimAgain, ClaimQueue, ClaimSelect
  <2>3. CASE ClaimCommit(c)
    BY <2>3, ClaimCommitLeases DEF Unclaimed
  <2>4. CASE RenewRow(c)
    BY <2>4, RenewRowLeases
  <2>5. CASE BatchRows(c)
    BY <2>5, BatchRowsLeases
  <2>6. CASE RecoverRows(c)
    BY <2>6, RecoverRowsLeases
  <2> QED
    BY <1>3, <2>1, <2>2, <2>3, <2>4, <2>5, <2>6 DEF Proceeds
<1>4. ASSUME NEW p \in Processes, Sessions(p)
      PROVE  SameJobs /\ \A j \in Jobs : LeaseStep(j)
  <2>1. CASE CloseRelease(p)
    BY <2>1, CloseReleaseLeases
  <2>2. CASE ~CloseRelease(p)
    BY <1>1, <1>4, <2>2 DEF Sessions, Register, Heartbeat, PurgeBrokers, Crash, CloseBegin,
       CloseReleaseFails, CloseUnregister
  <2> QED
    BY <2>1, <2>2
<1>5. ASSUME NEW p \in Processes, NEW h \in held, Complete(p, h) \/ FailJob(p, h)
      PROVE  SameJobs /\ \A j \in Jobs : LeaseStep(j)
  BY <1>5, CompleteLeases, FailJobLeases
<1>6. ASSUME NEW h \in held, ReleaseClient(h)
      PROVE  SameJobs /\ \A j \in Jobs : LeaseStep(j)
  BY <1>6, ReleaseClientLeases
<1>7. CASE UNCHANGED vars
  BY <1>1, <1>7 DEF vars, system
<1> QED
  BY <1>2, <1>3, <1>4, <1>5, <1>6, <1>7, StepCases

-----------------------------------------------------------------------------
(***************************************************************************)
(* A job alone.                                                            *)
(***************************************************************************)

\* The part of TypeOK that speaks of a job.
JobTyped(j) ==
    /\ row[j] \in Row
    /\ row[j].state # "active" =>
          row[j].token = 0 /\ row[j].until = 0 /\ row[j].session = NoProcess
    /\ issued[j] \in 0 .. MaxTokens
    /\ ends[j] \in [1 .. MaxTokens -> SUBSET Outcomes]

LEMMA JobsTyped ==
    ASSUME TypeOK, NEW j \in Jobs
    PROVE  JobTyped(j)
  BY DEF TypeOK, JobTyped

LEMMA UnleasedRow ==
    ASSUME setting \in Settings, NEW r \in Row, NEW s \in States
    PROVE  /\ Unleased(r, s) \in Row
           /\ Unleased(r, s).state = s /\ Unleased(r, s).token = 0
           /\ Unleased(r, s).until = 0 /\ Unleased(r, s).session = NoProcess
           /\ Unleased(r, s).attempts = r.attempts /\ Unleased(r, s).stalls = r.stalls
<1>1. MaxAttempts \in Nat /\ MaxClock + Lease \in Nat /\ MaxTokens \in Nat
  BY SettingTyped, PolicyAssumption, TimeAssumption
<1>2. 0 \in 0 .. MaxTokens /\ 0 \in 0 .. MaxClock + Lease
  BY <1>1
<1> QED
  BY <1>2 DEF Unleased, Row

\* What holds of a row that has just lost its lease.
LEMMA AfterEnd ==
    ASSUME NEW j \in Jobs, NEW how \in Outcomes, NEW unrecoverable \in BOOLEAN,
           JobTyped(j), Accounted(j), Charged(j), setting \in Settings, row[j].state = "active"
    PROVE  LET r == After(row[j], how, unrecoverable)
           IN  /\ r \in Row
               /\ r.state # "active" /\ r.token = 0 /\ r.until = 0 /\ r.session = NoProcess
               /\ r.attempts = row[j].attempts + (IF how \in {"failed", "expired"} THEN 1 ELSE 0)
               /\ r.stalls = row[j].stalls + (IF how = "expired" THEN 1 ELSE 0)
               /\ r.state \in {"waiting", "active"} =>
                     r.attempts < MaxAttempts /\ (MaxStalls > 0 => r.stalls < MaxStalls)
<1>1. row[j] \in [state : States, token : 0 .. MaxTokens, until : 0 .. MaxClock + Lease,
                  session : Processes \cup {NoProcess}, attempts : 0 .. MaxAttempts,
                  stalls : 0 .. MaxAttempts, renewals : 0 .. 1]
  BY DEF JobTyped, Row
<1>2. row[j].attempts < MaxAttempts /\ (MaxStalls > 0 => row[j].stalls < MaxStalls)
  BY DEF Charged
<1>3. row[j].stalls <= row[j].attempts
  <2>1. ends[j] \in [1 .. MaxTokens -> SUBSET Outcomes] /\ MaxTokens \in Nat
    BY SettingTyped DEF JobTyped
  <2>2. IsFiniteSet(Lost(j)) /\ Stalled(j) \in SUBSET Lost(j)
    <3>1. IsFiniteSet(1 .. MaxTokens) /\ Lost(j) \in SUBSET (1 .. MaxTokens)
      BY <2>1, FS_Interval DEF Lost
    <3> QED
      BY <3>1, FS_Subset DEF Lost, Stalled
  <2> QED
    BY <2>2, FS_Subset DEF Charged
<1>4. MaxAttempts \in Nat /\ MaxClock + Lease \in Nat /\ MaxTokens \in Nat /\ MaxStalls \in Nat
  BY SettingTyped, PolicyAssumption, TimeAssumption
<1>5. row[j] \in Row
  BY DEF JobTyped
<1>6. CASE how \in {"completed", "released"}
  <2> DEFINE state == IF how = "completed" THEN "completed" ELSE "waiting"
  <2>1. After(row[j], how, unrecoverable) = Unleased(row[j], state)
    BY <1>6 DEF After
  <2>2. state \in States /\ state # "active"
    BY DEF States
  <2> HIDE DEF state
  <2> QED
    BY <1>1, <1>2, <1>4, <1>5, <1>6, <2>1, <2>2, UnleasedRow
<1>7. CASE how = "failed"
  <2> DEFINE r == [row[j] EXCEPT !.attempts = @ + 1]
             state == IF ~unrecoverable /\ r.attempts < MaxAttempts THEN "waiting" ELSE "failed"
  <2>1. After(row[j], how, unrecoverable) = Unleased(r, state)
    BY <1>7 DEF After, Attempted
  <2>2. r \in Row /\ r.attempts = row[j].attempts + 1 /\ r.stalls = row[j].stalls
    BY <1>1, <1>2, <1>4 DEF Row
  <2>3. state \in States /\ (state \in {"waiting", "active"} => r.attempts < MaxAttempts)
                         /\ state # "active"
    BY DEF States
  <2> HIDE DEF state, r
  <2> QED
    BY <1>1, <1>2, <1>4, <1>7, <2>1, <2>2, <2>3, UnleasedRow
<1>8. CASE how = "expired"
  <2> DEFINE r == [row[j] EXCEPT !.attempts = @ + 1, !.stalls = @ + 1]
             state == IF r.attempts >= MaxAttempts \/ (MaxStalls > 0 /\ r.stalls >= MaxStalls)
                      THEN "failed" ELSE "waiting"
  <2>1. After(row[j], how, unrecoverable) = Unleased(r, state)
    BY <1>8 DEF After, Recovered
  <2>2. r \in Row /\ r.attempts = row[j].attempts + 1 /\ r.stalls = row[j].stalls + 1
    <3>1. /\ row[j].attempts + 1 \in 0 .. MaxAttempts
          /\ row[j].stalls + 1 \in 0 .. MaxAttempts
      BY <1>1, <1>2, <1>3, <1>4
    <3> QED
      BY <1>1, <3>1 DEF Row
  <2>3. state \in States /\ state # "active"
    BY DEF States
  <2>4. state \in {"waiting", "active"} =>
            r.attempts < MaxAttempts /\ (MaxStalls > 0 => r.stalls < MaxStalls)
    BY <1>1, <1>4, <2>2
  <2> HIDE DEF state, r
  <2> QED
    BY <1>1, <1>2, <1>4, <1>8, <2>1, <2>2, <2>3, <2>4, UnleasedRow
<1> QED
  BY <1>6, <1>7, <1>8 DEF Outcomes

LEMMA SettingStays ==
    ASSUME UNCHANGED setting
    PROVE  /\ Limit' = Limit /\ MaxStalls' = MaxStalls /\ MaxBatch' = MaxBatch
           /\ MaxClock' = MaxClock /\ MaxTokens' = MaxTokens
           /\ \A hazard : May(hazard)' = May(hazard)
           /\ Row' = Row /\ LeaseInfo' = LeaseInfo /\ Times' = Times
           /\ Transaction' = Transaction
  BY DEF Limit, MaxStalls, MaxBatch, MaxClock, MaxTokens, May, Row, LeaseInfo, Times, Transaction

LEMMA KeptKeeps ==
    ASSUME NEW j \in Jobs, JobTyped(j), Accounted(j), Charged(j), UNCHANGED setting, Kept(j)
    PROVE  JobTyped(j)' /\ Accounted(j)' /\ Charged(j)'
<1>1. JobTyped(j)'
  BY SettingStays DEF Kept, JobTyped
<1>2. Accounted(j)'
  BY SettingStays DEF Kept, Accounted
<1>3. Lost(j)' = Lost(j) /\ Stalled(j)' = Stalled(j)
  BY SettingStays DEF Kept, Lost, Stalled
<1>4. Charged(j)'
  BY <1>3, SettingStays DEF Kept, Charged
<1> QED
  BY <1>1, <1>2, <1>4

\* A claim or a renewal loses no run.
LEMMA SameEnds ==
    ASSUME NEW j \in Jobs, Charged(j), UNCHANGED setting, ends'[j] = ends[j],
           row'[j].attempts = row[j].attempts, row'[j].stalls = row[j].stalls,
           row[j].state \in {"waiting", "active"}
    PROVE  Charged(j)'
<1>1. Lost(j)' = Lost(j) /\ Stalled(j)' = Stalled(j)
  BY SettingStays DEF Lost, Stalled
<1> QED
  BY <1>1, SettingStays DEF Charged

LEMMA LeasedRow ==
    ASSUME NEW r \in Row, NEW t \in 0 .. MaxTokens, NEW now, now + Lease \in 0 .. MaxClock + Lease,
           NEW p \in Processes
    PROVE  /\ Leased(r, t, now, p) \in Row
           /\ Leased(r, t, now, p).state = "active" /\ Leased(r, t, now, p).token = t
           /\ Leased(r, t, now, p).attempts = r.attempts /\ Leased(r, t, now, p).stalls = r.stalls
           /\ Extended(r, now, p) \in Row
           /\ Extended(r, now, p).state = r.state /\ Extended(r, now, p).token = r.token
           /\ Extended(r, now, p).attempts = r.attempts /\ Extended(r, now, p).stalls = r.stalls
<1> DEFINE u == now + Lease
<1>1. u \in 0 .. MaxClock + Lease /\ 0 \in 0 .. 1 /\ 1 \in 0 .. 1
  OBVIOUS
<1>2. /\ Leased(r, t, now, p) = [r EXCEPT !.state = "active", !.token = t, !.until = u,
                                          !.session = p, !.renewals = 0]
      /\ Extended(r, now, p) = [r EXCEPT !.until = u, !.session = p, !.renewals = 1]
  BY DEF Leased, Extended
<1> HIDE DEF u
<1>3. [r EXCEPT !.state = "active", !.token = t, !.until = u, !.session = p, !.renewals = 0] \in Row
  BY <1>1 DEF Row, States
<1>4. [r EXCEPT !.until = u, !.session = p, !.renewals = 1] \in Row
  BY <1>1 DEF Row
<1> QED
  BY <1>2, <1>3, <1>4 DEF Row

LEMMA ClaimedKeeps ==
    ASSUME NEW j \in Jobs, setting \in Settings, JobTyped(j), Accounted(j), Charged(j),
           UNCHANGED setting, Claimed(j)
    PROVE  JobTyped(j)' /\ Accounted(j)' /\ Charged(j)'
<1>1. PICK p, now :
         /\ Entitled(p, now) /\ ~paused
         /\ row[j].state = "waiting" /\ issued[j] < MaxTokens
         /\ row'[j] = Leased(row[j], issued[j] + 1, now, p)
         /\ issued'[j] = issued[j] + 1
         /\ ends'[j] = ends[j]
  BY DEF Claimed
<1>2. issued[j] \in Nat /\ issued[j] + 1 \in 0 .. MaxTokens /\ issued[j] + 1 # 0 /\ now + Lease \in 0 .. MaxClock + Lease
  BY <1>1, SettingTyped, TimeAssumption DEF JobTyped, Entitled, Times
<1>3. /\ row'[j] \in Row
      /\ row'[j].state = "active" /\ row'[j].token = issued[j] + 1
      /\ row'[j].attempts = row[j].attempts /\ row'[j].stalls = row[j].stalls
  BY <1>1, <1>2, LeasedRow DEF JobTyped, Entitled
<1>4. JobTyped(j)'
  BY <1>1, <1>2, <1>3, SettingStays DEF JobTyped
<1>5. Accounted(j)'
  <2>1. row[j].token = 0
    BY <1>1 DEF JobTyped
  <2>2. \A t \in 1 .. MaxTokens : t > issued'[j] \/ t = row'[j].token <=> t > issued[j]
    BY <1>1, <1>2, <1>3
  <2>3. row'[j].token \in {0, issued'[j]} /\ (row'[j].state = "active" <=> row'[j].token # 0)
    BY <1>1, <1>2, <1>3
  <2>4. \A t \in 1 .. MaxTokens :
           /\ ends'[j][t] = {} <=> t > issued'[j] \/ t = row'[j].token
           /\ \A a, b \in ends'[j][t] : a = b
    <3>1. \A t \in 1 .. MaxTokens : t # row[j].token
      BY <2>1
    <3> QED
      BY <1>1, <2>2, <3>1 DEF Accounted
  <2>5. MaxTokens' = MaxTokens
    BY SettingStays
  <2> QED
    BY <2>3, <2>4, <2>5 DEF Accounted
<1>6. Charged(j)'
  BY <1>1, <1>3, SameEnds
<1> QED
  BY <1>4, <1>5, <1>6

LEMMA RenewedKeeps ==
    ASSUME NEW j \in Jobs, setting \in Settings, JobTyped(j), Accounted(j), Charged(j),
           UNCHANGED setting, Renewed(j)
    PROVE  JobTyped(j)' /\ Accounted(j)' /\ Charged(j)'
<1>1. PICK p, now :
         /\ Entitled(p, now)
         /\ row[j].state = "active"
         /\ row'[j] = Extended(row[j], now, p)
         /\ issued'[j] = issued[j]
         /\ ends'[j] = ends[j]
  BY DEF Renewed
<1>2. now + Lease \in 0 .. MaxClock + Lease
  BY <1>1, SettingTyped, TimeAssumption DEF Entitled, Times
<1>3. /\ row'[j] \in Row
      /\ row'[j].state = "active" /\ row'[j].token = row[j].token
      /\ row'[j].attempts = row[j].attempts /\ row'[j].stalls = row[j].stalls
  BY <1>1, <1>2, LeasedRow DEF JobTyped, Entitled
<1>4. JobTyped(j)'
  BY <1>1, <1>3, SettingStays DEF JobTyped
<1>5. Accounted(j)'
  BY <1>1, <1>3, SettingStays DEF Accounted
<1>6. Charged(j)'
  BY <1>1, <1>3, SameEnds
<1> QED
  BY <1>4, <1>5, <1>6

LEMMA OneMoreEnd ==
    ASSUME NEW f \in [1 .. MaxTokens -> SUBSET Outcomes], NEW t \in 1 .. MaxTokens, f[t] = {},
           NEW how \in Outcomes
    PROVE  /\ Ending(f, t, how) \in [1 .. MaxTokens -> SUBSET Outcomes]
           /\ Ending(f, t, how)[t] = {how}
           /\ \A u \in 1 .. MaxTokens : u # t => Ending(f, t, how)[u] = f[u]
  BY DEF Ending

LEMMA EndedKeeps ==
    ASSUME NEW j \in Jobs, setting \in Settings, JobTyped(j), Accounted(j), Charged(j),
           UNCHANGED setting, Ended(j)
    PROVE  JobTyped(j)' /\ Accounted(j)' /\ Charged(j)'
<1>1. PICK how \in Outcomes, unrecoverable \in BOOLEAN :
         /\ row[j].state = "active"
         /\ row'[j] = After(row[j], how, unrecoverable)
         /\ issued'[j] = issued[j]
         /\ ends'[j] = Ending(ends[j], row[j].token, how)
  BY DEF Ended
<1> DEFINE t0 == row[j].token
<1>2. t0 \in 1 .. MaxTokens /\ t0 = issued[j] /\ ends[j][t0] = {}
  BY <1>1, SettingTyped DEF Accounted, JobTyped, Row
<1>3. /\ row'[j] \in Row
      /\ row'[j].state # "active" /\ row'[j].token = 0 /\ row'[j].until = 0
      /\ row'[j].session = NoProcess
      /\ row'[j].attempts = row[j].attempts + (IF how \in {"failed", "expired"} THEN 1 ELSE 0)
      /\ row'[j].stalls = row[j].stalls + (IF how = "expired" THEN 1 ELSE 0)
      /\ row'[j].state \in {"waiting", "active"} =>
            row'[j].attempts < MaxAttempts /\ (MaxStalls > 0 => row'[j].stalls < MaxStalls)
  BY <1>1, AfterEnd
<1>4. /\ ends'[j] \in [1 .. MaxTokens -> SUBSET Outcomes]
      /\ ends'[j][t0] = {how}
      /\ \A t \in 1 .. MaxTokens : t # t0 => ends'[j][t] = ends[j][t]
  <2>1. ends[j] \in [1 .. MaxTokens -> SUBSET Outcomes]
    BY DEF JobTyped
  <2> QED
    BY <1>1, <1>2, <2>1, OneMoreEnd
<1>5. JobTyped(j)'
  BY <1>1, <1>3, <1>4, SettingStays DEF JobTyped
<1>6. Accounted(j)'
  <2>1. \A t \in 1 .. MaxTokens : ends'[j][t] = {} <=> t > issued'[j]
    BY <1>1, <1>2, <1>4 DEF Accounted
  <2>2. \A t \in 1 .. MaxTokens : t # row'[j].token
    BY <1>3, SettingTyped
  <2>3. \A t \in 1 .. MaxTokens : \A a, b \in ends'[j][t] : a = b
    BY <1>4 DEF Accounted
  <2> QED
    BY <1>3, <2>1, <2>2, <2>3, SettingStays DEF Accounted
<1>7. Charged(j)'
  <2>1. IsFiniteSet(Lost(j)) /\ IsFiniteSet(Stalled(j))
    <3>1. IsFiniteSet(1 .. MaxTokens)
      BY SettingTyped, FS_Interval
    <3> QED
      BY <3>1, FS_Subset DEF Lost, Stalled
  <2>2. t0 \notin Lost(j) /\ t0 \notin Stalled(j)
    BY <1>2 DEF Lost, Stalled
  <2>3. Lost(j)' = IF how \in {"failed", "expired"} THEN Lost(j) \cup {t0} ELSE Lost(j)
    BY <1>2, <1>4, SettingStays DEF Lost
  <2>4. Stalled(j)' = IF how = "expired" THEN Stalled(j) \cup {t0} ELSE Stalled(j)
    BY <1>2, <1>4, SettingStays DEF Stalled
  <2>5. Cardinality(Lost(j)') = row'[j].attempts
    <3>1. Cardinality(Lost(j) \cup {t0}) = Cardinality(Lost(j)) + 1
      BY <2>1, <2>2, FS_AddElement
    <3>2. Cardinality(Lost(j)) = row[j].attempts /\ row[j].attempts \in Nat
      BY <1>2 DEF Charged, JobTyped, Row
    <3> QED
      BY <1>3, <2>3, <3>1, <3>2
  <2>6. Cardinality(Stalled(j)') = row'[j].stalls
    <3>1. Cardinality(Stalled(j) \cup {t0}) = Cardinality(Stalled(j)) + 1
      BY <2>1, <2>2, FS_AddElement
    <3>2. Cardinality(Stalled(j)) = row[j].stalls /\ row[j].stalls \in Nat
      BY <1>2 DEF Charged, JobTyped, Row
    <3> QED
      BY <1>3, <2>4, <3>1, <3>2
  <2> QED
    BY <1>3, <2>5, <2>6, SettingStays DEF Charged
<1> QED
  BY <1>5, <1>6, <1>7

LEMMA LeaseStepKeeps ==
    ASSUME IInv, UNCHANGED setting, NEW j \in Jobs, LeaseStep(j)
    PROVE  JobTyped(j)' /\ Accounted(j)' /\ Charged(j)'
<1>1. setting \in Settings /\ JobTyped(j) /\ Accounted(j) /\ Charged(j)
  BY JobsTyped DEF IInv, TypeOK, Accounts
<1> QED
  BY <1>1, KeptKeeps, ClaimedKeeps, RenewedKeeps, EndedKeeps
     DEF LeaseStep, Unclaimed, ClaimedBySome

LEMMA StepAccounts ==
    ASSUME IInv, [Next]_vars
    PROVE  /\ Accounts'
           /\ \A j \in Jobs : JobTyped(j)'
           /\ SameJobs
<1>1. UNCHANGED setting
  BY StepCases
<1> QED
  BY <1>1, StepLeases, LeaseStepKeeps DEF Accounts

-----------------------------------------------------------------------------
(***************************************************************************)
(* Types.                                                                  *)
(***************************************************************************)

TransactionsTyped == DOMAIN tx = Connections /\ \A c \in Connections : tx[c] \in Transaction
BrokersTyped ==
    /\ registry \in [BrokerIds -> [session : Processes \cup {NoProcess}, beat : Times]]
    /\ process \in [Processes -> Serving \cup
                      {"new", "closing", "released", "gone", "leaving", "left", "dead"}]
OthersTyped == clock \in Times /\ paused \in BOOLEAN /\ held \subseteq LeaseInfo

LEMMA TxSet ==
    ASSUME TypeOK, UNCHANGED setting, NEW c \in Connections, NEW x \in Transaction,
           tx' = [tx EXCEPT ![c] = x]
    PROVE  TransactionsTyped'
  BY SettingStays DEF TypeOK, TransactionsTyped

LEMMA TxDone ==
    ASSUME TypeOK, UNCHANGED setting, NEW c \in Connections, Done(c)
    PROVE  TransactionsTyped'
  BY TxSet, TransactionKinds DEF Done

LEMMA TxKept ==
    ASSUME TypeOK, UNCHANGED setting, UNCHANGED tx
    PROVE  TransactionsTyped'
  BY SettingStays DEF TypeOK, TransactionsTyped

LEMMA CallsTyped ==
    ASSUME TypeOK, UNCHANGED setting, NEW c \in Connections, Calls(c)
    PROVE  TransactionsTyped'
<1>1. clock \in Times
  BY DEF TypeOK
<1>2. ASSUME NEW p \in Processes, NEW n \in 1 .. MaxBatch, ClaimBegin(c, p, n)
      PROVE  TransactionsTyped'
  <2> DEFINE x == [op |-> "claim", at |-> "queue", proc |-> p, now |-> clock,
                   count |-> n, capacity |-> 0, exclusive |-> FALSE, taken |-> {}]
  <2>1. 0 \in 0 .. MaxBatch
    BY SettingTyped DEF TypeOK
  <2>2. x \in ClaimTx
    BY <1>1, <2>1 DEF ClaimTx
  <2> QED
    BY <1>2, <2>2, TxSet, TransactionKinds DEF ClaimBegin
<1>3. ASSUME NEW p \in Processes, NEW h \in held, RenewBegin(c, p, h)
      PROVE  TransactionsTyped'
  <2>1. h.job \in Jobs /\ h.token \in 1 .. MaxTokens
    BY DEF TypeOK, LeaseInfo
  <2>2. [op |-> "renew", at |-> "row", proc |-> p, now |-> clock, job |-> h.job,
         token |-> h.token] \in RenewTx
    BY <1>1, <2>1 DEF RenewTx
  <2> QED
    BY <1>3, <2>2, TxSet, TransactionKinds DEF RenewBegin
<1>4. ASSUME NEW p \in Processes, NEW items \in Batches, BatchBegin(c, p, items)
      PROVE  TransactionsTyped'
  <2>1. items \subseteq LeaseInfo
    BY DEF TypeOK, Batches
  <2>2. [op |-> "batch", at |-> "rows", proc |-> p, now |-> clock, items |-> items] \in BatchTx
    BY <1>1, <2>1 DEF BatchTx
  <2> QED
    BY <1>4, <2>2, TxSet, TransactionKinds DEF BatchBegin
<1>5. ASSUME NEW p \in Processes, RecoverBegin(c, p)
      PROVE  TransactionsTyped'
  <2>1. [op |-> "recover", at |-> "rows", proc |-> p, now |-> clock,
         candidates |-> {j \in Jobs : Expired(j, clock)}] \in RecoverTx
    BY <1>1 DEF RecoverTx
  <2> QED
    BY <1>5, <2>1, TxSet, TransactionKinds DEF RecoverBegin
<1> QED
  BY <1>2, <1>3, <1>4, <1>5, TxDone DEF Calls, Abort

LEMMA CapacityTyped ==
    ASSUME TypeOK, NEW n \in 1 .. MaxBatch, NEW now
    PROVE  Capacity(n, now) \in 0 .. MaxBatch
<1>1. ActiveCount(now) \in Nat
  <2>1. IsFiniteSet({j \in Jobs : Live(j, now)})
    BY FiniteAssumption, FS_Subset
  <2> QED
    BY <2>1, FS_CardinalityType DEF ActiveCount
<1>2. Limit \in Nat \cup {NoLimit} /\ MaxBatch \in Nat
  BY SettingTyped DEF TypeOK
<1> QED
  BY <1>1, <1>2 DEF Capacity

LEMMA ProceedsTyped ==
    ASSUME TypeOK, UNCHANGED setting, NEW c \in Connections, Proceeds(c)
    PROVE  TransactionsTyped'
<1>1. tx[c].op = "claim" => tx[c] \in ClaimTx
  BY KindOfOp DEF TypeOK
<1>2. CASE ClaimAgain(c)
  <2>1. clock \in Times
    BY DEF TypeOK
  <2>2. tx[c] \in ClaimTx
    BY <1>1, <1>2 DEF ClaimAgain
  <2>3. [[tx[c] EXCEPT !.at = "queue"] EXCEPT !.now = clock] \in ClaimTx
    BY <2>1, <2>2 DEF ClaimTx
  <2>4. CASE tx' = [tx EXCEPT ![c] = [[tx[c] EXCEPT !.at = "queue"] EXCEPT !.now = clock]]
    BY <2>3, <2>4, TxSet, TransactionKinds
  <2> QED
    BY <1>2, <2>4, TxDone DEF ClaimAgain, TypeOK
<1>3. CASE ClaimQueue(c)
  <2>1. tx[c] \in ClaimTx
    BY <1>1, <1>3 DEF ClaimQueue
  <2>2. Capacity(tx[c].count, tx[c].now) \in 0 .. MaxBatch
    BY <2>1, CapacityTyped DEF ClaimTx
  <2>3. /\ [[tx[c] EXCEPT !.at = "again"] EXCEPT !.exclusive = TRUE] \in ClaimTx
        /\ [[tx[c] EXCEPT !.at = "select"] EXCEPT
              !.capacity = Capacity(tx[c].count, tx[c].now)] \in ClaimTx
    BY <2>1, <2>2 DEF ClaimTx
  <2>4. \/ Done(c)
        \/ tx' = [tx EXCEPT ![c] = [[tx[c] EXCEPT !.at = "again"] EXCEPT !.exclusive = TRUE]]
        \/ tx' = [tx EXCEPT ![c] = [[tx[c] EXCEPT !.at = "select"] EXCEPT
                                      !.capacity = Capacity(tx[c].count, tx[c].now)]]
    BY <1>3 DEF ClaimQueue, TypeOK
  <2> QED
    BY <2>3, <2>4, TxSet, TxDone, TransactionKinds
<1>4. CASE ClaimSelect(c)
  <2>1. tx[c] \in ClaimTx
    BY <1>1, <1>4 DEF ClaimSelect
  <2>2. Claimable \subseteq Jobs
    BY SettingTyped DEF Claimable, TypeOK
  <2>3. ASSUME NEW S \in SUBSET Claimable,
               tx' = [tx EXCEPT ![c].at = "commit", ![c].taken = S]
        PROVE  TransactionsTyped'
    <3>1. [[tx[c] EXCEPT !.at = "commit"] EXCEPT !.taken = S] \in ClaimTx
      BY <2>1, <2>2 DEF ClaimTx
    <3>2. tx' = [tx EXCEPT ![c] = [[tx[c] EXCEPT !.at = "commit"] EXCEPT !.taken = S]]
      BY <2>3 DEF TypeOK
    <3> QED
      BY <3>1, <3>2, TxSet, TransactionKinds
  <2> QED
    BY <1>4, <2>3, TxDone DEF ClaimSelect
<1>5. CASE ClaimCommit(c) \/ RenewRow(c) \/ BatchRows(c) \/ RecoverRows(c)
  BY <1>5, TxDone DEF ClaimCommit, RenewRow, BatchRows, RecoverRows
<1> QED
  BY <1>2, <1>3, <1>4, <1>5 DEF Proceeds

LEMMA ReadingsTyped ==
    ASSUME TypeOK
    PROVE  Readings \subseteq Times
  BY SettingTyped DEF TypeOK, Times, Readings

LEMMA SessionsTyped ==
    ASSUME TypeOK, UNCHANGED setting, NEW p \in Processes, Sessions(p)
    PROVE  TransactionsTyped' /\ BrokersTyped'
<1>1. IdOf[p] \in BrokerIds /\ clock \in Times /\ 0 \in Times
  BY IdAssumption, SettingTyped DEF TypeOK, Times
<1>2. Times' = Times
  BY SettingStays
<1>3. TransactionsTyped'
  <2>1. CASE Crash(p)
    BY <2>1, SettingStays, TransactionKinds DEF Crash, TypeOK, TransactionsTyped
  <2>2. CASE ~Crash(p)
    BY <2>2, TxKept DEF Sessions, Register, Heartbeat, PurgeBrokers, CloseBegin, CloseRelease,
       CloseReleaseFails, CloseUnregister
  <2> QED
    BY <2>1, <2>2
<1>4. CASE Register(p)
  <2>1. PICK now \in Readings :
           registry' = [registry EXCEPT ![IdOf[p]] = [session |-> p, beat |-> now]]
    BY <1>4 DEF Register
  <2>2. [session |-> p, beat |-> now] \in [session : Processes \cup {NoProcess}, beat : Times]
    BY ReadingsTyped
  <2> QED
    BY <1>1, <1>2, <1>3, <1>4, <2>1, <2>2 DEF Register, TypeOK, BrokersTyped, Serving
<1>5. CASE Heartbeat(p)
  <2>1. CASE Registered(p)
    <3>1. PICK now \in Readings : registry' = [registry EXCEPT ![IdOf[p]].beat = now]
      BY <1>5, <2>1 DEF Heartbeat
    <3>2. now \in Times /\ process' = process
      BY <1>5, <2>1, ReadingsTyped DEF Heartbeat
    <3> QED
      BY <1>1, <1>2, <1>3, <3>1, <3>2 DEF TypeOK, BrokersTyped
  <2>2. CASE ~Registered(p)
    BY <1>2, <1>3, <1>5, <2>2 DEF Heartbeat, TypeOK, BrokersTyped, Serving
  <2> QED
    BY <2>1, <2>2
<1>6. CASE PurgeBrokers(p)
  BY <1>1, <1>2, <1>3, <1>6 DEF PurgeBrokers, TypeOK, BrokersTyped, NoBroker
<1>7. CASE Crash(p) \/ CloseBegin(p) \/ CloseRelease(p) \/ CloseReleaseFails(p)
  BY <1>2, <1>3, <1>7 DEF Crash, CloseBegin, CloseRelease, CloseReleaseFails, TypeOK, BrokersTyped
<1>8. CASE CloseUnregister(p)
  BY <1>1, <1>2, <1>3, <1>8 DEF CloseUnregister, TypeOK, BrokersTyped, NoBroker
<1> QED
  BY <1>4, <1>5, <1>6, <1>7, <1>8 DEF Sessions

LEMMA BrokersKept ==
    ASSUME TypeOK, UNCHANGED setting, UNCHANGED brokers
    PROVE  BrokersTyped'
  BY SettingStays DEF TypeOK, BrokersTyped, brokers

LEMMA OthersKept ==
    ASSUME TypeOK, UNCHANGED setting, UNCHANGED <<clock, paused, held>>
    PROVE  OthersTyped'
  BY SettingStays DEF TypeOK, OthersTyped

LEMMA ClaimCommitTyped ==
    ASSUME IInv, UNCHANGED setting, NEW c \in Connections, ClaimCommit(c)
    PROVE  OthersTyped'
<1> DEFINE claims == {[job |-> j, token |-> issued[j] + 1, via |-> tx[c].proc] : j \in tx[c].taken}
<1>1. tx[c] \in ClaimTx
  BY KindOfOp DEF IInv, TypeOK, ClaimCommit
<1>2. claims \subseteq LeaseInfo
  <2>1. ASSUME NEW j \in tx[c].taken
        PROVE  [job |-> j, token |-> issued[j] + 1, via |-> tx[c].proc] \in LeaseInfo
    <3>1. j \in Jobs /\ tx[c].proc \in Processes
      BY <1>1 DEF ClaimTx
    <3>2. issued[j] + 1 \in 1 .. MaxTokens
      <4>1. issued[j] < MaxTokens /\ issued[j] \in 0 .. MaxTokens
        BY <3>1 DEF IInv, TypeOK, RowsAreReserved, ClaimCommit
      <4> QED
        BY <4>1, SettingTyped DEF IInv, TypeOK
    <3> QED
      BY <3>1, <3>2 DEF LeaseInfo
  <2> QED
    BY <2>1
<1>3. held' \subseteq LeaseInfo
  BY <1>2 DEF ClaimCommit, IInv, TypeOK
<1> QED
  BY <1>3, SettingStays DEF ClaimCommit, IInv, TypeOK, OthersTyped

LEMMA StepTyped ==
    ASSUME IInv, [Next]_vars
    PROVE  TypeOK'
<1>1. UNCHANGED setting /\ TypeOK
  BY StepCases DEF IInv
<1>2. TransactionsTyped' /\ BrokersTyped' /\ OthersTyped'
  <2>1. CASE UNCHANGED vars
    BY <1>1, <2>1, TxKept, BrokersKept, OthersKept DEF vars, system, brokers
  <2>2. CASE Tick
    <3>1. clock' \in Times
      BY <1>1, <2>2, SettingTyped DEF Tick, TypeOK, Times
    <3> QED
      BY <1>1, <2>2, <3>1, TxKept, BrokersKept, SettingStays DEF Tick, OthersTyped, TypeOK
  <2>3. CASE SetPaused
    BY <1>1, <2>3, TxKept, BrokersKept, SettingStays DEF SetPaused, OthersTyped, TypeOK
  <2>4. ASSUME NEW c \in Connections, Calls(c)
        PROVE  TransactionsTyped' /\ BrokersTyped' /\ OthersTyped'
    <3>1. UNCHANGED <<brokers, clock, paused, held>>
      BY <2>4 DEF Calls, ClaimBegin, RenewBegin, BatchBegin, RecoverBegin, Abort
    <3> QED
      BY <1>1, <2>4, <3>1, CallsTyped, BrokersKept, OthersKept
  <2>5. ASSUME NEW c \in Connections, Proceeds(c)
        PROVE  TransactionsTyped' /\ BrokersTyped' /\ OthersTyped'
    <3>1. UNCHANGED brokers
      BY <2>5 DEF Proceeds, ClaimAgain, ClaimQueue, ClaimSelect, ClaimCommit, RenewRow, BatchRows,
         RecoverRows
    <3>2. CASE ClaimCommit(c)
      BY <1>1, <2>5, <3>1, <3>2, ProceedsTyped, BrokersKept, ClaimCommitTyped
    <3>3. CASE ~ClaimCommit(c)
      <4>1. UNCHANGED <<clock, paused, held>>
        BY <2>5, <3>3 DEF Proceeds, ClaimAgain, ClaimQueue, ClaimSelect, RenewRow, BatchRows,
           RecoverRows
      <4> QED
        BY <1>1, <2>5, <3>1, <4>1, ProceedsTyped, BrokersKept, OthersKept
    <3> QED
      BY <3>2, <3>3
  <2>6. ASSUME NEW p \in Processes, Sessions(p)
        PROVE  TransactionsTyped' /\ BrokersTyped' /\ OthersTyped'
    <3>1. UNCHANGED <<clock, paused, held>>
      BY <2>6 DEF Sessions, Register, Heartbeat, PurgeBrokers, Crash, CloseBegin, CloseRelease,
         CloseReleaseFails, CloseUnregister
    <3> QED
      BY <1>1, <2>6, <3>1, SessionsTyped, OthersKept
  <2>7. ASSUME NEW h \in held, ReleaseClient(h) \/ \E p \in Processes : Complete(p, h) \/ FailJob(p, h)
        PROVE  TransactionsTyped' /\ BrokersTyped' /\ OthersTyped'
    <3>1. UNCHANGED <<tx, brokers, clock, paused, held>>
      BY <2>7 DEF Complete, FailJob, ReleaseClient
    <3> QED
      BY <1>1, <3>1, TxKept, BrokersKept, OthersKept
  <2> QED
    BY <2>1, <2>2, <2>3, <2>4, <2>5, <2>6, <2>7, StepCases
<1>3. /\ \A j \in Jobs : JobTyped(j)'
      /\ SameJobs
  BY StepAccounts
<1>4. /\ row' \in [Jobs -> Row']
      /\ issued' \in [Jobs -> 0 .. MaxTokens']
      /\ ends' \in [Jobs -> [1 .. MaxTokens' -> SUBSET Outcomes]]
  BY <1>3 DEF SameJobs, JobTyped
<1> QED
  BY <1>1, <1>2, <1>3, <1>4
     DEF TypeOK, TransactionsTyped, BrokersTyped, OthersTyped, JobTyped

-----------------------------------------------------------------------------
(***************************************************************************)
(* What a step does to a transaction, and to what transactions rely on.    *)
(***************************************************************************)

Still(c) == tx'[c] = tx[c]
Over(c) == tx'[c] = NoTx
Alone(c) == \A d \in Connections \ {c} : Still(d)

Opened(c) ==
    /\ Alone(c) /\ UNCHANGED <<clock, leases, brokers, paused>>
    /\ tx'[c].proc \in Processes /\ Serves(tx'[c].proc) /\ tx'[c].now = clock
    /\ tx'[c].op \in {"claim", "renew"} => Registered(tx'[c].proc)
    /\ tx'[c].op = "claim" => tx'[c].at = "queue" /\ ~tx'[c].exclusive /\ tx'[c].taken = {}
    /\ tx'[c].op = "renew" => May("renew")

TxStep(c) ==
    Still(c) \/ Over(c) \/ Opened(c) \/ ClaimAgain(c) \/ ClaimQueue(c) \/ ClaimSelect(c)

LEMMA AloneByExcept ==
    ASSUME TypeOK, NEW c \in Connections, NEW x, tx' = [tx EXCEPT ![c] = x]
    PROVE  Alone(c) /\ tx'[c] = x
  BY DEF TypeOK, Alone, Still

\* A claim that goes on, unless it ends there.
LEMMA ClaimGoesOn ==
    ASSUME TypeOK, NEW c \in Connections, ClaimAgain(c) \/ ClaimQueue(c) \/ ClaimSelect(c), ~Over(c)
    PROVE  /\ Alone(c) /\ UNCHANGED <<clock, leases, brokers, paused>>
           /\ tx[c].op = "claim" /\ tx'[c].op = "claim" /\ tx'[c].proc = tx[c].proc
<1>1. tx[c] \in ClaimTx
  BY KindOfOp DEF ClaimAgain, ClaimQueue, ClaimSelect, TypeOK
<1>2. CASE ClaimAgain(c)
  BY <1>1, <1>2, AloneByExcept DEF ClaimAgain, Done, Over, Alone, Still, TypeOK, ClaimTx
<1>3. CASE ClaimQueue(c)
  BY <1>1, <1>3, AloneByExcept DEF ClaimQueue, Done, Over, Alone, Still, TypeOK, ClaimTx
<1>4. CASE ClaimSelect(c)
  BY <1>1, <1>4, AloneByExcept DEF ClaimSelect, Done, Over, Alone, Still, TypeOK, ClaimTx
<1> QED
  BY <1>2, <1>3, <1>4

LEMMA AgainGoesOn ==
    ASSUME TypeOK, NEW c \in Connections, ClaimAgain(c), ~Over(c)
    PROVE  /\ Registered(tx[c].proc)
           /\ tx[c].at = "again" /\ tx'[c].at = "queue" /\ tx'[c].taken = tx[c].taken
           /\ tx'[c].now = clock
<1>1. tx[c] \in ClaimTx
  BY KindOfOp DEF ClaimAgain, TypeOK
<1> QED
  BY <1>1, AloneByExcept DEF ClaimAgain, Done, Over, TypeOK, ClaimTx

LEMMA QueueGoesOn ==
    ASSUME TypeOK, NEW c \in Connections, ClaimQueue(c), ~Over(c)
    PROVE  /\ tx[c].at = "queue" /\ tx'[c].taken = tx[c].taken /\ tx'[c].now = tx[c].now
           /\ tx'[c].at # "again" =>
                 /\ tx'[c].at = "select" /\ tx'[c].exclusive = tx[c].exclusive
                 /\ tx[c].exclusive \/ Limit = NoLimit
                 /\ QueueFree(tx[c].exclusive) /\ ~paused
                 /\ tx'[c].capacity = Capacity(tx[c].count, tx[c].now) /\ tx'[c].capacity # 0
<1>1. tx[c] \in ClaimTx
  BY KindOfOp DEF ClaimQueue, TypeOK
<1>2. CASE tx' = [tx EXCEPT ![c].at = "again", ![c].exclusive = TRUE]
  BY <1>1, <1>2 DEF ClaimQueue, TypeOK, ClaimTx
<1>3. CASE tx' = [tx EXCEPT ![c].at = "select", ![c].capacity = Capacity(tx[c].count, tx[c].now)]
  BY <1>1, <1>3 DEF ClaimQueue, Done, Over, TypeOK, ClaimTx
<1> QED
  BY <1>2, <1>3, AloneByExcept DEF ClaimQueue, Done, Over

LEMMA SelectGoesOn ==
    ASSUME TypeOK, NEW c \in Connections, ClaimSelect(c), ~Over(c)
    PROVE  /\ tx[c].at = "select" /\ tx'[c].at = "commit"
           /\ tx'[c].now = tx[c].now /\ tx'[c].exclusive = tx[c].exclusive
           /\ tx'[c].capacity = tx[c].capacity
           /\ tx'[c].taken \subseteq Claimable /\ Cardinality(tx'[c].taken) <= tx[c].capacity
<1>1. tx[c] \in ClaimTx
  BY KindOfOp DEF ClaimSelect, TypeOK
<1>2. PICK S \in SUBSET Claimable : /\ Cardinality(S) <= tx[c].capacity
                                   /\ tx' = [tx EXCEPT ![c].at = "commit", ![c].taken = S]
  BY AloneByExcept DEF ClaimSelect, Done, Over
<1> QED
  BY <1>1, <1>2 DEF ClaimSelect, TypeOK, ClaimTx

LEMMA StepTx ==
    ASSUME IInv, [Next]_vars, NEW c \in Connections
    PROVE  TxStep(c)
<1> USE DEF IInv, TxStep
<1>1. CASE UNCHANGED tx
  BY <1>1 DEF Still
<1>2. ASSUME NEW d \in Connections, Done(d)
      PROVE  TxStep(c)
  <2>1. Alone(d) /\ Over(d)
    BY <1>2, AloneByExcept DEF Done, Over
  <2> QED
    BY <2>1 DEF Alone
<1>3. ASSUME NEW d \in Connections, Calls(d)
      PROVE  TxStep(c)
  <2>1. ASSUME Opened(d) PROVE TxStep(c)
    BY <2>1 DEF Opened, Alone
  <2>2. ASSUME NEW p \in Processes, NEW n \in 1 .. MaxBatch, ClaimBegin(d, p, n)
        PROVE  Opened(d)
    <3> DEFINE x == [op |-> "claim", at |-> "queue", proc |-> p, now |-> clock,
                     count |-> n, capacity |-> 0, exclusive |-> FALSE, taken |-> {}]
    <3>1. Alone(d) /\ tx'[d] = x
      BY <2>2, AloneByExcept DEF ClaimBegin
    <3> QED
      BY <2>2, <3>1 DEF ClaimBegin, Opened
  <2>3. ASSUME NEW p \in Processes, NEW h \in held, RenewBegin(d, p, h)
        PROVE  Opened(d)
    <3>1. /\ Alone(d)
          /\ tx'[d] = [op |-> "renew", at |-> "row", proc |-> p, now |-> clock,
                       job |-> h.job, token |-> h.token]
      BY <2>3, AloneByExcept DEF RenewBegin
    <3> QED
      BY <2>3, <3>1 DEF RenewBegin, Opened
  <2>4. ASSUME NEW p \in Processes, NEW items \in Batches, BatchBegin(d, p, items)
        PROVE  Opened(d)
    <3>1. /\ Alone(d)
          /\ tx'[d] = [op |-> "batch", at |-> "rows", proc |-> p, now |-> clock, items |-> items]
      BY <2>4, AloneByExcept DEF BatchBegin
    <3> QED
      BY <2>4, <3>1 DEF BatchBegin, Opened
  <2>5. ASSUME NEW p \in Processes, RecoverBegin(d, p)
        PROVE  Opened(d)
    <3>1. /\ Alone(d)
          /\ tx'[d] = [op |-> "recover", at |-> "rows", proc |-> p, now |-> clock,
                       candidates |-> {j \in Jobs : Expired(j, clock)}]
      BY <2>5, AloneByExcept DEF RecoverBegin
    <3> QED
      BY <2>5, <3>1 DEF RecoverBegin, Opened, Maintains, Serves, Serving
  <2> QED
    BY <1>2, <1>3, <2>1, <2>2, <2>3, <2>4, <2>5 DEF Calls, Abort
<1>4. ASSUME NEW d \in Connections, Proceeds(d)
      PROVE  TxStep(c)
  <2>1. CASE ClaimCommit(d) \/ RenewRow(d) \/ BatchRows(d) \/ RecoverRows(d)
    BY <1>2, <2>1 DEF ClaimCommit, RenewRow, BatchRows, RecoverRows
  <2>2. CASE ClaimAgain(d) \/ ClaimQueue(d) \/ ClaimSelect(d)
    <3>1. CASE d = c
      BY <2>2, <3>1
    <3>2. CASE d # c
      BY <2>2, <3>2 DEF ClaimAgain, ClaimQueue, ClaimSelect, Done, Still, TypeOK
    <3> QED
      BY <3>1, <3>2
  <2> QED
    BY <1>4, <2>1, <2>2 DEF Proceeds
<1>5. ASSUME NEW p \in Processes, Sessions(p)
      PROVE  TxStep(c)
  <2>1. CASE Crash(p)
    BY <2>1 DEF Crash, Still, Over
  <2>2. CASE ~Crash(p)
    BY <1>1, <1>5, <2>2 DEF Sessions, Register, Heartbeat, PurgeBrokers, CloseBegin, CloseRelease,
       CloseReleaseFails, CloseUnregister
  <2> QED
    BY <2>1, <2>2
<1>6. CASE Tick \/ SetPaused \/ UNCHANGED vars
  BY <1>1, <1>6 DEF Tick, SetPaused, vars, system
<1>7. ASSUME NEW h \in held, ReleaseClient(h) \/ \E p \in Processes : Complete(p, h) \/ FailJob(p, h)
      PROVE  TxStep(c)
  BY <1>1, <1>7 DEF Complete, FailJob, ReleaseClient
<1> QED
  BY <1>3, <1>4, <1>5, <1>6, <1>7, StepCases

\* The clock goes on, sessions are replaced where nobody shares their row,
\* the pause waits for whoever has locked the queue, and a process that stops
\* serving has no transaction left.
LEMMA StepFrame ==
    ASSUME IInv, [Next]_vars
    PROVE  /\ clock' \in {clock, clock + 1}
           /\ \A b \in BrokerIds : registry'[b].session = registry[b].session \/ SessionFree(b)
           /\ paused' = paused \/ \A c \in Connections : ~LocksQueue(c)
           /\ \A p \in Processes :
                 Serves(p) => Serves(p)' \/ \A c \in Connections :
                                               ~Idle(c) /\ tx[c].proc = p => Over(c)
           /\ \A p \in Processes : process'[p] \in {"released", "gone"} =>
                 process[p] \in {"released", "gone"} \/ CloseRelease(p)
           /\ UNCHANGED brokers \/ UNCHANGED <<clock, paused>>
<1> USE DEF IInv, TypeOK, Serves
<1>1. CASE UNCHANGED brokers
  <2>1. CASE Tick
    BY <1>1, <2>1 DEF Tick, brokers
  <2>2. CASE SetPaused
    BY <1>1, <2>2 DEF SetPaused, QueueFree, brokers
  <2>3. ASSUME NEW c \in Connections, Calls(c) \/ Proceeds(c)
        PROVE  UNCHANGED <<clock, paused>>
    BY <2>3 DEF Calls, ClaimBegin, RenewBegin, BatchBegin, RecoverBegin, Abort,
       Proceeds, ClaimAgain, ClaimQueue, ClaimSelect, ClaimCommit, RenewRow, BatchRows, RecoverRows
  <2>4. ASSUME NEW p \in Processes, Sessions(p)
        PROVE  UNCHANGED <<clock, paused>>
    BY <2>4 DEF Sessions, Register, Heartbeat, PurgeBrokers, Crash, CloseBegin, CloseRelease,
         CloseReleaseFails, CloseUnregister
  <2>5. ASSUME NEW h \in held, ReleaseClient(h) \/ \E p \in Processes : Complete(p, h) \/ FailJob(p, h)
        PROVE  UNCHANGED <<clock, paused>>
    BY <2>5 DEF Complete, FailJob, ReleaseClient
  <2>6. CASE UNCHANGED vars
    BY <1>1, <2>6 DEF vars, system, brokers
  <2>7. CASE UNCHANGED <<clock, paused>>
    BY <1>1, <2>7 DEF brokers
  <2> QED
    BY <2>1, <2>2, <2>3, <2>4, <2>5, <2>6, <2>7, StepCases
<1>2. ASSUME NEW p \in Processes, Sessions(p)
      PROVE  /\ clock' = clock /\ paused' = paused
             /\ \A b \in BrokerIds : registry'[b].session = registry[b].session \/ SessionFree(b)
             /\ \A q \in Processes :
                  Serves(q) => Serves(q)' \/ \A c \in Connections :
                                                ~Idle(c) /\ tx[c].proc = q => Over(c)
             /\ \A q \in Processes : process'[q] \in {"released", "gone"} =>
                  process[q] \in {"released", "gone"} \/ CloseRelease(q)
  <2>1. CASE Register(p)
    BY <2>1 DEF Register, Serving
  <2>2. CASE Heartbeat(p)
    BY <2>2 DEF Heartbeat, Serving, Maintains
  <2>3. CASE PurgeBrokers(p)
    BY <2>3 DEF PurgeBrokers
  <2>4. CASE Crash(p)
    <3>1. \A c \in Connections : ~Idle(c) /\ tx[c].proc = p => Over(c)
      BY <2>4, KindOfOp DEF Crash, Over, Idle
    <3> QED
      BY <2>4, <3>1 DEF Crash, Serving
  <2>5. CASE CloseBegin(p)
    BY <2>5 DEF CloseBegin, Drained, Serving
  <2>6. CASE CloseRelease(p)
    BY <2>6 DEF CloseRelease, Serving
  <2>7. CASE CloseReleaseFails(p) \/ CloseUnregister(p)
    BY <2>7 DEF CloseReleaseFails, CloseUnregister, Serving
  <2> QED
    BY <1>2, <2>1, <2>2, <2>3, <2>4, <2>5, <2>6, <2>7 DEF Sessions
<1>3. ASSUME NEW c \in Connections, Calls(c) \/ Proceeds(c)
      PROVE  UNCHANGED brokers
  BY <1>3 DEF Calls, ClaimBegin, RenewBegin, BatchBegin, RecoverBegin, Abort,
     Proceeds, ClaimAgain, ClaimQueue, ClaimSelect, ClaimCommit, RenewRow, BatchRows, RecoverRows
<1>4. ASSUME NEW h \in held, ReleaseClient(h) \/ \E p \in Processes : Complete(p, h) \/ FailJob(p, h)
      PROVE  UNCHANGED brokers
  BY <1>4 DEF Complete, FailJob, ReleaseClient
<1>5. CASE Tick \/ SetPaused \/ UNCHANGED vars
  BY <1>1, <1>5 DEF Tick, SetPaused, vars, system, brokers
<1> QED
  BY <1>1, <1>2, <1>3, <1>4, <1>5, StepCases

-----------------------------------------------------------------------------
(***************************************************************************)
(* What the locks stand for.                                               *)
(***************************************************************************)

LEMMA ReservedStep ==
    ASSUME IInv, [Next]_vars
    PROVE  RowsAreReserved'
<1> USE DEF IInv
<1>1. UNCHANGED setting
  BY StepCases
<1>2. SUFFICES ASSUME NEW c \in Connections, tx'[c].op = "claim"
      PROVE  /\ tx'[c].at # "commit" => tx'[c].taken = {}
             /\ \A j \in tx'[c].taken : row'[j].state = "waiting" /\ issued'[j] < MaxTokens
             /\ \A d \in Connections \ {c} :
                   tx'[d].op = "claim" => tx'[c].taken \cap tx'[d].taken = {}
  BY <1>1, SettingStays DEF RowsAreReserved
\* A job that a claim has taken keeps waiting for it.
<1>3. ASSUME NEW e \in Connections, tx[e].op = "claim", tx'[e].op = "claim", NEW j \in tx[e].taken
      PROVE  row'[j].state = "waiting" /\ issued'[j] < MaxTokens
  <2>1. j \in Jobs /\ row[j].state = "waiting" /\ issued[j] < MaxTokens
    BY <1>3, KindOfOp DEF TypeOK, ClaimTx, RowsAreReserved
  <2>2. Kept(j) \/ ClaimedBySome(j)
    BY <2>1, StepLeases DEF LeaseStep, Unclaimed, Renewed, Ended
  <2>3. ~ ClaimedBySome(j)
    <3>1. SUFFICES ASSUME NEW d \in Connections, ClaimCommit(d), j \in tx[d].taken
          PROVE  FALSE
      BY DEF ClaimedBySome
    <3>2. d # e
      <4>1. tx'[d] = NoTx
        BY <3>1 DEF ClaimCommit, Done, TypeOK
      <4> QED
        BY <1>3, <4>1 DEF NoTx
    <3> QED
      BY <1>3, <3>1, <3>2 DEF RowsAreReserved, ClaimCommit
  <2> QED
    BY <2>1, <2>2, <2>3 DEF Kept
<1>4. ASSUME NEW e \in Connections, tx'[e].op = "claim"
      PROVE  \/ tx'[e].taken = {} /\ tx'[e].at # "commit"
             \/ tx[e].op = "claim" /\ tx'[e].taken = tx[e].taken /\ tx'[e].at = tx[e].at
             \/ /\ tx'[e].taken \subseteq Claimable /\ tx'[e].at = "commit"
                /\ Alone(e) /\ UNCHANGED leases
  <2>1. TxStep(e) /\ ~Over(e)
    BY <1>4, StepTx DEF Over, NoTx
  <2>2. CASE ClaimAgain(e) \/ ClaimQueue(e)
    BY <2>1, <2>2, AgainGoesOn, QueueGoesOn DEF RowsAreReserved, ClaimAgain, ClaimQueue
  <2>3. CASE Still(e)
    BY <1>4, <2>3 DEF Still
  <2>4. CASE Opened(e)
    BY <1>4, <2>4 DEF Opened
  <2>5. CASE ClaimSelect(e)
    BY <2>1, <2>5, SelectGoesOn, ClaimGoesOn
  <2> QED
    BY <2>1, <2>2, <2>3, <2>4, <2>5 DEF TxStep
<1>5. tx'[c].at # "commit" => tx'[c].taken = {}
  BY <1>2, <1>4 DEF RowsAreReserved
<1>6. \A j \in tx'[c].taken : row'[j].state = "waiting" /\ issued'[j] < MaxTokens
  <2>1. CASE tx'[c].taken \subseteq Claimable /\ UNCHANGED leases
    BY <2>1 DEF Claimable, leases
  <2> QED
    BY <1>2, <1>3, <1>4, <2>1
\* Nobody takes what another claim has taken.
<1>7. ASSUME NEW d \in Connections \ {c}, tx'[d].op = "claim"
      PROVE  tx'[c].taken \cap tx'[d].taken = {}
  <2>1. ASSUME NEW e \in Connections, NEW f \in Connections \ {e}, Alone(e),
               tx'[e].taken \subseteq Claimable, tx'[f].op = "claim"
        PROVE  tx'[e].taken \cap tx'[f].taken = {}
    <3>1. tx'[f] = tx[f]
      BY <2>1 DEF Alone, Still
    <3>2. tx[f].taken \subseteq LockedRows
      BY <2>1, <3>1 DEF LockedRows
    <3> QED
      BY <2>1, <3>1, <3>2 DEF Claimable
  <2>2. \/ tx'[c].taken = {} \/ tx'[d].taken = {}
        \/ Alone(c) /\ tx'[c].taken \subseteq Claimable
        \/ Alone(d) /\ tx'[d].taken \subseteq Claimable
        \/ /\ tx[c].op = "claim" /\ tx'[c].taken = tx[c].taken
           /\ tx[d].op = "claim" /\ tx'[d].taken = tx[d].taken
    BY <1>2, <1>4, <1>7
  <2> QED
    BY <1>2, <1>7, <2>1, <2>2 DEF RowsAreReserved
<1> QED
  BY <1>5, <1>6, <1>7

LEMMA SessionsStep ==
    ASSUME IInv, [Next]_vars
    PROVE  SessionsStay'
<1> USE DEF IInv
<1>1. SUFFICES ASSUME NEW c \in Connections, tx'[c].op \in {"claim", "renew"}, tx'[c].at # "again"
      PROVE  Registered(tx[c].proc)'
  BY DEF SessionsStay
<1>2. TxStep(c) /\ ~Over(c)
  BY <1>1, StepTx DEF Over, NoTx
<1>3. CASE Still(c)
  <2>1. Registered(tx[c].proc) /\ tx[c].proc \in Processes
    BY <1>1, <1>3, KindOfOp DEF Still, SessionsStay, TypeOK, NoTx
  <2>2. ~ SessionFree(IdOf[tx[c].proc]) /\ IdOf[tx[c].proc] \in BrokerIds
    BY <1>1, <1>3, <2>1, IdAssumption DEF Still, SessionFree, SharesSession
  <2> QED
    BY <1>3, <2>1, <2>2, StepFrame DEF Still, Registered
<1>4. CASE Opened(c)
  BY <1>1, <1>4 DEF Opened, brokers, Registered
<1>5. CASE ClaimAgain(c) \/ ClaimQueue(c) \/ ClaimSelect(c)
  <2>1. Registered(tx[c].proc)
    BY <1>1, <1>2, <1>5, AgainGoesOn DEF ClaimQueue, ClaimSelect, SessionsStay
  <2> QED
    BY <1>2, <1>5, <2>1, ClaimGoesOn DEF brokers, Registered
<1> QED
  BY <1>2, <1>3, <1>4, <1>5 DEF TxStep

LEMMA PauseStep ==
    ASSUME IInv, [Next]_vars
    PROVE  PauseWaits'
<1> USE DEF IInv
<1>1. SUFFICES ASSUME NEW c \in Connections, LocksQueue(c)'
      PROVE  ~paused'
  BY DEF PauseWaits
<1>2. TxStep(c) /\ ~Over(c)
  BY <1>1, StepTx DEF LocksQueue, Over, NoTx
<1>3. CASE Still(c)
  BY <1>1, <1>3, StepFrame DEF Still, LocksQueue, PauseWaits
<1>4. CASE Opened(c) \/ ClaimAgain(c)
  BY <1>1, <1>2, <1>4, AgainGoesOn DEF Opened, LocksQueue
<1>5. CASE ClaimQueue(c)
  BY <1>1, <1>2, <1>5, QueueGoesOn, ClaimGoesOn DEF LocksQueue
<1>6. CASE ClaimSelect(c)
  BY <1>1, <1>2, <1>6, SelectGoesOn, ClaimGoesOn DEF LocksQueue, PauseWaits
<1> QED
  BY <1>2, <1>3, <1>4, <1>5, <1>6 DEF TxStep

LEMMA ServedStep ==
    ASSUME IInv, [Next]_vars
    PROVE  TransactionsServed'
<1> USE DEF IInv
<1>1. SUFFICES ASSUME NEW c \in Connections, ~Over(c)
      PROVE  /\ Serves(tx[c].proc)' /\ tx'[c].now <= clock'
             /\ tx'[c].op = "renew" => May("renew")
  <2>1. May("renew")' = May("renew")
    BY StepCases, SettingStays
  <2>2. \A d \in Connections : Over(d) => Idle(d)' /\ tx'[d].op # "renew"
    BY DEF Over, Idle, NoTx
  <2> QED
    BY <2>1, <2>2 DEF TransactionsServed, Idle, Over, NoTx
<1>2. TxStep(c)
  BY StepTx
<1>3. clock \in Int /\ clock <= clock'
  BY StepFrame DEF TypeOK, Times
<1>4. CASE Still(c)
  <2>1. ~Idle(c) /\ tx[c].proc \in Processes /\ tx[c].now \in Int
    BY <1>1, <1>4, KindOfOp DEF Still, Over, Idle, TypeOK, Times
  <2> QED
    BY <1>1, <1>3, <1>4, <2>1, StepFrame DEF Still, TransactionsServed
<1>5. CASE Opened(c)
  BY <1>3, <1>5 DEF Opened, Serves, brokers
<1>6. CASE ClaimAgain(c) \/ ClaimQueue(c) \/ ClaimSelect(c)
  <2>1. tx[c].op = "claim" /\ tx'[c].op = "claim" /\ tx'[c].proc = tx[c].proc /\ UNCHANGED brokers
    BY <1>1, <1>6, ClaimGoesOn
  <2>2. ~Idle(c)
    BY <2>1 DEF Idle, NoTx
  <2>3. tx'[c].now <= clock'
    BY <1>1, <1>3, <1>6, <2>1, <2>2, ClaimGoesOn, AgainGoesOn, QueueGoesOn, SelectGoesOn
       DEF TransactionsServed
  <2> QED
    BY <2>1, <2>2, <2>3 DEF TransactionsServed, Serves, brokers
<1> QED
  BY <1>1, <1>2, <1>4, <1>5, <1>6 DEF TxStep

LEMMA ClosedStep ==
    ASSUME IInv, [Next]_vars
    PROVE  ClosedHoldsNothing'
<1> USE DEF IInv
<1>1. SUFFICES ASSUME NEW p \in Processes, process'[p] \in {"released", "gone"}, NEW j \in Jobs
      PROVE  row'[j].session # p
  BY DEF ClosedHoldsNothing
<1>2. CASE CloseRelease(p)
  <2>1. CASE row[j].state = "active" /\ row[j].session = p
    <3>1. row'[j] = Unleased(row[j], "waiting") /\ row[j] \in Row
      BY <1>2, <2>1 DEF CloseRelease, TypeOK
    <3>2. row'[j].session = NoProcess
      BY <3>1 DEF Unleased, Row
    <3> QED
      BY <3>2, IdAssumption
  <2>2. CASE ~(row[j].state = "active" /\ row[j].session = p)
    <3>1. row'[j] = row[j]
      BY <1>2, <2>2 DEF CloseRelease
    <3>2. row[j].state # "active" => row[j].session = NoProcess
      BY DEF TypeOK
    <3> QED
      BY <2>2, <3>1, <3>2, IdAssumption
  <2> QED
    BY <2>1, <2>2
<1>3. CASE process[p] \in {"released", "gone"}
  <2>1. row[j].session # p /\ ~Serves(p)
    BY <1>3 DEF ClosedHoldsNothing, Serves, Serving
  <2>2. CASE Claimed(j)
    BY <2>1, <2>2, JobsTyped DEF Claimed, Leased, Entitled, JobTyped, Row
  <2>3. CASE Renewed(j)
    BY <2>1, <2>3, JobsTyped DEF Renewed, Extended, Entitled, JobTyped, Row
  <2>4. CASE Ended(j)
    <3>1. row'[j].session = NoProcess
      BY <2>4, AfterEnd, JobsTyped DEF Ended, Accounts, TypeOK
    <3> QED
      BY <3>1, IdAssumption
  <2>5. CASE Kept(j)
    BY <2>1, <2>5 DEF Kept
  <2> QED
    BY <2>2, <2>3, <2>4, <2>5, StepLeases DEF LeaseStep, Unclaimed, ClaimedBySome
<1> QED
  BY <1>1, <1>2, <1>3, StepFrame

-----------------------------------------------------------------------------
(***************************************************************************)
(* The limit.                                                              *)
(***************************************************************************)

LiveJobsAfter(now) == {j \in Jobs : row'[j].state = "active" /\ row'[j].until > now}

\* Without renewals a job is live later only if it was live before or has just
\* been claimed.
LEMMA LiveLater ==
    ASSUME IInv, [Next]_vars, ~May("renew"), NEW now \in Int, NEW later \in Int, now <= later,
           NEW j \in LiveJobsAfter(later)
    PROVE  j \in LiveJobs(now) \/ \E c \in Connections : ClaimCommit(c) /\ j \in tx[c].taken
<1>1. Kept(j) \/ ClaimedBySome(j) \/ Ended(j)
  BY StepLeases DEF LiveJobsAfter, LeaseStep, Unclaimed, Renewed
<1>2. ~Ended(j)
  BY AfterEnd, JobsTyped DEF LiveJobsAfter, Ended, Accounts, IInv, TypeOK
<1>3. CASE Kept(j)
  BY <1>3, JobsTyped, SettingTyped, TimeAssumption
     DEF LiveJobsAfter, LiveJobs, Live, Kept, IInv, TypeOK, Row
<1> QED
  BY <1>1, <1>2, <1>3 DEF ClaimedBySome

LEMMA JobsFinite ==
    ASSUME NEW S \in SUBSET Jobs, NEW T \in SUBSET S
    PROVE  /\ IsFiniteSet(S) /\ Cardinality(S) \in Nat
           /\ Cardinality(T) \in Nat /\ Cardinality(T) <= Cardinality(S)
<1>1. IsFiniteSet(S)
  BY FiniteAssumption, FS_Subset
<1> QED
  BY <1>1, FS_Subset, FS_CardinalityType

LEMMA JobsUnion ==
    ASSUME NEW S \in SUBSET Jobs, NEW T \in SUBSET Jobs
    PROVE  Cardinality(S \cup T) <= Cardinality(S) + Cardinality(T)
<1>1. IsFiniteSet(S) /\ IsFiniteSet(T) /\ Cardinality(S \cap T) \in Nat
  <2>1. IsFiniteSet(S) /\ IsFiniteSet(T)
    BY FiniteAssumption, FS_Subset
  <2> QED
    BY <2>1, FS_Intersection, FS_CardinalityType
<1>2. Cardinality(S) \in Nat /\ Cardinality(T) \in Nat
  BY <1>1, FS_CardinalityType
<1>3. Cardinality(S \cup T) = Cardinality(S) + Cardinality(T) - Cardinality(S \cap T)
  BY <1>1, FS_Union
<1> QED
  BY <1>1, <1>2, <1>3

LEMMA RoomStep ==
    ASSUME IInv, [Next]_vars
    PROVE  RoomIsKept'
<1> USE DEF IInv
<1>1. UNCHANGED setting
  BY StepCases
<1>2. SUFFICES ASSUME Limit # NoLimit, ~May("renew")
      PROVE  /\ Cardinality(LiveJobs(clock)') <= Limit
             /\ \A c \in Connections : LocksQueue(c)' =>
                  /\ \A d \in Connections : LocksQueue(d)' => d = c
                  /\ tx'[c].exclusive
                  /\ Cardinality(LiveJobsAfter(tx'[c].now)) + tx'[c].capacity <= Limit
                  /\ Cardinality(tx'[c].taken) <= tx'[c].capacity
  <2>1. Limit' = Limit /\ May("renew")' = May("renew")
    BY <1>1, SettingStays
  <2>2. \A c : LiveJobs(tx[c].now)' = LiveJobsAfter(tx'[c].now)
    BY DEF LiveJobs, Live, LiveJobsAfter
  <2> QED
    BY <2>1, <2>2 DEF RoomIsKept
<1>3. /\ Limit \in Nat /\ clock \in Int /\ clock' \in Int /\ clock <= clock'
      /\ LiveJobs(clock)' = LiveJobsAfter(clock')
      /\ Cardinality(LiveJobs(clock)) <= Limit
  <2>1. LiveJobs(clock)' = LiveJobsAfter(clock')
    BY DEF LiveJobs, Live, LiveJobsAfter
  <2> QED
    BY <1>2, <2>1, SettingTyped, StepFrame DEF TypeOK, Times, RoomIsKept
<1>4. ASSUME NEW c \in Connections, LocksQueue(c)
      PROVE  /\ \A d \in Connections : LocksQueue(d) => d = c
             /\ tx[c].exclusive
             /\ Cardinality(LiveJobs(tx[c].now)) + tx[c].capacity <= Limit
             /\ Cardinality(tx[c].taken) <= tx[c].capacity
             /\ tx[c] \in ClaimTx /\ tx[c].taken \in SUBSET Jobs
             /\ tx[c].now \in Int /\ tx[c].now <= clock
             /\ tx[c].capacity \in Nat
  <2>1. tx[c] \in ClaimTx
    BY <1>4, KindOfOp DEF LocksQueue, TypeOK
  <2>2. tx[c].capacity \in Nat
    BY <2>1, SettingTyped DEF ClaimTx, TypeOK
  <2>3. tx[c].now <= clock
    BY <1>4 DEF TransactionsServed, Idle, LocksQueue, NoTx
  <2> QED
    BY <1>2, <1>4, <2>1, <2>2, <2>3 DEF RoomIsKept, ClaimTx, Times
<1>5. Cardinality(LiveJobs(clock)') <= Limit
  <2>1. CASE \E c \in Connections : ClaimCommit(c)
    <3>1. PICK c \in Connections : ClaimCommit(c)
      BY <2>1
    <3>2. LocksQueue(c) /\ clock' = clock
      BY <3>1 DEF ClaimCommit, LocksQueue
    <3>3. \A d \in Connections : ClaimCommit(d) => d = c
      BY <1>4, <3>2 DEF ClaimCommit, LocksQueue
    <3>4. LiveJobsAfter(clock') \subseteq LiveJobs(tx[c].now) \cup tx[c].taken
      BY <1>2, <1>3, <1>4, <3>2, <3>3, LiveLater
    <3>5. LiveJobs(tx[c].now) \in SUBSET Jobs
      BY DEF LiveJobs
    <3> DEFINE all == LiveJobs(tx[c].now) \cup tx[c].taken
    <3>6. /\ Cardinality(all) <= Cardinality(LiveJobs(tx[c].now)) + Cardinality(tx[c].taken)
          /\ Cardinality(all) \in Nat /\ Cardinality(LiveJobs(tx[c].now)) \in Nat
          /\ Cardinality(tx[c].taken) \in Nat
      BY <1>4, <3>2, <3>5, JobsUnion, JobsFinite
    <3>7. /\ Cardinality(LiveJobsAfter(clock')) \in Nat
          /\ Cardinality(LiveJobsAfter(clock')) <= Cardinality(all)
      BY <1>4, <3>2, <3>4, <3>5, JobsFinite
    <3> HIDE DEF all
    <3> QED
      BY <1>3, <1>4, <3>2, <3>6, <3>7
  <2>2. CASE ~ \E c \in Connections : ClaimCommit(c)
    <3>1. LiveJobsAfter(clock') \subseteq LiveJobs(clock)
      BY <1>2, <1>3, <2>2, LiveLater
    <3>2. LiveJobs(clock) \in SUBSET Jobs
      BY DEF LiveJobs
    <3> QED
      BY <1>3, <3>1, <3>2, JobsFinite
  <2> QED
    BY <2>1, <2>2
<1>6. ASSUME NEW c \in Connections, LocksQueue(c)'
      PROVE  /\ \A d \in Connections : LocksQueue(d)' => d = c
             /\ tx'[c].exclusive
             /\ Cardinality(LiveJobsAfter(tx'[c].now)) + tx'[c].capacity <= Limit
             /\ Cardinality(tx'[c].taken) <= tx'[c].capacity
  <2>1. ASSUME NEW e \in Connections, LocksQueue(e)'
        PROVE  /\ TxStep(e) /\ ~Over(e) /\ ~Opened(e) /\ ~ClaimAgain(e)
               /\ ClaimQueue(e) => /\ \A d \in Connections : ~LocksQueue(d)
                                   /\ tx'[e].exclusive
               /\ ~ClaimQueue(e) => LocksQueue(e)
    <3>1. TxStep(e) /\ ~Over(e)
      BY <2>1, StepTx DEF LocksQueue, Over, NoTx
    <3>2. ~Opened(e) /\ ~ClaimAgain(e)
      BY <2>1, <3>1, AgainGoesOn DEF Opened, LocksQueue
    <3>3. CASE ClaimQueue(e)
      <4>1. /\ tx'[e].exclusive = tx[e].exclusive
            /\ tx[e].exclusive \/ Limit = NoLimit
            /\ QueueFree(tx[e].exclusive)
        BY <2>1, <3>1, <3>3, QueueGoesOn DEF LocksQueue
      <4> QED
        BY <1>2, <3>1, <3>2, <3>3, <4>1 DEF QueueFree
    <3>4. CASE Still(e) \/ ClaimSelect(e)
      BY <2>1, <3>1, <3>2, <3>4, SelectGoesOn DEF Still, LocksQueue, ClaimSelect, ClaimQueue
    <3> QED
      BY <3>1, <3>2, <3>3, <3>4 DEF TxStep
  <2>2. CASE ClaimQueue(c)
    <3>1. Alone(c) /\ UNCHANGED <<leases, clock>> /\ tx[c] \in ClaimTx
      BY <2>1, <2>2, <1>6, ClaimGoesOn, KindOfOp DEF ClaimQueue, TypeOK
    <3>2. \A d \in Connections : LocksQueue(d)' => d = c
      BY <2>1, <2>2, <1>6, <3>1 DEF Alone, Still, LocksQueue
    <3>3. /\ tx'[c].now = tx[c].now /\ tx'[c].taken = {}
          /\ tx'[c].capacity = Capacity(tx[c].count, tx[c].now) /\ tx'[c].capacity # 0
      BY <1>6, <2>1, <2>2, QueueGoesOn DEF LocksQueue, RowsAreReserved, ClaimQueue
    <3>4. LiveJobsAfter(tx'[c].now) = LiveJobs(tx[c].now)
      BY <3>1, <3>3 DEF leases, LiveJobsAfter, LiveJobs, Live
    <3>5. ActiveCount(tx[c].now) = Cardinality(LiveJobs(tx[c].now)) /\ ActiveCount(tx[c].now) \in Nat
      <4>1. LiveJobs(tx[c].now) \in SUBSET Jobs
        BY DEF LiveJobs
      <4> QED
        BY <4>1, JobsFinite DEF ActiveCount, LiveJobs
    <3>6. /\ tx'[c].capacity + ActiveCount(tx[c].now) <= Limit
          /\ tx'[c].capacity \in Nat
      <4>1. tx[c].count \in Nat
        BY <3>1, SettingTyped DEF ClaimTx, TypeOK
      <4> QED
        BY <1>2, <1>3, <3>3, <3>5, <4>1 DEF Capacity
    <3>7. Cardinality(tx'[c].taken) = 0
      BY <3>3, FS_EmptySet
    <3> QED
      BY <1>3, <1>6, <2>1, <2>2, <3>2, <3>4, <3>5, <3>6, <3>7
  <2>3. CASE ~ClaimQueue(c)
    <3>1. LocksQueue(c)
      BY <1>6, <2>1, <2>3
    <3>2. \A d \in Connections : LocksQueue(d)' => d = c
      BY <1>4, <2>1, <3>1
    <3>3. /\ tx'[c].now = tx[c].now /\ tx'[c].exclusive = tx[c].exclusive
          /\ tx'[c].capacity = tx[c].capacity
          /\ Cardinality(tx'[c].taken) <= tx'[c].capacity
      BY <1>4, <1>6, <2>1, <2>3, <3>1, SelectGoesOn DEF TxStep, Still
    <3>4. ~ \E d \in Connections : ClaimCommit(d)
      <4>1. SUFFICES ASSUME NEW d \in Connections, ClaimCommit(d) PROVE FALSE
        OBVIOUS
      <4>2. d = c
        BY <1>4, <3>1, <4>1 DEF ClaimCommit, LocksQueue
      <4> QED
        BY <1>6, <2>1, <4>1, <4>2, AloneByExcept DEF ClaimCommit, Done, Over
    <3>5. LiveJobsAfter(tx'[c].now) \subseteq LiveJobs(tx[c].now)
      BY <1>2, <1>4, <3>1, <3>3, <3>4, LiveLater
    <3>6. LiveJobs(tx[c].now) \in SUBSET Jobs
      BY DEF LiveJobs
    <3>7. /\ Cardinality(LiveJobsAfter(tx'[c].now)) <= Cardinality(LiveJobs(tx[c].now))
          /\ Cardinality(LiveJobsAfter(tx'[c].now)) \in Nat
          /\ Cardinality(LiveJobs(tx[c].now)) \in Nat
      BY <3>5, <3>6, JobsFinite
    <3> QED
      BY <1>3, <1>4, <3>1, <3>2, <3>3, <3>7
  <2> QED
    BY <2>2, <2>3
<1> QED
  BY <1>5, <1>6

-----------------------------------------------------------------------------
(***************************************************************************)
(* The theorems.                                                           *)
(***************************************************************************)

LEMMA InvInit == Init => IInv
<1> SUFFICES ASSUME Init PROVE IInv
  OBVIOUS
<1> USE DEF Init
<1>1. setting \in Settings
  OBVIOUS
<1>2. TypeOK
  <2>1. 0 \in Times /\ 0 \in 0 .. MaxTokens /\ 0 \in 0 .. MaxClock + Lease /\ 0 \in 0 .. MaxAttempts
    BY <1>1, SettingTyped, TimeAssumption, PolicyAssumption DEF Times
  <2>2. NewRow \in Row /\ NewRow.token = 0 /\ NewRow.until = 0 /\ NewRow.session = NoProcess
    BY <2>1 DEF NewRow, Row, States
  <2>3. NoBroker \in [session : Processes \cup {NoProcess}, beat : Times]
    BY <2>1 DEF NoBroker
  <2> QED
    BY <1>1, <2>1, <2>2, <2>3, TransactionKinds DEF TypeOK
<1>3. Accounts
  <2>1. SUFFICES ASSUME NEW j \in Jobs
        PROVE  Accounted(j) /\ Charged(j)
    BY DEF Accounts
  <2>2. Lost(j) = {} /\ Stalled(j) = {}
    BY DEF Lost, Stalled
  <2>3. Charged(j)
    BY <2>2, FS_EmptySet, PolicyAssumption DEF Charged, NewRow
  <2> QED
    BY <2>3, <1>1, SettingTyped DEF Accounted, NewRow
<1>4. RowsAreReserved /\ SessionsStay /\ PauseWaits /\ TransactionsServed
  BY DEF RowsAreReserved, SessionsStay, PauseWaits, TransactionsServed, NoTx, LocksQueue, Idle
<1>5. ClosedHoldsNothing
  BY DEF ClosedHoldsNothing
<1>6. RoomIsKept
  <2>1. LiveJobs(clock) = {}
    BY DEF LiveJobs, Live, NewRow
  <2>2. Limit # NoLimit => Cardinality(LiveJobs(clock)) <= Limit
    <3>1. Cardinality(LiveJobs(clock)) = 0
      BY <2>1, FS_EmptySet
    <3> QED
      BY <1>1, <3>1, SettingTyped
  <2> QED
    BY <2>2 DEF RoomIsKept, LocksQueue, NoTx
<1> QED
  BY <1>2, <1>3, <1>4, <1>5, <1>6 DEF IInv

\* The inductive invariant: every job is accounted for, and what the locks of
\* the open transactions stand for holds.
THEOREM Invariance == Spec => []IInv
<1>1. IInv /\ [Next]_vars => IInv'
  BY StepTyped, StepAccounts, ReservedStep, SessionsStep, PauseStep, ServedStep, ClosedStep, RoomStep
     DEF IInv
<1> QED
  BY <1>1, InvInit, PTL DEF Spec

\* Types, for any number of jobs, brokers and connections.
THEOREM LeasesTyped == Spec => []TypeOK
<1>1. IInv => TypeOK
  BY DEF IInv
<1> QED
  BY <1>1, Invariance, PTL

\* However the outcomes of a job travel, by whichever brokers, each delivery
\* ends once, and its token is good until then and never again.
THEOREM DeliveriesEndOnce == Spec => []OneEndPerDelivery
<1>1. IInv => OneEndPerDelivery
  <2>1. SUFFICES ASSUME IInv, NEW j \in Jobs, NEW t \in 1 .. MaxTokens
        PROVE  /\ Cardinality(ends[j][t]) <= 1
               /\ t <= issued[j] /\ ends[j][t] = {} => row[j].token = t
               /\ row[j].token = t => t = issued[j] /\ ends[j][t] = {}
    BY DEF OneEndPerDelivery, IInv
  <2>2. Accounted(j) /\ JobTyped(j) /\ MaxTokens \in Nat
    BY <2>1, JobsTyped, SettingTyped DEF IInv, Accounts, TypeOK
  <2>3. Cardinality(ends[j][t]) <= 1
    <3>1. CASE ends[j][t] = {}
      BY <3>1, FS_EmptySet
    <3>2. CASE ends[j][t] # {}
      <4>1. PICK a \in ends[j][t] : ends[j][t] = {a}
        BY <2>2, <3>2 DEF Accounted
      <4>2. Cardinality({a}) = 1
        BY FS_Singleton
      <4> QED
        BY <4>1, <4>2
    <3> QED
      BY <3>1, <3>2
  <2> QED
    BY <2>2, <2>3 DEF Accounted, JobTyped
<1> QED
  BY <1>1, Invariance, PTL

\* The runs that were lost are counted, and a job whose budget they have used
\* up does not wait or run.
THEOREM BudgetHolds == Spec => []Budget
<1>1. IInv => Budget
  <2>1. SUFFICES ASSUME IInv, NEW j \in Jobs
        PROVE  /\ Cardinality(Lost(j)) = row[j].attempts
               /\ row[j].state \in {"waiting", "active"} => Cardinality(Lost(j)) < MaxAttempts
               /\ MaxStalls > 0 /\ row[j].state \in {"waiting", "active"} =>
                     Cardinality({t \in Lost(j) : "expired" \in ends[j][t]}) < MaxStalls
    BY DEF Budget
  <2>2. {t \in Lost(j) : "expired" \in ends[j][t]} = Stalled(j)
    BY DEF Lost, Stalled
  <2> QED
    BY <2>1, <2>2 DEF IInv, Accounts, Charged
<1> QED
  BY <1>1, Invariance, PTL

\* A broker that has closed in order leaves no lease behind, and no call or
\* renewal of its own can bring one afterwards.
THEOREM ClosedBrokersHoldNothing == Spec => []ClosedHoldsNothing
<1>1. IInv => ClosedHoldsNothing
  BY DEF IInv
<1> QED
  BY <1>1, Invariance, PTL

\* The concurrency limit holds for any number of brokers that claim at once.
THEOREM LimitHolds == Spec => []LiveLeasesWithinLimit
<1>1. IInv => LiveLeasesWithinLimit
  BY DEF IInv, RoomIsKept, LiveLeasesWithinLimit, LiveJobs
<1> QED
  BY <1>1, Invariance, PTL

\* A claim takes waiting jobs only.
THEOREM NoJobTwice == Spec => ClaimsTakeWaiting
<1>1. IInv /\ [Next]_vars => [\A j \in Jobs : issued'[j] # issued[j] => row[j].state = "waiting"]_vars
  BY StepLeases DEF LeaseStep, Unclaimed, ClaimedBySome, Kept, Claimed, Renewed, Ended
<1> QED
  BY <1>1, Invariance, PTL DEF Spec, ClaimsTakeWaiting

\* A process whose session was replaced or purged gets no lease any more.
THEOREM FencedGetNothing == Spec => OnlyRegisteredLease
<1>1. IInv /\ [Next]_vars =>
        [\A j \in Jobs : row'[j].state = "active" /\ row'[j] # row[j] =>
             Registered(row'[j].session)]_vars
  <2>1. SUFFICES ASSUME IInv, [Next]_vars, NEW j \in Jobs, row'[j].state = "active", row'[j] # row[j]
        PROVE  Registered(row'[j].session)
    OBVIOUS
  <2>2. Claimed(j) \/ Renewed(j) \/ Ended(j)
    BY <2>1, StepLeases DEF LeaseStep, Unclaimed, ClaimedBySome, Kept
  <2>3. ~Ended(j)
    BY <2>1, AfterEnd, JobsTyped DEF Ended, IInv, Accounts, TypeOK
  <2>4. row[j] \in Row
    BY <2>1 DEF IInv, TypeOK
  <2> QED
    BY <2>2, <2>3, <2>4 DEF Claimed, Renewed, Leased, Extended, Entitled, Row
<1> QED
  BY <1>1, Invariance, PTL DEF Spec, OnlyRegisteredLease

\* Nothing is delivered once a pause has been committed.
THEOREM PauseIsObeyed == Spec => PausedClaimsNothing
<1>1. IInv /\ [Next]_vars => [paused => issued' = issued]_vars
  <2>1. SUFFICES ASSUME IInv, [Next]_vars, paused
        PROVE  issued' = issued
    OBVIOUS
  <2>2. SameJobs /\ \A j \in Jobs : issued'[j] = issued[j]
    BY <2>1, StepLeases DEF LeaseStep, Unclaimed, ClaimedBySome, Kept, Claimed, Renewed, Ended
  <2> QED
    BY <2>1, <2>2 DEF SameJobs, IInv, TypeOK
<1> QED
  BY <1>1, Invariance, PTL DEF Spec, PausedClaimsNothing

\* The step that completes a job of a batch in its transaction is the one that
\* has tested all of them.
LEMMA BatchEnds ==
    ASSUME IInv, [Next]_vars, NEW c \in Connections, tx[c].op = "batch", tx'[c] = NoTx,
           NEW j \in Jobs, row[j].state = "active", row'[j].state = "completed"
    PROVE  BatchRows(c) /\ Acceptable(tx[c].items, tx[c].now)
<1> USE DEF IInv, TypeOK
<1>1. tx' # tx
  BY DEF NoTx
<1>2. row' # row
  OBVIOUS
<1>3. ASSUME NEW d \in Connections, Calls(d) \/ Proceeds(d)
      PROVE  BatchRows(c)
  <2>1. ~Calls(d)
    BY <1>2, CallsLeases DEF leases
  <2>2. ClaimCommit(d) \/ RenewRow(d) \/ BatchRows(d) \/ RecoverRows(d)
    BY <1>2, <1>3, <2>1 DEF Proceeds, ClaimAgain, ClaimQueue, ClaimSelect, leases
  <2>3. Done(d)
    BY <2>2 DEF ClaimCommit, RenewRow, BatchRows, RecoverRows
  <2>4. d = c
    BY <2>3 DEF Done, NoTx
  <2> QED
    BY <2>2, <2>4 DEF ClaimCommit, RenewRow, RecoverRows
<1>4. ASSUME NEW p \in Processes, Sessions(p)
      PROVE  FALSE
  BY <1>1, <1>2, <1>4 DEF Sessions, Register, Heartbeat, PurgeBrokers, Crash, CloseBegin, CloseRelease,
     CloseReleaseFails, CloseUnregister, leases
<1>5. BatchRows(c)
  BY <1>1, <1>3, <1>4, StepCases DEF Tick, SetPaused, Complete, FailJob, ReleaseClient, vars, system
<1>6. Acceptable(tx[c].items, tx[c].now)
  BY <1>2, <1>5 DEF BatchRows
<1> QED
  BY <1>5, <1>6

\* A batch is acknowledged whole: what one item that is no longer valid can
\* undo is all of it.
THEOREM BatchesAreWhole == Spec => BatchIsWhole
<1>1. IInv /\ [Next]_vars =>
        [\A c \in Connections :
            /\ tx[c].op = "batch" /\ tx'[c] = NoTx
            /\ \E h \in tx[c].items : row[h.job].state = "active" /\ row'[h.job].state = "completed"
            => \A h \in tx[c].items : row'[h.job].state \in {"completed", "failed"}]_vars
  <2>1. SUFFICES ASSUME IInv, [Next]_vars, NEW c \in Connections, tx[c].op = "batch", tx'[c] = NoTx,
                        NEW g \in tx[c].items, row[g.job].state = "active",
                        row'[g.job].state = "completed", NEW h \in tx[c].items
                 PROVE  row'[h.job].state \in {"completed", "failed"}
    OBVIOUS
  <2>2. g.job \in Jobs /\ h.job \in Jobs
    BY <2>1, KindOfOp DEF IInv, TypeOK, BatchTx, LeaseInfo
  <2>3. BatchRows(c) /\ Acceptable(tx[c].items, tx[c].now)
    BY <2>1, <2>2, BatchEnds
  <2>4. CASE ValidToken(h.job, h.token, tx[c].now)
    <3>1. row'[h.job] = Unleased(row[h.job], "completed")
      BY <2>2, <2>3, <2>4 DEF BatchRows
    <3> QED
      BY <2>1, <2>2, <3>1 DEF Unleased, IInv, TypeOK, Row
  <2>5. CASE ~ValidToken(h.job, h.token, tx[c].now)
    <3>1. Finalized(h.job)
      BY <2>3, <2>5 DEF Acceptable
    <3>2. row'[h.job] = row[h.job]
      BY <2>2, <2>3, <3>1 DEF BatchRows, ValidToken, Live, Finalized
    <3> QED
      BY <3>1, <3>2 DEF Finalized
  <2> QED
    BY <2>4, <2>5
<1> QED
  BY <1>1, Invariance, PTL DEF Spec, BatchIsWhole
=============================================================================
