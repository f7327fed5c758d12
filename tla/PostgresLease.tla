---------------------------- MODULE PostgresLease ----------------------------
(***************************************************************************)
(* Delivery by several brokers over one PostgreSQL database: claims,       *)
(* renewals, outcomes, recovery of expired leases, and the registration of *)
(* broker sessions that fences a process which was taken for dead.         *)
(*                                                                         *)
(* Isolation is READ COMMITTED.  A transaction is split where it reads     *)
(* something that it relies on later: what it has written is seen when it  *)
(* commits, the rows that it has locked are locked until then, and a       *)
(* statement that waits for a lock looks at the row again when it gets it. *)
(* A transaction that locks its rows before it reads the clock is a single *)
(* step.  clock is the clock of the database, which all brokers use.       *)
(***************************************************************************)
EXTENDS Integers, FiniteSets

CONSTANTS
    Jobs,
    Processes,      \* a broker process; its session id is its own
    BrokerIds,
    IdOf,           \* the brokerId each process is configured with
    Connections,    \* connections of the pools: one transaction each at most
    NoProcess,
    NoLimit,
    MaxAttempts,
    Lease,          \* the duration that claims and renewals ask for
    Stale,          \* postgresBrokerStaleMs
    Settings        \* the queue, its brokers, and what may happen

Hazards == {"renew", "batch", "abort", "crash", "close", "disconnect", "pause",
            "lostReply", "stale"}

ASSUME IdAssumption == IdOf \in [Processes -> BrokerIds] /\ NoProcess \notin Processes
ASSUME FiniteAssumption ==
    IsFiniteSet(Jobs) /\ IsFiniteSet(Processes) /\ IsFiniteSet(Connections)
ASSUME PolicyAssumption == MaxAttempts \in Nat \ {0}
ASSUME TimeAssumption == Lease \in Nat \ {0} /\ Stale \in Nat /\ Lease <= Stale
\* limit is concurrency_limit of the queue, NoLimit for NULL; stalls is its
\* maxStalls, 0 for no limit.  Bounds: batch jobs in a pull, clock ticks, tokens
\* deliveries of a job.
ASSUME SettingsAssumption ==
    Settings \subseteq [jobs : SUBSET Jobs, processes : SUBSET Processes,
                        limit : Nat \cup {NoLimit}, stalls : Nat, batch : Nat,
                        clock : Nat, tokens : Nat, hazards : SUBSET Hazards]

VARIABLES
    setting,        \* the one that is in force
    clock,
    row,            \* the rows of bunqueue_jobs
    registry,       \* the rows of bunqueue_brokers: session and heartbeat_at
    paused,         \* of the queue's row in bunqueue_queue_state
    process,        \* the life of each process
    tx,             \* the transaction that each connection is in
    held,           \* leases that workers have been told of, and by whom
    issued,         \* tokens issued for each job
    ends            \* history: how each delivery of a job has ended

leases == <<row, issued, ends>>
brokers == <<registry, process>>
system == <<clock, leases, brokers, paused, tx, held>>
vars == <<setting, system>>

Limit == setting.limit
MaxStalls == setting.stalls
MaxBatch == setting.batch
MaxClock == setting.clock
MaxTokens == setting.tokens
May(hazard) == hazard \in setting.hazards

-----------------------------------------------------------------------------
(***************************************************************************)
(* Rows and locks.                                                         *)
(***************************************************************************)

NewRow == [state |-> "waiting", token |-> 0, until |-> 0, session |-> NoProcess,
           attempts |-> 0, stalls |-> 0, renewals |-> 0]
NoBroker == [session |-> NoProcess, beat |-> 0]
NoTx == [op |-> "none"]

Serving == {"up", "fenced"}
Serves(p) == process[p] \in Serving
Maintains(p) == process[p] = "up"
Registered(p) == registry[IdOf[p]].session = p

\* Mutant of SharesSession: the session's row is read and not locked.
SharesNothing(c, b) == FALSE

\* Claims and renewals begin with the session's row FOR SHARE.
SharesSession(c, b) ==
    /\ tx[c].op \in {"claim", "renew"}
    /\ tx[c].at # "again"
    /\ IdOf[tx[c].proc] = b
SessionFree(b) == \A c \in Connections : ~SharesSession(c, b)
LocksQueue(c) == tx[c].op = "claim" /\ tx[c].at \in {"select", "commit"}

QueueFree(exclusive) ==
    \A c \in Connections : LocksQueue(c) => ~exclusive /\ ~tx[c].exclusive
LockedRows == UNION {tx[c].taken : c \in {d \in Connections : tx[d].op = "claim"}}

Idle(c) == tx[c] = NoTx
Done(c) == tx' = [tx EXCEPT ![c] = NoTx]

Live(j, now) == row[j].state = "active" /\ row[j].until > now
Expired(j, now) == row[j].state = "active" /\ row[j].until <= now

\* Mutant of ValidToken: any lease of the job will do.
AnyToken(j, t, now) == Live(j, now)

\* assertToken
ValidToken(j, t, now) == Live(j, now) /\ row[j].token = t
Finalized(j) == row[j].state \in {"completed", "failed"}

Unleased(r, state) ==
    [r EXCEPT !.state = state, !.token = 0, !.until = 0, !.session = NoProcess]
Outcomes == {"completed", "failed", "expired", "released"}
End(e, j, t, how) == [e EXCEPT ![j][t] = @ \cup {how}]

-----------------------------------------------------------------------------
(***************************************************************************)
(* Initial state.                                                          *)
(***************************************************************************)

Init ==
    /\ setting \in Settings
    /\ clock = 0
    /\ row = [j \in Jobs |-> NewRow]
    /\ registry = [b \in BrokerIds |-> NoBroker]
    /\ paused = FALSE
    /\ process = [p \in Processes |-> "new"]
    /\ tx = [c \in Connections |-> NoTx]
    /\ held = {}
    /\ issued = [j \in Jobs |-> 0]
    /\ ends = [j \in Jobs |-> [t \in 1 .. MaxTokens |-> {}]]

Tick == /\ clock < MaxClock
        /\ clock' = clock + 1
        /\ UNCHANGED <<leases, brokers, paused, tx, held>>

-----------------------------------------------------------------------------
(***************************************************************************)
(* Claims: claimPostgresJobs.                                              *)
(***************************************************************************)

\* A process whose session is not registered gets an error here.
ClaimBegin(c, p, n) ==
    /\ Idle(c) /\ Serves(p) /\ Registered(p)
    /\ tx' = [tx EXCEPT ![c] =
                [op |-> "claim", at |-> "queue", proc |-> p, now |-> clock,
                 count |-> n, capacity |-> 0, exclusive |-> FALSE, taken |-> {}]]
    /\ UNCHANGED <<clock, leases, brokers, paused, held>>

\* The second transaction of a claim whose first one found a limit.
ClaimAgain(c) ==
    /\ tx[c].op = "claim" /\ tx[c].at = "again"
    /\ IF Registered(tx[c].proc)
       THEN tx' = [tx EXCEPT ![c].at = "queue", ![c].now = clock]
       ELSE Done(c)
    /\ UNCHANGED <<clock, leases, brokers, paused, held>>

ActiveCount(now) == Cardinality({j \in Jobs : Live(j, now)})

\* Mutant of Capacity: what other claims hold is not counted.
CapacityAlone(n, now) == IF Limit = NoLimit \/ n <= Limit THEN n ELSE Limit

Capacity(n, now) ==
    IF Limit = NoLimit \/ n <= Limit - ActiveCount(now) THEN n
    ELSE IF Limit > ActiveCount(now) THEN Limit - ActiveCount(now)
    ELSE 0

ClaimQueue(c) ==
    LET x == tx[c]
        capacity == Capacity(x.count, x.now)
    IN  /\ x.op = "claim" /\ x.at = "queue"
        /\ QueueFree(x.exclusive)
        /\ IF ~x.exclusive /\ Limit # NoLimit
           THEN tx' = [tx EXCEPT ![c].at = "again", ![c].exclusive = TRUE]
           ELSE IF paused \/ capacity = 0 THEN Done(c)
           ELSE tx' = [tx EXCEPT ![c].at = "select", ![c].capacity = capacity]
        /\ UNCHANGED <<clock, leases, brokers, paused, held>>

\* Mutant of Claimable: the rows are read without FOR UPDATE SKIP LOCKED.
ClaimableUnlocked == {j \in setting.jobs : row[j].state = "waiting" /\ issued[j] < MaxTokens}

Claimable == {j \in setting.jobs \ LockedRows : row[j].state = "waiting" /\ issued[j] < MaxTokens}

\* Which of the jobs come first (priority, age, group) is left open.
ClaimSelect(c) ==
    /\ tx[c].op = "claim" /\ tx[c].at = "select"
    /\ \/ /\ Claimable = {}
          /\ Done(c)
       \/ \E S \in (SUBSET Claimable) \ {{}} :
            /\ Cardinality(S) <= tx[c].capacity
            /\ Cardinality(S) < tx[c].capacity => S = Claimable
            /\ tx' = [tx EXCEPT ![c].at = "commit", ![c].taken = S]
    /\ UNCHANGED <<clock, leases, brokers, paused, held>>

\* A reply that is lost leaves a lease that no worker knows of.
ClaimCommit(c) ==
    LET x == tx[c]
        claims == {[job |-> j, token |-> issued[j] + 1, via |-> x.proc] : j \in x.taken}
    IN  /\ x.op = "claim" /\ x.at = "commit"
        /\ row' = [j \in Jobs |->
                     IF j \in x.taken
                     THEN [row[j] EXCEPT !.state = "active", !.token = issued[j] + 1,
                              !.until = x.now + Lease, !.session = x.proc, !.renewals = 0]
                     ELSE row[j]]
        /\ issued' = [j \in Jobs |-> IF j \in x.taken THEN issued[j] + 1 ELSE issued[j]]
        /\ \/ held' = held \cup claims
           \/ May("lostReply") /\ held' = held
        /\ Done(c)
        /\ UNCHANGED <<clock, ends, brokers, paused>>

-----------------------------------------------------------------------------
(***************************************************************************)
(* What a worker does with its lease, through any broker that serves.      *)
(* Requests that fail their test change nothing and are not actions.       *)
(* Nothing leaves held: a request whose reply was lost is sent again.      *)
(***************************************************************************)

\* renewPostgresLeases reads the clock, and then waits for the row.
RenewBegin(c, p, h) ==
    /\ May("renew")
    /\ Idle(c) /\ Serves(p) /\ Registered(p)
    /\ ValidToken(h.job, h.token, clock)
    /\ tx' = [tx EXCEPT ![c] = [op |-> "renew", at |-> "row", proc |-> p, now |-> clock,
                                job |-> h.job, token |-> h.token]]
    /\ UNCHANGED <<clock, leases, brokers, paused, held>>

RenewRow(c) ==
    LET x == tx[c] IN
    /\ x.op = "renew"
    /\ row' = IF ValidToken(x.job, x.token, x.now)
              THEN [row EXCEPT ![x.job].until = x.now + Lease, ![x.job].session = x.proc,
                               ![x.job].renewals = 1]
              ELSE row
    /\ Done(c)
    /\ UNCHANGED <<clock, issued, ends, brokers, paused, held>>

\* completePostgresJob reads the clock when it has the row.
Complete(p, h) ==
    /\ Serves(p)
    /\ ValidToken(h.job, h.token, clock)
    /\ row' = [row EXCEPT ![h.job] = Unleased(@, "completed")]
    /\ ends' = End(ends, h.job, h.token, "completed")
    /\ UNCHANGED <<clock, issued, brokers, paused, tx, held>>

\* completePostgresJobs reads it first, and then waits for the rows.
BatchBegin(c, p, items) ==
    /\ May("batch")
    /\ Idle(c) /\ Serves(p)
    /\ \A h \in items : ValidToken(h.job, h.token, clock)
    /\ tx' = [tx EXCEPT ![c] = [op |-> "batch", at |-> "rows", proc |-> p, now |-> clock,
                                items |-> items]]
    /\ UNCHANGED <<clock, leases, brokers, paused, held>>

\* Mutant of Acceptable: what is not valid is left out of the batch.
AcceptableInPart(items, now) == TRUE

\* prepareCompletions throws at the first item that is neither.
Acceptable(items, now) ==
    \A h \in items : Finalized(h.job) \/ ValidToken(h.job, h.token, now)

BatchRows(c) ==
    LET x == tx[c]
        applied == {h \in x.items : ValidToken(h.job, h.token, x.now)}
    IN  /\ x.op = "batch"
        /\ IF Acceptable(x.items, x.now)
           THEN /\ row' = [j \in Jobs |->
                             IF \E h \in applied : h.job = j
                             THEN Unleased(row[j], "completed") ELSE row[j]]
                /\ ends' = [j \in Jobs |-> [t \in 1 .. MaxTokens |->
                              IF \E h \in applied : h.job = j /\ h.token = t
                              THEN ends[j][t] \cup {"completed"} ELSE ends[j][t]]]
           ELSE UNCHANGED <<row, ends>>
        /\ Done(c)
        /\ UNCHANGED <<clock, issued, brokers, paused, held>>

\* canRetry after the attempt has been counted, unless the failure is called
\* unrecoverable.
Attempted(r, unrecoverable) ==
    LET s == [r EXCEPT !.attempts = @ + 1] IN
    Unleased(s, IF ~unrecoverable /\ s.attempts < MaxAttempts THEN "waiting" ELSE "failed")

FailJob(p, h) ==
    /\ Serves(p)
    /\ ValidToken(h.job, h.token, clock)
    /\ \E unrecoverable \in BOOLEAN : row' = [row EXCEPT ![h.job] = Attempted(@, unrecoverable)]
    /\ ends' = End(ends, h.job, h.token, "failed")
    /\ UNCHANGED <<clock, issued, brokers, paused, tx, held>>

\* releasePostgresClientLease: the connection that pulled the job closes.
ReleaseClient(h) ==
    /\ May("disconnect")
    /\ Serves(h.via) /\ Registered(h.via)
    /\ ValidToken(h.job, h.token, clock)
    /\ row[h.job].renewals = 0
    /\ row' = [row EXCEPT ![h.job] = Unleased(@, "waiting")]
    /\ ends' = End(ends, h.job, h.token, "released")
    /\ UNCHANGED <<clock, issued, brokers, paused, tx, held>>

-----------------------------------------------------------------------------
(***************************************************************************)
(* Recovery: recoverExpiredPostgresLeases, one flight of it per process.   *)
(***************************************************************************)

\* Mutant of RecoverBegin: a broker looks after the leases of its own session.
RecoverBeginOwn(c, p) ==
    LET own == {j \in Jobs : Expired(j, clock) /\ row[j].session = p} IN
    /\ Idle(c) /\ Maintains(p) /\ own # {}
    /\ tx' = [tx EXCEPT ![c] = [op |-> "recover", at |-> "rows", proc |-> p, now |-> clock,
                                candidates |-> own]]
    /\ UNCHANGED <<clock, leases, brokers, paused, held>>

RecoverBegin(c, p) ==
    /\ Idle(c) /\ Maintains(p)
    /\ \A d \in Connections : tx[d].op = "recover" => tx[d].proc # p
    /\ \E j \in Jobs : Expired(j, clock)
    /\ tx' = [tx EXCEPT ![c] = [op |-> "recover", at |-> "rows", proc |-> p, now |-> clock,
                                candidates |-> {j \in Jobs : Expired(j, clock)}]]
    /\ UNCHANGED <<clock, leases, brokers, paused, held>>

\* Mutant of Recovered: the lost run is not counted.
RecoveredForFree(r) == Unleased(r, "waiting")

Recovered(r) ==
    LET s == [r EXCEPT !.attempts = @ + 1, !.stalls = @ + 1] IN
    Unleased(s, IF s.attempts >= MaxAttempts \/ (MaxStalls > 0 /\ s.stalls >= MaxStalls)
                THEN "failed" ELSE "waiting")

StillExpired(candidates, now) == {j \in candidates : Expired(j, now)}

RecoverRows(c) ==
    LET x == tx[c]
        rows == StillExpired(x.candidates, x.now)
    IN  /\ x.op = "recover"
        /\ row' = [j \in Jobs |-> IF j \in rows THEN Recovered(row[j]) ELSE row[j]]
        /\ ends' = [j \in Jobs |-> IF j \in rows
                                   THEN [ends[j] EXCEPT ![row[j].token] = @ \cup {"expired"}]
                                   ELSE ends[j]]
        /\ Done(c)
        /\ UNCHANGED <<clock, issued, brokers, paused, held>>

-----------------------------------------------------------------------------
(***************************************************************************)
(* Broker sessions.                                                        *)
(***************************************************************************)

\* These transactions read the clock and then wait for their rows: what they
\* compare and write is a reading of any age.  Without the hazard nobody's
\* heartbeat or reading is ever late.
Readings == IF May("stale") THEN 0 .. clock ELSE {clock}

Abandoned(b, now) ==
    registry[b] = NoBroker \/ (May("stale") /\ registry[b].beat <= now - Stale)

Register(p) ==
    LET b == IdOf[p] IN
    /\ p \in setting.processes /\ process[p] = "new"
    /\ SessionFree(b)
    /\ \E now \in Readings :
         /\ Abandoned(b, now)
         /\ registry' = [registry EXCEPT ![b] = [session |-> p, beat |-> now]]
    /\ process' = [process EXCEPT ![p] = "up"]
    /\ UNCHANGED <<clock, leases, paused, tx, held>>

\* A session that is not there any more ends the maintenance of its process.
Heartbeat(p) ==
    LET b == IdOf[p] IN
    /\ May("stale")
    /\ Maintains(p) /\ SessionFree(b)
    /\ IF Registered(p)
       THEN /\ \E now \in Readings :
                 /\ now >= registry[b].beat
                 /\ registry' = [registry EXCEPT ![b].beat = now]
            /\ UNCHANGED process
       ELSE process' = [process EXCEPT ![p] = "fenced"] /\ UNCHANGED registry
    /\ UNCHANGED <<clock, leases, paused, tx, held>>

PurgeBrokers(p) ==
    /\ May("stale")
    /\ Maintains(p)
    /\ \E now \in Readings :
         LET stale == {b \in BrokerIds : /\ registry[b] # NoBroker /\ Abandoned(b, now)
                                        /\ registry[b].session # p}
         IN  /\ stale # {} /\ \A b \in stale : SessionFree(b)
             /\ registry' = [b \in BrokerIds |-> IF b \in stale THEN NoBroker ELSE registry[b]]
    /\ UNCHANGED <<clock, leases, process, paused, tx, held>>

\* The connections of a dead process are closed and roll back.
Crash(p) ==
    /\ May("crash")
    /\ Serves(p)
    /\ process' = [process EXCEPT ![p] = "dead"]
    /\ tx' = [c \in Connections |->
                IF tx[c].op # "none" /\ tx[c].proc = p THEN NoTx ELSE tx[c]]
    /\ UNCHANGED <<clock, leases, registry, paused, held>>

\* Mutant of Drained: the calls that are under way are not waited for.
DrainedOfMaintenance(p) == \A c \in Connections : tx[c].op = "recover" => tx[c].proc # p

\* closeAndDrain of the operation gate, then drain of the maintenance flights
Drained(p) == \A c \in Connections : ~Idle(c) => tx[c].proc # p

CloseBegin(p) ==
    /\ May("close")
    /\ Serves(p) /\ Drained(p)
    /\ process' = [process EXCEPT ![p] = "closing"]
    /\ UNCHANGED <<clock, leases, registry, paused, tx, held>>

\* releasePostgresBrokerLeases, of a close or of one that is tried again after
\* the release had failed.
CloseRelease(p) ==
    LET own == {j \in Jobs : row[j].state = "active" /\ row[j].session = p} IN
    /\ process[p] \in {"closing", "left"}
    /\ row' = [j \in Jobs |-> IF j \in own THEN Unleased(row[j], "waiting") ELSE row[j]]
    /\ ends' = [j \in Jobs |-> IF j \in own
                               THEN [ends[j] EXCEPT ![row[j].token] = @ \cup {"released"}]
                               ELSE ends[j]]
    /\ process' = [process EXCEPT ![p] = IF @ = "closing" THEN "released" ELSE "gone"]
    /\ UNCHANGED <<clock, issued, registry, paused, tx, held>>

\* tryCloseStep: a release that fails is reported at the end, and the close
\* goes on.
CloseReleaseFails(p) ==
    /\ process[p] = "closing"
    /\ process' = [process EXCEPT ![p] = "leaving"]
    /\ UNCHANGED <<clock, leases, registry, paused, tx, held>>

CloseUnregister(p) ==
    LET b == IdOf[p] IN
    /\ process[p] \in {"released", "leaving"} /\ SessionFree(b)
    /\ registry' = IF Registered(p) THEN [registry EXCEPT ![b] = NoBroker] ELSE registry
    /\ process' = [process EXCEPT ![p] = IF @ = "released" THEN "gone" ELSE "left"]
    /\ UNCHANGED <<clock, leases, paused, tx, held>>

-----------------------------------------------------------------------------
(***************************************************************************)
(* The queue's row, and transactions that PostgreSQL ends.                 *)
(***************************************************************************)

\* Mutant of SetPaused: the queue's row is not waited for.
SetPausedUnlocked ==
    /\ May("pause")
    /\ paused' = ~paused
    /\ UNCHANGED <<clock, leases, brokers, tx, held>>

SetPaused ==
    /\ May("pause")
    /\ QueueFree(TRUE)
    /\ paused' = ~paused
    /\ UNCHANGED <<clock, leases, brokers, tx, held>>

\* Deadlock, lock or statement timeout, lost connection.  The replay of
\* runPostgresTransactionWithRetry is a new transaction.
Abort(c) ==
    /\ May("abort")
    /\ ~Idle(c)
    /\ Done(c)
    /\ UNCHANGED <<clock, leases, brokers, paused, held>>

-----------------------------------------------------------------------------
Batches == {S \in SUBSET held : S # {} /\ \A g, h \in S : g.job = h.job => g = h}

Calls(c) ==
    \/ \E p \in Processes, n \in 1 .. MaxBatch : ClaimBegin(c, p, n)
    \/ \E p \in Processes, h \in held : RenewBegin(c, p, h)
    \/ \E p \in Processes, items \in Batches : BatchBegin(c, p, items)
    \/ \E p \in Processes : RecoverBegin(c, p)
    \/ Abort(c)
Proceeds(c) ==
    \/ ClaimAgain(c) \/ ClaimQueue(c) \/ ClaimSelect(c) \/ ClaimCommit(c)
    \/ RenewRow(c) \/ BatchRows(c) \/ RecoverRows(c)
Sessions(p) ==
    \/ Register(p) \/ Heartbeat(p) \/ PurgeBrokers(p) \/ Crash(p)
    \/ CloseBegin(p) \/ CloseRelease(p) \/ CloseReleaseFails(p)
    \/ CloseUnregister(p)

Steps ==
    \/ Tick \/ SetPaused
    \/ \E c \in Connections : Calls(c) \/ Proceeds(c)
    \/ \E p \in Processes : Sessions(p)
    \/ \E p \in Processes, h \in held : Complete(p, h) \/ FailJob(p, h)
    \/ \E h \in held : ReleaseClient(h)

Next == Steps /\ UNCHANGED setting
Spec == Init /\ [][Next]_vars

\* A transaction goes on until it commits or is ended; locks are granted in
\* turn.  The interval of recovery fires for ever, the pool gives its
\* connections to the calls in turn, and PostgreSQL does not end every
\* recovery that is tried.
Fairness ==
    /\ \A c \in Connections : SF_system(Proceeds(c)) /\ SF_system(RecoverRows(c))
    /\ \A p \in Processes : SF_system(\E c \in Connections : RecoverBegin(c, p))
FairSpec == Spec /\ Fairness
-----------------------------------------------------------------------------
(***************************************************************************)
(* Properties.                                                             *)
(***************************************************************************)

States == {"waiting", "active", "completed", "failed"}
Row == [state : States, token : 0 .. MaxTokens, until : 0 .. MaxClock + Lease,
        session : Processes \cup {NoProcess}, attempts : 0 .. MaxAttempts,
        stalls : 0 .. MaxAttempts, renewals : 0 .. 1]
LeaseInfo == [job : Jobs, token : 1 .. MaxTokens, via : Processes]
Times == 0 .. MaxClock
Transaction ==
    {NoTx}
    \cup [op : {"claim"}, at : {"again", "queue", "select", "commit"}, proc : Processes,
          now : Times, count : 1 .. MaxBatch, capacity : 0 .. MaxBatch,
          exclusive : BOOLEAN, taken : SUBSET Jobs]
    \cup [op : {"renew"}, at : {"row"}, proc : Processes, now : Times, job : Jobs,
          token : 1 .. MaxTokens]
    \cup [op : {"batch"}, at : {"rows"}, proc : Processes, now : Times,
          items : SUBSET LeaseInfo]
    \cup [op : {"recover"}, at : {"rows"}, proc : Processes, now : Times,
          candidates : SUBSET Jobs]

\* The type invariant: a row without a lease has no token, deadline or
\* session, and nothing is counted beyond its bound.
TypeOK ==
    /\ setting \in Settings
    /\ clock \in Times
    /\ row \in [Jobs -> Row]
    /\ \A j \in Jobs : row[j].state # "active" =>
          row[j].token = 0 /\ row[j].until = 0 /\ row[j].session = NoProcess
    /\ registry \in [BrokerIds -> [session : Processes \cup {NoProcess}, beat : Times]]
    /\ paused \in BOOLEAN
    /\ process \in [Processes -> Serving \cup
                      {"new", "closing", "released", "gone", "leaving", "left", "dead"}]
    /\ DOMAIN tx = Connections /\ \A c \in Connections : tx[c] \in Transaction
    /\ held \subseteq LeaseInfo
    /\ issued \in [Jobs -> 0 .. MaxTokens]
    /\ ends \in [Jobs -> [1 .. MaxTokens -> SUBSET Outcomes]]

\* A delivery ends once: completed or failed by the worker that holds its
\* lease, given back, or recovered, whichever brokers these went through, and
\* while it has not ended the row carries its token (assertToken and the
\* predicates that recovery repeats when it has the rows).
OneEndPerDelivery ==
    /\ TypeOK
    /\ \A j \in Jobs : \A t \in 1 .. MaxTokens :
        /\ Cardinality(ends[j][t]) <= 1
        /\ t <= issued[j] /\ ends[j][t] = {} => row[j].token = t
        /\ row[j].token = t => t = issued[j] /\ ends[j][t] = {}

\* A job is claimed again only while its budget lasts: the runs that failed or
\* whose lease expired are all counted, by whichever broker they were noticed.
Lost(j) == {t \in 1 .. MaxTokens : ends[j][t] \cap {"failed", "expired"} # {}}
Budget ==
    \A j \in Jobs :
        /\ Cardinality(Lost(j)) = row[j].attempts
        /\ row[j].state \in {"waiting", "active"} => Cardinality(Lost(j)) < MaxAttempts
        /\ MaxStalls > 0 /\ row[j].state \in {"waiting", "active"} =>
              Cardinality({t \in Lost(j) : "expired" \in ends[j][t]}) < MaxStalls

\* A broker that has closed, and whose release has gone through, leaves no lease
\* behind that would have to expire: neither its own calls nor a renewal can
\* bring one after the release.
ClosedHoldsNothing ==
    \A p \in Processes : process[p] \in {"released", "gone"} =>
        \A j \in Jobs : row[j].session # p

\* The leases that are live are never more than the concurrency limit, however
\* many brokers claim at once.
LiveLeasesWithinLimit ==
    Limit # NoLimit /\ ~May("renew") => Cardinality({j \in Jobs : Live(j, clock)}) <= Limit

\* A claim takes waiting jobs only: two brokers never deliver the same job at
\* once.
ClaimsTakeWaiting ==
    [][\A j \in Jobs : issued'[j] # issued[j] => row[j].state = "waiting"]_vars

\* Only the process whose session is registered gets leases, by a claim or by a
\* renewal: one that was replaced or purged while it was stopped does not.
OnlyRegisteredLease ==
    [][\A j \in Jobs :
          row'[j].state = "active" /\ row'[j] # row[j] => Registered(row'[j].session)]_vars

\* Nothing is delivered after the pause of the queue has been committed, not
\* even by a claim that had begun before.
PausedClaimsNothing == [][paused => issued' = issued]_vars

\* Every item of a batch that is acknowledged is acknowledged, or none is.
\* The docs: "One invalid token rolls back the complete batch".
BatchIsWhole ==
    [][\A c \in Connections :
          /\ tx[c].op = "batch" /\ tx'[c] = NoTx
          /\ \E h \in tx[c].items : row[h.job].state = "active" /\ row'[h.job].state = "completed"
          => \A h \in tx[c].items : row'[h.job].state \in {"completed", "failed"}]_vars

\* While a broker is up and does maintenance, an expired lease is recovered.
SomeoneMaintains == \E p \in Processes : Maintains(p)
ExpiredIsRecovered ==
    \A j \in Jobs : Expired(j, clock) ~> ~Expired(j, clock) \/ ~SomeoneMaintains
=============================================================================
