------------------------------ MODULE JobFlows ------------------------------
(***************************************************************************)
(* Jobs that wait for other jobs (src/application/dependencyProcessor.ts,  *)
(* dependencyCompletions.ts, operations/parentLink.ts and the queue-       *)
(* manager's flow modules), with the SQLite rows a restart reads.          *)
(*                                                                         *)
(* A job with unmet dependencies is parked in waitingDeps and entered in a *)
(* reverse index.  A completion only puts the id into pendingDepChecks;    *)
(* two checkers, one on a microtask and one on an interval, take that set  *)
(* and look at the waiters in a later section.  A completed job stays in a *)
(* bounded cache, or, with removeOnComplete, leaves a bare proof that is   *)
(* pinned while somebody waits for it and falls out of a bounded queue     *)
(* otherwise.  A child that fails for good acts on its parent in handlers  *)
(* of one or two sections, backed by an outbox that a restart replays.     *)
(*                                                                         *)
(* The write buffer is left to JobStorage, the delivery of a job to        *)
(* JobDelivery: here a write is on disk at once and an outcome is a step.  *)
(***************************************************************************)
EXTENDS Integers, SequencesExt

CONSTANTS
    Jobs,
    None,
    MaxStops,   \* bound: restarts in a behaviour
    Settings    \* the configurations, see SettingType

Options == {"none", "fail", "continue", "ignore", "remove"}
Hazards == {"restart", "cancel", "stale", "bury", "retry", "detach"}

\* A configuration: whether there is a database; the dependencies, the parent
\* and the failure option each job is pushed with; which jobs have
\* removeOnComplete; the sets of jobs pushed in one call; the <<child, parent>>
\* pairs of children pushed under an existing parent (late) and of jobs linked
\* to a parent afterwards (links); maxCompletedJobs; what may go wrong.
SettingType ==
    [storage : BOOLEAN, needs : [Jobs -> SUBSET Jobs], parent : [Jobs -> Jobs \cup {None}],
     option : [Jobs -> Options], removed : SUBSET Jobs, batches : SUBSET SUBSET Jobs,
     late : SUBSET (Jobs \X Jobs), links : SUBSET (Jobs \X Jobs),
     keep : Nat \ {0}, hazards : SUBSET Hazards]

\* A flow is published whole, and a late child has no dependencies of its own.
WellFormed(s) ==
    /\ \A S \in s.batches : \A j \in S : s.parent[j] \in S \cup {None}
    /\ \A e \in s.late : s.needs[e[1]] = {}

ASSUME FlowAssumption ==
    /\ None \notin Jobs /\ IsFiniteSet(Jobs) /\ MaxStops \in Nat
    /\ Settings \subseteq SettingType /\ \A s \in Settings : WellFormed(s)

VARIABLES
    setting,    \* the configuration, chosen once
    up,         \* "up", "down", or "replaying": startup between recovery and service
    stops,      \* restarts so far
    \* memory
    place,      \* where a job is: the jobIndex with the two kinds of queue told apart
    needs,      \* dependsOn; the column of the row says the same
    parent,     \* parentId; likewise
    index,      \* dependencyIndex, as the set of <<dependency, waiter>>
    completed,  \* completedJobs, oldest first
    pending,    \* pendingDepChecks
    checker,    \* the runs of processPendingDependencies under way
    handler,    \* the failure handlers under way, as <<parent, child, next section>>
    \* memory and disk
    proofs,     \* dependency completions: two tiers in memory, the table, its sequence
    \* disk
    row,        \* the state of the jobs row, "dlq" for a dlq row, "none"
    finished,   \* the rows of completed jobs by completedAt
    outbox,     \* flow_failures, as the set of <<parent, child>>
    replay,     \* those that startup has not replayed yet
    \* histories
    done,       \* jobs that have completed
    forced,     \* jobs that an operator has retried out of the DLQ
    reported    \* children whose failure was reported with an option for a parent

memory == <<place, needs, parent, index, completed, pending, checker, handler>>
disk == <<row, finished, outbox, replay>>
histories == <<done, forced, reported>>
system == <<setting, up, stops>>
vars == <<system, memory, proofs, disk, histories>>

Checkers == {"flush", "interval"}
Idle == [busy |-> FALSE, now |-> {}, todo |-> {}, freed |-> {}]
Places == {"new", "queued", "waiting", "active", "completed", "dlq", "gone"}
InQueue(j) == place[j] \in {"queued", "waiting"}    \* jobIndex type 'queue'

May(hazard) == hazard \in setting.hazards
OnDisk(state) == IF setting.storage THEN state ELSE "none"
ReadyState(N) == IF N = {} THEN "ready" ELSE "waiting-children"
SetRow(j, state) == row' = [row EXCEPT ![j] = OnDisk(state)]
Put(j, where) == place' = [place EXCEPT ![j] = where]

-----------------------------------------------------------------------------
(* The reverse index. *)

Edges(j, N) == {<<d, j>> : d \in N}
Unregistered(j) == {e \in index : e[2] # j}
Awaited(idx) == {e[1] : e \in idx}

-----------------------------------------------------------------------------
(* Proofs of completion: DependencyCompletionTracker and its table. *)

Proven == proofs.pinned \cup proofs.recent

\* What the checks of readiness accept.
Available(d) == d \in Range(completed) \cup Proven

Pin(S, p) == [p EXCEPT !.recent = @ \ S, !.pinned = @ \cup S]

\* The records a tier does not have yet go to the end of the order.
Enter(S, p) == [p EXCEPT !.log = @ \o SetToSeq(S \ p.recent)]

\* A record's place in the order: its token, or its autoincremented sequence.
Sequence(d, p) == Max({i \in DOMAIN p.log : p.log[i] = d})

Youngest(n, S, p) ==
    {d \in S : Cardinality({e \in S : Sequence(e, p) > Sequence(d, p)}) < n}

\* add, of records that have been entered: a full tier evicts its oldest ones,
\* in the table as well unless the table has them pinned.
Retain(S, p) ==
    LET kept == Youngest(setting.keep, p.recent \cup (S \ p.pinned), p) IN
    [p EXCEPT !.recent = kept,
              !.table = [d \in Jobs |-> IF d \in p.recent \ kept /\ @[d] # "pinned"
                                       THEN "none" ELSE @[d]]]

MarkTable(S, mark, p) ==
    [p EXCEPT !.table = [d \in Jobs |-> IF d \in S /\ @[d] # "none" THEN mark ELSE @[d]]]

Latest(p) == Max({Sequence(d, p) : d \in {e \in Jobs : p.table[e] # "none"}} \cup {0})

PruneThrough(last, p) ==
    [p EXCEPT !.table =
        [d \in Jobs |-> IF @[d] = "recent" /\ Sequence(d, p) <= last THEN "none" ELSE @[d]]]

\* Memory takes over what the table has kept.
Hydrate(p) ==
    [p EXCEPT !.recent = {d \in Jobs : p.table[d] = "recent"},
              !.pinned = {d \in Jobs : p.table[d] = "pinned"}]

\* commitRemovedCompletion
Prove(d) ==
    LET pinned == d \in Awaited(index)
        entered == Enter({d}, proofs)
        logged == [entered EXCEPT !.table[d] = IF pinned THEN "pinned" ELSE "recent"]
        stored == IF setting.storage
                  THEN PruneThrough(Len(logged.log) - setting.keep, logged) ELSE entered
    IN IF pinned THEN Pin({d}, stored) ELSE Retain({d}, stored)

\* Mutant of Unawaited: a proof is given up with the first of its waiters.
AllOfThem(S, idx) == S

Unawaited(S, idx) == S \ Awaited(idx)

\* releaseDependencyCompletionPins, with the index as the release finds it.
\* Without a database every candidate becomes a recent proof.
Release(S, idx) ==
    LET free == Unawaited(S, idx)
        freed == [proofs EXCEPT !.pinned = @ \ free]
    IN
    IF free = {} THEN proofs
    ELSE IF setting.storage
    THEN LET unpinned == MarkTable(free, "recent", proofs)
         IN Hydrate(PruneThrough(Latest(unpinned) - setting.keep, unpinned))
    ELSE Retain(free, Enter(free, freed))

\* reconcileDependencyCompletionPins, which only startup calls.
Reconcile(idx) ==
    LET unpinned == MarkTable(Jobs, "recent", proofs)
        pinned == MarkTable(Awaited(idx), "pinned", unpinned)
    IN Hydrate(PruneThrough(Latest(pinned) - setting.keep, pinned))

-----------------------------------------------------------------------------
(* Admission. *)

Exists(d) == place[d] \notin {"new", "gone"} \/ Available(d)

\* A push, or a flow that is published in one section.  The server refuses
\* dependencies it does not know.  Proofs that a parked job rests on are pinned;
\* in the table only by a push of one job, whose insert carries them along.
Push(S) ==
    LET parked == {j \in S : \E d \in needs[j] : ~Available(d)}
        held == {d \in Proven : \E j \in parked : d \in needs[j]}
    IN
    /\ up = "up" /\ S \in setting.batches
    /\ \A j \in S : place[j] = "new" /\ \A d \in needs[j] : d \in S \/ Exists(d)
    /\ place' = [j \in Jobs |-> IF j \in parked THEN "waiting"
                                ELSE IF j \in S THEN "queued" ELSE place[j]]
    /\ row' = [j \in Jobs |-> IF j \in parked THEN OnDisk("waiting-children")
                              ELSE IF j \in S THEN OnDisk("ready") ELSE row[j]]
    /\ index' = index \cup UNION {Edges(j, needs[j]) : j \in parked}
    /\ proofs' = IF Cardinality(S) = 1 THEN MarkTable(held, "pinned", Pin(held, proofs))
                 ELSE Pin(held, proofs)
    /\ UNCHANGED <<system, needs, parent, completed, pending, checker, handler,
                   finished, outbox, replay, histories>>

\* acceptParentedJob: a new child without dependencies of its own; the parent
\* is parked again, on all its dependencies.
AddChild(c, p) ==
    /\ up = "up" /\ <<c, p>> \in setting.late
    /\ place[c] = "new" /\ InQueue(p)
    /\ place' = [place EXCEPT ![c] = "queued", ![p] = "waiting"]
    /\ parent' = [parent EXCEPT ![c] = p]
    /\ needs' = [needs EXCEPT ![p] = @ \cup {c}]
    /\ index' = index \cup Edges(p, needs[p] \cup {c})
    /\ row' = [row EXCEPT ![c] = OnDisk("ready"), ![p] = OnDisk("waiting-children")]
    /\ UNCHANGED <<system, completed, pending, checker, handler, proofs,
                   finished, outbox, replay, histories>>

\* updateJobParent of a job that is not yet a child.  A child that has finished
\* leaves the parent where it is, but its row says that the parent is ready
\* (parentLinkState).  A child in the DLQ runs its failure handler.
Link(c, p) ==
    /\ up = "up" /\ <<c, p>> \in setting.links
    /\ place[c] \notin {"new", "gone"} /\ InQueue(p)
    /\ parent[c] = None /\ c \notin needs[p]
    /\ parent' = [parent EXCEPT ![c] = p]
    /\ needs' = [needs EXCEPT ![p] = @ \cup {c}]
    /\ IF Available(c)
       THEN SetRow(p, "ready") /\ UNCHANGED <<place, index>>
       ELSE /\ Put(p, "waiting") /\ SetRow(p, "waiting-children")
            /\ index' = index \cup Edges(p, needs[p] \cup {c})
    /\ LET fails == place[c] = "dlq" /\ setting.option[c] # "none" IN
       /\ handler' = IF fails THEN handler \cup {<<p, c, "section">>} ELSE handler
       /\ reported' = IF fails THEN reported \cup {c} ELSE reported
    /\ UNCHANGED <<system, completed, pending, checker, proofs, finished, outbox,
                   replay, done, forced>>

-----------------------------------------------------------------------------
(* Delivery and outcomes. *)

Pull(j) ==
    /\ up = "up" /\ place[j] = "queued"
    /\ Put(j, "active") /\ SetRow(j, "active")
    /\ UNCHANGED <<system, needs, parent, index, completed, pending, checker, handler,
                   proofs, finished, outbox, replay, histories>>

\* deleteFlowFailure(parent), and the deletion of a jobs row with what hangs on it
ForgetFailuresOf(p) == {r \in outbox : r[1] # p}

\* completedJobs is bounded, and an entry that falls out leaves the job index.
Keep(j) ==
    LET full == Len(completed) = setting.keep
        kept == IF full THEN Tail(completed) ELSE completed
    IN
    /\ completed' = Append(kept, j)
    /\ place' = [i \in Jobs |-> IF i = j THEN "completed"
                                ELSE IF full /\ i = Head(completed) THEN "gone" ELSE place[i]]
    /\ finished' = IF setting.storage THEN Append(finished, j) ELSE finished
    /\ SetRow(j, "completed")
    /\ UNCHANGED proofs

\* The last section of ackJob.
Complete(j) ==
    /\ up = "up" /\ place[j] = "active"
    /\ IF j \in setting.removed
       THEN /\ Put(j, "gone") /\ SetRow(j, "none") /\ proofs' = Prove(j)
            /\ UNCHANGED <<completed, finished>>
       ELSE Keep(j)
    /\ pending' = pending \cup {j}
    /\ outbox' = ForgetFailuresOf(j)
    /\ done' = done \cup {j}
    /\ UNCHANGED <<system, needs, parent, index, checker, handler, replay, forced, reported>>

Retry(j) ==
    /\ up = "up" /\ place[j] = "active"
    /\ Put(j, "queued") /\ SetRow(j, "ready")
    /\ UNCHANGED <<system, needs, parent, index, completed, pending, checker, handler,
                   proofs, finished, outbox, replay, histories>>

\* flowFailureRecord: the failure is told to a parent; a handler follows
Told(j) == parent[j] # None /\ setting.option[j] # "none"

\* Mutant of Record: only failures that are fatal for the parent are recorded.
RecordIfFatal(j) ==
    IF Told(j) /\ setting.storage /\ setting.option[j] = "fail" THEN {<<parent[j], j>>} ELSE {}

Record(j) == IF Told(j) /\ setting.storage THEN {<<parent[j], j>>} ELSE {}

\* failJob without a retry left, into the DLQ or with removeOnFail: one
\* transaction with the outbox record, then the handler of the child's option.
Fail(j, end) ==
    /\ up = "up" /\ place[j] = "active"
    /\ Put(j, end) /\ SetRow(j, IF end = "dlq" THEN "dlq" ELSE "none")
    /\ outbox' = ForgetFailuresOf(j) \cup Record(j)
    /\ handler' = IF Told(j) THEN handler \cup {<<parent[j], j, "section">>} ELSE handler
    /\ reported' = IF Told(j) THEN reported \cup {j} ELSE reported
    /\ UNCHANGED <<system, needs, parent, index, completed, pending, checker, proofs,
                   finished, replay, done, forced>>

\* Stall detection gives a job up: no record, no handler.
Bury(j) ==
    /\ up = "up" /\ May("bury") /\ place[j] = "active"
    /\ Put(j, "dlq") /\ SetRow(j, "dlq")
    /\ outbox' = ForgetFailuresOf(j)
    /\ UNCHANGED <<system, needs, parent, index, completed, pending, checker, handler,
                   proofs, finished, replay, histories>>

\* A retry out of the DLQ goes straight to the queue.
RetryDlq(j) ==
    /\ up = "up" /\ May("retry") /\ place[j] = "dlq"
    /\ Put(j, "queued") /\ SetRow(j, "ready")
    /\ forced' = forced \cup {j}
    /\ reported' = reported \ {j}
    /\ UNCHANGED <<system, needs, parent, index, completed, pending, checker, handler,
                   proofs, finished, outbox, replay, done>>

-----------------------------------------------------------------------------
(* Removal. *)

\* The job leaves with its edges; what it waited for may lose its pin.
Discard(j) ==
    /\ Put(j, "gone") /\ SetRow(j, "none")
    /\ index' = Unregistered(j)
    /\ proofs' = IF place[j] = "waiting" THEN Release(needs[j], index') ELSE proofs
    /\ outbox' = ForgetFailuresOf(j)
    /\ UNCHANGED <<system, needs, parent, completed, pending, checker, handler,
                   finished, replay, histories>>

Cancel(j) == up = "up" /\ May("cancel") /\ InQueue(j) /\ Discard(j)

\* cleanStaleWaitingDependencies, an hour after the push
DropStale(j) == up = "up" /\ May("stale") /\ place[j] = "waiting" /\ Discard(j)

\* removeChildDependency: with the child go the dependencies that are resolved.
Detach(c) ==
    LET p == parent[c]
        left == {d \in needs[p] \ {c} : ~Available(d)}
        freed == needs[p] \ left
    IN
    /\ up = "up" /\ May("detach") /\ p # None
    /\ InQueue(c) \/ place[c] = "active"
    /\ place[p] = "waiting" /\ c \in needs[p]
    /\ parent' = [parent EXCEPT ![c] = None]
    /\ needs' = [needs EXCEPT ![p] = left]
    /\ index' = index \ Edges(p, freed)
    /\ IF left = {} THEN Put(p, "queued") ELSE UNCHANGED place
    /\ SetRow(p, ReadyState(left))
    /\ proofs' = Release(freed, index')
    /\ outbox' = outbox \ {<<p, c>>}
    /\ UNCHANGED <<system, completed, pending, checker, handler, finished, replay, histories>>

-----------------------------------------------------------------------------
(* processPendingDependencies: the pending ids and their waiters are taken at *)
(* once, the waiters looked at under the locks of their shards, and the pins  *)
(* of all released edges given up at the end.                                 *)

Snapshot(k) ==
    LET todo == {e[2] : e \in {f \in index : f[1] \in pending}} IN
    /\ up = "up" /\ ~checker[k].busy /\ pending # {}
    /\ pending' = {}
    /\ checker' = [checker EXCEPT ![k] = [Idle EXCEPT !.busy = todo # {}, !.todo = todo,
                                                      !.now = IF todo = {} THEN {} ELSE pending]]
    /\ UNCHANGED <<system, place, needs, parent, index, completed, handler, proofs, disk,
                   histories>>

\* Mutant of MetFor: the check asks the completed jobs and forgets the proofs.
MetByCompletedJobs(k, j) ==
    \A d \in needs[j] : d \in checker[k].now \cup Range(completed)

MetFor(k, j) == \A d \in needs[j] : d \in checker[k].now \/ Available(d)

Check(k, j) ==
    /\ up = "up" /\ j \in checker[k].todo
    /\ IF place[j] = "waiting" /\ MetFor(k, j)
       THEN /\ Put(j, "queued") /\ SetRow(j, "ready")
            /\ index' = Unregistered(j)
            /\ checker' = [checker EXCEPT ![k].todo = @ \ {j}, ![k].freed = @ \cup needs[j]]
       ELSE /\ checker' = [checker EXCEPT ![k].todo = @ \ {j}]
            /\ UNCHANGED <<place, row, index>>
    /\ UNCHANGED <<system, needs, parent, completed, pending, handler, proofs, finished,
                   outbox, replay, histories>>

FinishCheck(k) ==
    /\ up = "up" /\ checker[k].busy /\ checker[k].todo = {}
    /\ proofs' = Release(checker[k].freed, index)
    /\ checker' = [checker EXCEPT ![k] = Idle]
    /\ UNCHANGED <<system, place, needs, parent, index, completed, pending, handler, disk,
                   histories>>

-----------------------------------------------------------------------------
(* What the failure of a child does to its parent. *)

AtSection(p, c) == up = "up" /\ <<p, c, "section">> \in handler
PromoteNext(p, c) == handler' = (handler \ {<<p, c, "section">>}) \cup {<<p, c, "promote">>}
EndSection(p, c) == handler' = handler \ {<<p, c, "section">>}

\* A record of mode 'remove' has served its purpose when the parent is freed of
\* the child; the other modes keep theirs while the parent lives.
Settled(r) == IF setting.option[r[2]] = "remove" THEN outbox \ {r} ELSE outbox

\* The parent has left the queues and nothing happens.  The record stays; but
\* one of mode 'remove' goes when the parent left on the way to its lock.
ParentLeft(p, c) ==
    /\ AtSection(p, c) /\ ~InQueue(p)
    /\ EndSection(p, c)
    /\ outbox' \in {outbox, Settled(<<p, c>>)}
    /\ UNCHANGED <<system, place, needs, parent, index, completed, pending, checker, proofs,
                   row, finished, replay, histories>>

\* moveParentToFailed
FailParent(p, c) ==
    /\ AtSection(p, c) /\ InQueue(p) /\ setting.option[c] = "fail"
    /\ Put(p, "dlq") /\ SetRow(p, "dlq")
    /\ index' = Unregistered(p)
    /\ proofs' = IF place[p] = "waiting" THEN Release(needs[p], index') ELSE proofs
    /\ outbox' = ForgetFailuresOf(p)
    /\ EndSection(p, c)
    /\ UNCHANGED <<system, needs, parent, completed, pending, checker, finished, replay, histories>>

\* continueParentOnChildFailure, its first section
FreeParent(p, c) ==
    /\ AtSection(p, c) /\ InQueue(p) /\ setting.option[c] = "continue"
    /\ needs' = [needs EXCEPT ![p] = {}]
    /\ index' = Unregistered(p)
    /\ SetRow(p, "ready")
    /\ proofs' = Release(needs[p], index')
    /\ PromoteNext(p, c)
    /\ UNCHANGED <<system, place, parent, completed, pending, checker, finished, outbox, replay,
                   histories>>

\* removeChildFromParentDeps, its first section.  It asks the completed jobs
\* whether the parent is ready, not the proofs.
RemoveFromParent(p, c) ==
    LET left == needs[p] \ {c}
        waits == place[p] = "waiting"
        ready == waits /\ left \subseteq Range(completed)
    IN
    /\ AtSection(p, c) /\ InQueue(p) /\ setting.option[c] \in {"ignore", "remove"}
    /\ IF waits /\ c \in needs[p]
       THEN /\ needs' = [needs EXCEPT ![p] = left]
            /\ index' = index \ {<<c, p>>}
            /\ SetRow(p, ReadyState(left))
            /\ proofs' = Release({c}, index')
       ELSE UNCHANGED <<needs, index, row, proofs>>
    /\ IF ready THEN PromoteNext(p, c) ELSE EndSection(p, c)
    /\ outbox' = IF ready THEN outbox ELSE Settled(<<p, c>>)
    /\ UNCHANGED <<system, place, parent, completed, pending, checker, finished, replay, histories>>

\* promoteParentAfterChildFailure, after a timer of no duration
Promote(p, c) ==
    /\ up = "up" /\ <<p, c, "promote">> \in handler
    /\ IF place[p] = "waiting"
       THEN /\ Put(p, "queued") /\ SetRow(p, ReadyState(needs[p]))
            /\ index' = Unregistered(p)
            /\ proofs' = Release(needs[p], index')
       ELSE UNCHANGED <<place, row, index, proofs>>
    /\ handler' = handler \ {<<p, c, "promote">>}
    /\ outbox' = Settled(<<p, c>>)
    /\ UNCHANGED <<system, needs, parent, completed, pending, checker, finished, replay, histories>>

-----------------------------------------------------------------------------
(* Crash and startup. *)

Crash ==
    /\ up # "down" /\ setting.storage /\ May("restart") /\ stops < MaxStops
    /\ up' = "down" /\ stops' = stops + 1
    /\ UNCHANGED <<setting, memory, proofs, disk, histories>>

\* The newest completed rows, in the order in which they enter the cache.
Newest(s, n) == [i \in 1 .. IF Len(s) < n THEN Len(s) ELSE n |-> s[Len(s) + 1 - i]]

\* Mutant of ProvenOnDisk: a dependency in the DLQ counts as completed.
ProvenByAnyEnd(d) == proofs.table[d] # "none" \/ row[d] \in {"completed", "dlq"}

\* loadDependencyCompletions and loadCompletedJobIds
ProvenOnDisk(d) == proofs.table[d] # "none" \/ row[d] = "completed"

\* recover: interrupted jobs are queued again, or buried when their attempts are
\* used up (exhausted); parked rows are judged by the table of proofs and by the
\* completed rows; a row that says it is ready is queued without a look at its
\* dependencies.
Recover(exhausted) ==
    LET parked == {j \in Jobs : row[j] = "waiting-children"
                                 /\ \E d \in needs[j] : ~ProvenOnDisk(d)}
        runnable == {j \in Jobs \ (parked \cup exhausted) :
                        row[j] \in {"ready", "waiting-children", "active"}}
        cache == Newest(finished, setting.keep)
    IN
    /\ up = "down" /\ up' = "replaying"
    /\ exhausted \subseteq {j \in Jobs : row[j] = "active"}
    /\ place' = [j \in Jobs |-> IF j \in parked THEN "waiting"
                                ELSE IF j \in runnable THEN "queued"
                                ELSE IF j \in exhausted \/ row[j] = "dlq" THEN "dlq"
                                ELSE IF j \in Range(cache) THEN "completed"
                                ELSE IF place[j] = "new" THEN "new" ELSE "gone"]
    /\ row' = [j \in Jobs |-> IF j \in runnable THEN "ready"
                              ELSE IF j \in exhausted THEN "dlq" ELSE row[j]]
    /\ index' = UNION {Edges(j, needs[j]) : j \in parked}
    /\ completed' = cache
    /\ proofs' = Reconcile(index')
    /\ outbox' = {r \in outbox : r[1] \notin exhausted}
    /\ replay' = outbox'
    /\ pending' = {} /\ checker' = [k \in Checkers |-> Idle]
    /\ handler' = {}
    /\ UNCHANGED <<setting, stops, needs, parent, finished, histories>>

Replayed(r) == replay' = replay \ {r}

\* recoverFlowFailures, record by record
ReplayFail(r) ==
    LET p == r[1] IN
    /\ setting.option[r[2]] = "fail" /\ InQueue(p)
    /\ Put(p, "dlq") /\ SetRow(p, "dlq")
    /\ index' = Unregistered(p)
    /\ outbox' = outbox \ {r}
    /\ UNCHANGED needs

ReplayContinue(r) ==
    LET p == r[1] IN
    /\ setting.option[r[2]] = "continue" /\ InQueue(p)
    /\ needs' = [needs EXCEPT ![p] = {}]
    /\ index' = Unregistered(p)
    /\ Put(p, "queued") /\ SetRow(p, "ready")
    /\ UNCHANGED outbox

ReplayRemove(r) ==
    LET p == r[1]
        left == needs[p] \ {r[2]}
        ready == \A d \in left : Available(d)
    IN
    /\ setting.option[r[2]] \in {"ignore", "remove"} /\ InQueue(p)
    /\ needs' = [needs EXCEPT ![p] = left]
    /\ IF ready THEN Put(p, "queued") /\ index' = Unregistered(p)
       ELSE index' = index \ {<<r[2], p>>} /\ UNCHANGED place
    /\ IF ready \/ r[2] \in needs[p] THEN SetRow(p, ReadyState(left)) ELSE UNCHANGED row
    /\ outbox' = Settled(r)

ReplayOrphan(r) ==
    /\ ~InQueue(r[1])
    /\ outbox' = outbox \ {r}
    /\ UNCHANGED <<place, needs, index, row>>

Replay(r) ==
    /\ up = "replaying" /\ r \in replay
    /\ ReplayFail(r) \/ ReplayContinue(r) \/ ReplayRemove(r) \/ ReplayOrphan(r)
    /\ Replayed(r)
    /\ UNCHANGED <<system, parent, completed, pending, checker, handler, proofs, finished,
                   histories>>

Serve ==
    /\ up = "replaying" /\ replay = {}
    /\ up' = "up"
    /\ proofs' = Reconcile(index)
    /\ UNCHANGED <<setting, stops, memory, disk, histories>>

-----------------------------------------------------------------------------
Init ==
    /\ setting \in Settings
    /\ up = "up" /\ stops = 0
    /\ place = [j \in Jobs |-> "new"] /\ row = [j \in Jobs |-> "none"]
    /\ needs = setting.needs /\ parent = setting.parent
    /\ index = {} /\ completed = <<>> /\ pending = {}
    /\ checker = [k \in Checkers |-> Idle]
    /\ handler = {}
    /\ proofs = [recent |-> {}, pinned |-> {}, log |-> <<>>,
                 table |-> [d \in Jobs |-> "none"]]
    /\ finished = <<>> /\ outbox = {} /\ replay = {}
    /\ done = {} /\ forced = {} /\ reported = {}

Outcomes(j) ==
    Pull(j) \/ Complete(j) \/ Retry(j) \/ (\E end \in {"dlq", "gone"} : Fail(j, end))
    \/ Bury(j) \/ RetryDlq(j)

Section(p, c) ==
    ParentLeft(p, c) \/ FailParent(p, c) \/ FreeParent(p, c) \/ RemoveFromParent(p, c)
Checking(k) == (\E j \in Jobs : Check(k, j)) \/ FinishCheck(k)
Startup == (\E S \in SUBSET Jobs : Recover(S)) \/ (\E r \in outbox : Replay(r)) \/ Serve

Next ==
    \/ \E S \in setting.batches : Push(S)
    \/ \E c, p \in Jobs : AddChild(c, p) \/ Link(c, p)
    \/ \E j \in Jobs : Outcomes(j) \/ Cancel(j) \/ DropStale(j) \/ Detach(j)
    \/ \E k \in Checkers : Snapshot(k) \/ Checking(k)
    \/ \E p, c \in Jobs : Section(p, c) \/ Promote(p, c)
    \/ Crash \/ Startup

Spec == Init /\ [][Next]_vars

\* The microtask that takes the pending ids, the sections of checks and handlers
\* that have begun, and startup.  Nothing is asked of workers and callers, or of
\* the interval.
FairSpec ==
    /\ Spec
    /\ WF_vars(Snapshot("flush"))
    /\ \A k \in Checkers : WF_vars(Checking(k))
    /\ \A p, c \in Jobs : WF_vars(Section(p, c)) /\ WF_vars(Promote(p, c))
    /\ WF_vars(Startup)

-----------------------------------------------------------------------------
TypeOK ==
    /\ setting \in Settings /\ up \in {"up", "down", "replaying"} /\ stops \in 0 .. MaxStops
    /\ place \in [Jobs -> Places]
    /\ row \in [Jobs -> {"none", "ready", "waiting-children", "active", "completed", "dlq"}]
    /\ needs \in [Jobs -> SUBSET Jobs] /\ parent \in [Jobs -> Jobs \cup {None}]
    /\ index \subseteq Jobs \X Jobs
    /\ completed \in Seq(Jobs) /\ Len(completed) <= setting.keep
    /\ finished \in Seq(Jobs) /\ pending \subseteq Jobs
    /\ checker \in [Checkers -> [busy : BOOLEAN, now : SUBSET Jobs, todo : SUBSET Jobs,
                                 freed : SUBSET Jobs]]
    /\ handler \subseteq Jobs \X Jobs \X {"section", "promote"}
    /\ proofs.recent \subseteq Jobs /\ Cardinality(proofs.recent) <= setting.keep
    /\ proofs.pinned \subseteq Jobs /\ proofs.log \in Seq(Jobs)
    /\ proofs.table \in [Jobs -> {"none", "recent", "pinned"}]
    /\ outbox \subseteq Jobs \X Jobs /\ replay \subseteq outbox
    /\ done \subseteq Jobs /\ forced \subseteq Jobs /\ reported \subseteq Jobs

\* No job is offered to workers before every job it depends on has completed,
\* whatever was removed, evicted, linked later, cancelled or lost in a restart;
\* unless an operator has retried it out of the DLQ.
NoEarlyStart ==
    \A j \in Jobs \ forced : place[j] \in {"queued", "active"} => needs[j] \subseteq done

\* A proof that neither a later completion nor a restart can push out.
PinnedFor(d) == d \in proofs.pinned /\ (setting.storage => proofs.table[d] = "pinned")

\* No step gives up a pin that a registered edge needs: not the release of
\* another waiter's edges, nor a new proof, a push, a crash or a startup.
PinsHold ==
    [][\A d \in Jobs : d \in Awaited(index') /\ PinnedFor(d) => PinnedFor(d)']_vars

\* A parent does not go on waiting for a child whose failure was reported and
\* that has an option: the handler is under way, or the record is in the outbox
\* that startup replays.
FailureReachesParent ==
    \A c \in reported : LET p == parent[c] IN
        place[p] = "waiting" /\ c \in needs[p] =>
            \/ up = "up" /\ <<p, c, "section">> \in handler
            \/ up = "down" /\ <<p, c>> \in outbox
            \/ up = "replaying" /\ <<p, c>> \in replay

\* A job whose dependencies have all completed does not stay parked, whatever
\* meets its checks: another completion, a new waiter, an evicted proof, a late
\* child or a restart.
ReadyIsPromoted ==
    \A j \in Jobs : []<>~(place[j] = "waiting" /\ needs[j] \subseteq done)
=============================================================================
