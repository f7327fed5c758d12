-------------------------- MODULE JobStorageProofs --------------------------
(***************************************************************************)
(* Proofs about JobStorage, for any finite set of jobs, any budgets, any   *)
(* size of the buffer and any of the hazards: the tables mirror memory,    *)
(* a durable job stays on disk, no failed flush forgets a job, no job runs *)
(* more often than its attempts allow however often the process dies, and  *)
(* a completed job does not run again.                                     *)
(*                                                                         *)
(* The invariant speaks of one job at a time.  A step is an operation on a *)
(* single job, except that the flush of the buffer that it may cause       *)
(* touches all others: for these only three things can happen (Flushed),   *)
(* so one lemma (AsideKeeps) deals with them once and for all, and each    *)
(* operation has one lemma about its own job.                              *)
(***************************************************************************)
EXTENDS JobStorage, TLAPS

-----------------------------------------------------------------------------
(***************************************************************************)
(* The invariant of a job.                                                 *)
(***************************************************************************)

\* The row a job has, or would get if the buffer were flushed.
DiskRow(k) == IF k \in store.pending THEN RowOf(store, object, k) ELSE store.rows[k]

\* A job that is buffered has no row yet, and one that can run, or is being
\* removed, was not completed.
RowsSound(k) ==
    /\ store.rows[k].state = "none" => store.rows[k] = NoRow
    /\ k \in store.pending => store.rows[k] = NoRow /\ (store.dlq[k] > 0 => k \in unlinking)
    /\ k \in queued \cup processing \cup unlinking => DiskRow(k).state # "completed"

\* The index follows the collections; only a torn discard leaves a waiting job
\* that the index puts elsewhere.
Placed(k) ==
    /\ ~(k \in queued /\ k \in processing)
    /\ k \in processing => jobIndex[k] = "processing" /\ runs[k] > 0
    /\ k \in queued => jobIndex[k] = "queue" \/ (May("torn") /\ jobIndex[k] \in {"dlq", "none"})
    /\ k \in unlinking =>
          /\ unlinking = {k} /\ store.dlq[k] > 0
          /\ k \notin queued \cup processing /\ jobIndex[k] # "completed"

\* A job that was never admitted has left no trace.
Fresh(k) ==
    k \notin admitted =>
        /\ k \notin queued \cup processing \cup unlinking \cup durable \cup finished
        /\ k \notin store.pending \cup store.lost
        /\ store.rows[k] = NoRow /\ store.mark[k] = "none" /\ store.dlq[k] = 0
        /\ memDlq[k] = 0 /\ object[k] = NewObject /\ runs[k] = 0

\* A process that does not run has nothing in memory; one that recovers is
\* removing at most an interrupted job.
Stopped(k) ==
    /\ up # "up" => k \notin queued \cup processing \cup store.pending /\ jobIndex[k] = "none"
    /\ up = "down" => k \notin unlinking
    /\ up = "recovering" /\ k \in unlinking => store.rows[k].state = "active"

\* Without a torn discard, a job in both tables is one that recovery deletes.
InOneTable(k) ==
    ~May("torn") /\ store.rows[k] # NoRow /\ store.dlq[k] > 0 =>
        k \in unlinking \/ (store.rows[k].state = "active" /\ k \notin queued \cup processing)

\* DurableSurvives and NothingSilentlyLost, of one job
Survives(k) == k \in durable => store.rows[k] # NoRow \/ store.dlq[k] > 0
NotForgotten(k) ==
    ~May("torn") /\ k \in queued \cup processing =>
        k \in store.pending \cup store.lost \/ store.rows[k] # NoRow

\* What the row of a job says, or will say, is what memory says.
Mirrored(k) ==
    /\ up = "up" /\ k \notin unlinking =>
        /\ \/ DiskRow(k).state = MemoryState(k)
           \/ k \notin store.pending /\ store.rows[k] = NoRow /\ (k \in store.lost \/ May("torn"))
        /\ MemoryState(k) \in {"waiting", "active"} /\ store.rows[k] # NoRow =>
              store.rows[k].attempts = object[k].attempts /\ store.rows[k].stalls = object[k].stalls
    /\ ~May("torn") /\ k \notin store.lost =>
        store.dlq[k] <= 1 /\ (up = "up" => memDlq[k] = store.dlq[k])

\* n deliveries are covered by the attempts that have been counted.
Covers(state, attempts, n) ==
    /\ state = "waiting" => n <= attempts /\ attempts < MaxAttempts
    /\ state = "active" => n <= attempts + 1 /\ attempts < MaxAttempts

\* The attempts that memory or the row counts cover the deliveries, so a
\* restart can start from either.
Budgeted(k) ==
    /\ runs[k] <= MaxAttempts
    /\ Covers(store.rows[k].state, store.rows[k].attempts, runs[k])
    /\ k \in queued => Covers("waiting", object[k].attempts, runs[k])
    /\ k \in processing => Covers("active", object[k].attempts, runs[k])

NeverRevived(k) == k \in finished => k \notin queued \cup processing /\ DiskRow(k).state \in {"none", "completed"}

JobInv(k) ==
    /\ RowsSound(k) /\ Placed(k) /\ Fresh(k) /\ Stopped(k)
    /\ InOneTable(k) /\ Survives(k) /\ NotForgotten(k)
    /\ ~May("write") => Mirrored(k) /\ Budgeted(k) /\ NeverRevived(k)

IInv == TypeOK /\ \A k \in Jobs : JobInv(k)

-----------------------------------------------------------------------------
(***************************************************************************)
(* The operators of the store, by what they do to the entries of each job. *)
(***************************************************************************)

Stores == [pending : SUBSET Jobs, mark : [Jobs -> RowStates \cup {"none"}],
           retries : 0..(MaxRetries - 1), backoff : BOOLEAN, rows : [Jobs -> Rows],
           dlq : [Jobs -> Nat], lost : SUBSET Jobs]
Objects == [Jobs -> [attempts : Nat, stalls : Nat]]

SameBuffer(s, t, k) == (k \in t.pending <=> k \in s.pending) /\ (k \in t.lost <=> k \in s.lost)
SameTables(s, t, k) == t.rows[k] = s.rows[k] /\ t.dlq[k] = s.dlq[k]
Untouched(s, t, k) == SameBuffer(s, t, k) /\ SameTables(s, t, k) /\ t.mark[k] = s.mark[k]

\* A flush writes a job, fails to, or gives the job up.
Landed(s, t, obj, k) ==
    /\ k \in s.pending /\ k \notin t.pending /\ (k \in t.lost <=> k \in s.lost)
    /\ t.rows[k] = RowOf(s, obj, k) /\ t.dlq[k] = s.dlq[k]
GivenUp(s, t, k) ==
    /\ k \in s.pending /\ k \notin t.pending /\ k \in t.lost
    /\ t.rows[k] = s.rows[k] /\ t.dlq[k] \in {s.dlq[k], s.dlq[k] + 1}
Flushed(s, t, obj, k) ==
    /\ t.mark[k] = s.mark[k]
    /\ \/ SameBuffer(s, t, k) /\ SameTables(s, t, k)
       \/ Landed(s, t, obj, k)
       \/ GivenUp(s, t, k)

LEMMA BufferTyped == 0 \in 0..(MaxRetries - 1) /\ MaxRetries \in Nat
  BY BufferAssumption

LEMMA NoRowTyped == NoRow \in Rows
  BY DEF NoRow, Rows

LEMMA RowOfTyped ==
    ASSUME NEW s \in Stores, NEW obj \in Objects, NEW k \in Jobs
    PROVE  RowOf(s, obj, k) \in Rows /\ RowOf(s, obj, k) # NoRow
  BY DEF RowOf, Stores, Objects, Rows, RowStates, NoRow

LEMMA EmptyBufferEffect ==
    ASSUME NEW s \in Stores
    PROVE  /\ EmptyBuffer(s) \in Stores
           /\ EmptyBuffer(s).pending = {} /\ EmptyBuffer(s).mark = s.mark
           /\ EmptyBuffer(s).rows = s.rows /\ EmptyBuffer(s).dlq = s.dlq
           /\ EmptyBuffer(s).lost = s.lost
  BY BufferTyped DEF EmptyBuffer, Stores

LEMMA InsertEffect ==
    ASSUME NEW s \in Stores, NEW obj \in Objects, NEW W \in SUBSET Jobs
    PROVE  /\ Insert(s, obj, W) \in Stores
           /\ Insert(s, obj, W).pending = s.pending /\ Insert(s, obj, W).mark = s.mark
           /\ Insert(s, obj, W).dlq = s.dlq /\ Insert(s, obj, W).lost = s.lost
           /\ Insert(s, obj, W).retries = s.retries
           /\ \A k \in Jobs : Insert(s, obj, W).rows[k] = IF k \in W THEN RowOf(s, obj, k) ELSE s.rows[k]
  BY RowOfTyped DEF Insert, Stores

LEMMA BuryEffect ==
    ASSUME NEW s \in Stores, NEW W \in SUBSET Jobs
    PROVE  /\ Bury(s, W) \in Stores
           /\ Bury(s, W).pending = s.pending /\ Bury(s, W).mark = s.mark
           /\ Bury(s, W).rows = s.rows /\ Bury(s, W).lost = s.lost
           /\ \A k \in Jobs : Bury(s, W).dlq[k] = IF k \in W THEN s.dlq[k] + 1 ELSE s.dlq[k]
  BY DEF Bury, Stores

LEMMA DroppedEffect ==
    ASSUME NEW s \in Stores, NEW W \in SUBSET Jobs, NEW t \in Dropped(s, W)
    PROVE  /\ t \in Stores /\ t.pending = {} /\ t.mark = s.mark /\ t.rows = s.rows
           /\ \A k \in Jobs : /\ k \in t.lost <=> k \in s.lost \cup W
                              /\ t.dlq[k] = s.dlq[k] \/ (k \in W /\ t.dlq[k] = s.dlq[k] + 1)
<1>1. PICK saved \in SUBSET W : t = [EmptyBuffer(Bury(s, saved)) EXCEPT !.lost = @ \cup W]
  BY DEF Dropped
<1> DEFINE u == Bury(s, saved)
           e == EmptyBuffer(u)
<1>2. /\ u \in Stores /\ u.mark = s.mark /\ u.rows = s.rows /\ u.lost = s.lost
      /\ \A k \in Jobs : u.dlq[k] = IF k \in saved THEN s.dlq[k] + 1 ELSE s.dlq[k]
  BY BuryEffect
<1>3. /\ e \in Stores /\ e.pending = {} /\ e.mark = u.mark /\ e.rows = u.rows /\ e.dlq = u.dlq
      /\ e.lost = u.lost
  BY <1>2, EmptyBufferEffect
<1>4. t = [e EXCEPT !.lost = @ \cup W]
  BY <1>1
<1> HIDE DEF u, e
<1>5. /\ t \in Stores /\ t.pending = e.pending /\ t.mark = e.mark /\ t.rows = e.rows
      /\ t.dlq = e.dlq /\ t.lost = e.lost \cup W
  BY <1>3, <1>4 DEF Stores
<1> QED
  BY <1>2, <1>3, <1>5

LEMMA FlushEffect ==
    ASSUME NEW s \in Stores, NEW obj \in Objects, NEW t \in Flush(s, obj)
    PROVE  t \in Stores /\ \A k \in Jobs : Flushed(s, t, obj, k)
<1>1. PICK failed \in SUBSET s.pending :
        t \in AfterInsert(Insert(s, obj, s.pending \ failed), failed)
  <2>1. PICK failed \in (IF May("flush") THEN SUBSET s.pending ELSE {{}}) :
          t \in AfterInsert(Insert(s, obj, s.pending \ failed), failed)
    BY DEF Flush
  <2> QED
    BY <2>1
<1> DEFINE u == Insert(s, obj, s.pending \ failed)
<1>2. s.pending \ failed \in SUBSET Jobs /\ failed \in SUBSET Jobs
  BY DEF Stores
<1>3. /\ u \in Stores /\ u.pending = s.pending /\ u.mark = s.mark /\ u.dlq = s.dlq /\ u.lost = s.lost
      /\ \A k \in Jobs : u.rows[k] = IF k \in s.pending \ failed THEN RowOf(s, obj, k) ELSE s.rows[k]
  BY <1>2, InsertEffect
<1>4. t \in AfterInsert(u, failed)
  BY <1>1
<1> HIDE DEF u
<1>5. CASE failed = {}
  <2>1. t = EmptyBuffer(u)
    BY <1>4, <1>5 DEF AfterInsert
  <2> QED
    BY <1>3, <1>5, <2>1, EmptyBufferEffect
       DEF Flushed, SameBuffer, SameTables, Landed
<1>6. CASE failed # {} /\ u.retries + 1 >= MaxRetries
  <2>1. t \in Dropped(u, failed)
    BY <1>4, <1>6 DEF AfterInsert
  <2>2. /\ t \in Stores /\ t.pending = {} /\ t.mark = u.mark /\ t.rows = u.rows
        /\ \A k \in Jobs : /\ k \in t.lost <=> k \in u.lost \cup failed
                           /\ t.dlq[k] = u.dlq[k] \/ (k \in failed /\ t.dlq[k] = u.dlq[k] + 1)
    BY <1>2, <1>3, <2>1, DroppedEffect
  <2> QED
    BY <1>3, <2>2 DEF Flushed, SameBuffer, SameTables, Landed, GivenUp
<1>7. CASE failed # {} /\ ~(u.retries + 1 >= MaxRetries)
  <2>1. t = [u EXCEPT !.pending = failed, !.retries = @ + 1, !.backoff = TRUE]
    BY <1>4, <1>7 DEF AfterInsert
  <2>2. u.retries + 1 \in 0..(MaxRetries - 1)
    BY <1>3, <1>7, BufferTyped DEF Stores
  <2>3. /\ t \in Stores /\ t.pending = failed /\ t.mark = u.mark /\ t.rows = u.rows /\ t.dlq = u.dlq
        /\ t.lost = u.lost
    BY <1>2, <1>3, <2>1, <2>2 DEF Stores
  <2> QED
    BY <1>1, <1>3, <2>3 DEF Flushed, SameBuffer, SameTables, Landed
<1> QED
  BY <1>5, <1>6, <1>7

LEMMA FlushIfReadyEffect ==
    ASSUME NEW s \in Stores, NEW obj \in Objects, NEW t \in FlushIfReady(s, obj)
    PROVE  t \in Stores /\ \A k \in Jobs : Flushed(s, t, obj, k)
  BY FlushEffect DEF FlushIfReady, Flushed, SameBuffer, SameTables

\* The writes about one job leave the others alone.
OthersUntouched(s, t, j) == t \in Stores /\ \A k \in Jobs \ {j} : Untouched(s, t, k)

LEMMA SetPendingEffect ==
    ASSUME NEW s \in Stores, NEW j \in Jobs, NEW state \in RowStates
    PROVE  /\ OthersUntouched(s, SetPendingState(s, j, state), j)
           /\ SameBuffer(s, SetPendingState(s, j, state), j)
           /\ SameTables(s, SetPendingState(s, j, state), j)
           /\ SetPendingState(s, j, state).mark[j] = IF j \in s.pending THEN state ELSE s.mark[j]
           /\ j \notin s.pending => SetPendingState(s, j, state) = s
  BY DEF SetPendingState, OthersUntouched, Untouched, SameBuffer, SameTables, Stores

LEMMA RemovePendingEffect ==
    ASSUME NEW s \in Stores, NEW j \in Jobs
    PROVE  /\ OthersUntouched(s, RemovePending(s, j), j)
           /\ SameTables(s, RemovePending(s, j), j)
           /\ j \notin RemovePending(s, j).pending
           /\ j \in RemovePending(s, j).lost <=> j \in s.lost
           /\ RemovePending(s, j).mark = s.mark
<1> DEFINE t == RemovePending(s, j)
<1>1. CASE s.pending \subseteq {j}
  BY <1>1, EmptyBufferEffect
     DEF RemovePending, OthersUntouched, Untouched, SameBuffer, SameTables, Stores
<1>2. CASE ~(s.pending \subseteq {j})
  BY <1>2 DEF RemovePending, OthersUntouched, Untouched, SameBuffer, SameTables, Stores
<1> QED
  BY <1>1, <1>2

LEMMA UpdateRowEffect ==
    ASSUME NEW s \in Stores, NEW j \in Jobs, NEW r \in Rows
    PROVE  /\ OthersUntouched(s, UpdateRow(s, j, r), j)
           /\ SameBuffer(s, UpdateRow(s, j, r), j)
           /\ UpdateRow(s, j, r).rows[j] = IF s.rows[j] = NoRow THEN NoRow ELSE r
           /\ UpdateRow(s, j, r).dlq = s.dlq /\ UpdateRow(s, j, r).mark = s.mark
  BY DEF UpdateRow, OthersUntouched, Untouched, SameBuffer, SameTables, Stores

LEMMA DeleteRowEffect ==
    ASSUME NEW s \in Stores, NEW j \in Jobs
    PROVE  /\ OthersUntouched(s, DeleteRow(s, j), j)
           /\ SameBuffer(s, DeleteRow(s, j), j)
           /\ DeleteRow(s, j).rows[j] = NoRow
           /\ DeleteRow(s, j).dlq = s.dlq /\ DeleteRow(s, j).mark = s.mark
  BY NoRowTyped DEF DeleteRow, OthersUntouched, Untouched, SameBuffer, SameTables, Stores

LEMMA BuryOneEffect ==
    ASSUME NEW s \in Stores, NEW j \in Jobs, NEW W \in {{}, {j}}
    PROVE  /\ OthersUntouched(s, Bury(s, W), j)
           /\ SameBuffer(s, Bury(s, W), j)
           /\ Bury(s, W).rows = s.rows /\ Bury(s, W).mark = s.mark
           /\ Bury(s, W).dlq[j] = IF W = {j} THEN s.dlq[j] + 1 ELSE s.dlq[j]
<1>1. W \in SUBSET Jobs
  OBVIOUS
<1> QED
  BY <1>1, BuryEffect DEF OthersUntouched, Untouched, SameBuffer, SameTables

\* The row of a job that has left the buffer, after a write of its state.
Restated(s, t, j, state) ==
    IF s.rows[j] = NoRow THEN t.rows[j] = NoRow
    ELSE \/ t.rows[j] = [s.rows[j] EXCEPT !.state = state]
         \/ May("write") /\ t.rows[j] = s.rows[j]

\* A change of state: the row is written, or what will become the row.
MarkedAs(s, t, obj, j, state) ==
    IF j \in s.pending
    THEN \/ SameBuffer(s, t, j) /\ SameTables(s, t, j) /\ t.mark[j] = state
         \/ /\ j \notin t.pending /\ (j \in t.lost <=> j \in s.lost) /\ t.dlq[j] = s.dlq[j]
            /\ t.rows[j] = [state |-> state, attempts |-> obj[j].attempts, stalls |-> obj[j].stalls]
         \/ GivenUp(s, t, j)
    ELSE SameBuffer(s, t, j) /\ t.dlq[j] = s.dlq[j] /\ Restated(s, t, j, state)

LEMMA SetStateEffect ==
    ASSUME NEW s \in Stores, NEW j \in Jobs, NEW state \in RowStates, NEW t \in Tried(s, SetState(s, j, state))
    PROVE  /\ OthersUntouched(s, t, j) /\ SameBuffer(s, t, j) /\ t.dlq = s.dlq /\ t.mark = s.mark
           /\ Restated(s, t, j, state)
<1> DEFINE r == [s.rows[j] EXCEPT !.state = state]
<1>1. r \in Rows
  BY DEF Rows, RowStates, Stores
<1>2. (t = s /\ May("write")) \/ t = UpdateRow(s, j, r)
  BY DEF Tried, SetState
<1>3. OthersUntouched(s, s, j) /\ SameBuffer(s, s, j)
  BY DEF OthersUntouched, Untouched, SameBuffer, SameTables
<1> QED
  BY <1>1, <1>2, <1>3, UpdateRowEffect DEF Restated

LEMMA MarkStateEffect ==
    ASSUME NEW s \in Stores, NEW obj \in Objects, NEW j \in Jobs, NEW state \in RowStates,
           j \in s.pending => s.rows[j] = NoRow,
           NEW t \in MarkState(s, obj, j, state)
    PROVE  /\ t \in Stores /\ \A k \in Jobs \ {j} : Flushed(s, t, obj, k)
           /\ MarkedAs(s, t, obj, j, state)
<1> DEFINE u == SetPendingState(s, j, state)
<1>1. PICK f \in FlushIfBuffered(u, obj, j) : t \in Tried(f, SetState(f, j, state))
  BY DEF MarkState
<1>2. /\ u \in Stores /\ SameBuffer(s, u, j) /\ SameTables(s, u, j)
      /\ \A k \in Jobs \ {j} : Untouched(s, u, k)
      /\ u.mark[j] = IF j \in s.pending THEN state ELSE s.mark[j]
  BY SetPendingEffect DEF OthersUntouched
<1>3. f \in FlushIfBuffered(u, obj, j)
  BY <1>1
<1> HIDE DEF u
<1>4. f \in Stores /\ \A k \in Jobs : Flushed(u, f, obj, k)
  BY <1>2, <1>3, FlushIfReadyEffect DEF FlushIfBuffered, Flushed, SameBuffer, SameTables
<1>5. /\ OthersUntouched(f, t, j) /\ SameBuffer(f, t, j) /\ t.dlq = f.dlq /\ t.mark = f.mark
      /\ Restated(f, t, j, state)
  BY <1>1, <1>4, SetStateEffect
<1>6. \A k \in Jobs \ {j} : Flushed(s, t, obj, k)
  BY <1>2, <1>4, <1>5
     DEF OthersUntouched, Untouched, SameBuffer, SameTables, Flushed, Landed, GivenUp, RowOf
<1>7. ASSUME j \notin s.pending
      PROVE  MarkedAs(s, t, obj, j, state)
  BY <1>2, <1>3, <1>5, <1>7
     DEF MarkedAs, Restated, SameBuffer, SameTables, FlushIfBuffered
<1>8. ASSUME j \in s.pending
      PROVE  MarkedAs(s, t, obj, j, state)
  <2>1. CASE SameBuffer(u, f, j) /\ SameTables(u, f, j)
    BY <1>2, <1>4, <1>5, <1>8, <2>1 DEF MarkedAs, Restated, SameBuffer, SameTables, Flushed
  <2>2. CASE Landed(u, f, obj, j)
    <3>1. f.rows[j] = [state |-> state, attempts |-> obj[j].attempts, stalls |-> obj[j].stalls]
      BY <1>2, <1>8, <2>2 DEF Landed, RowOf, RowStates
    <3>2. [f.rows[j] EXCEPT !.state = state] = f.rows[j] /\ f.rows[j] # NoRow
      BY <3>1 DEF NoRow, RowStates
    <3>3. t.rows[j] = f.rows[j]
      BY <1>5, <3>2 DEF Restated
    <3> QED
      BY <1>2, <1>5, <1>8, <2>2, <3>1, <3>3 DEF MarkedAs, SameBuffer, SameTables, Landed
  <2>3. CASE GivenUp(u, f, j)
    BY <1>2, <1>5, <1>8, <2>3 DEF MarkedAs, Restated, SameBuffer, SameTables, GivenUp
  <2> QED
    BY <1>4, <2>1, <2>2, <2>3 DEF Flushed
<1>9. t \in Stores
  BY <1>5 DEF OthersUntouched
<1> QED
  BY <1>6, <1>7, <1>8, <1>9

LEMMA UntouchedChain ==
    ASSUME NEW s, NEW t, NEW u, NEW j, OthersUntouched(s, t, j), OthersUntouched(t, u, j)
    PROVE  OthersUntouched(s, u, j)
  BY DEF OthersUntouched, Untouched, SameBuffer, SameTables

LEMMA UpdateForRetryEffect ==
    ASSUME NEW s \in Stores, NEW obj \in Objects, NEW j \in Jobs, NEW t \in UpdateForRetry(s, obj, j)
    PROVE  /\ OthersUntouched(s, t, j) /\ SameBuffer(s, t, j) /\ t.dlq[j] = s.dlq[j]
           /\ t.mark[j] = IF j \in s.pending THEN "waiting" ELSE s.mark[j]
           /\ IF s.rows[j] = NoRow THEN t.rows[j] = NoRow
              ELSE \/ t.rows[j] = [state |-> "waiting", attempts |-> obj[j].attempts,
                                   stalls |-> obj[j].stalls]
                   \/ May("write") /\ t.rows[j] = s.rows[j]
<1> DEFINE u == SetPendingState(s, j, "waiting")
           r == [state |-> "waiting", attempts |-> obj[j].attempts, stalls |-> obj[j].stalls]
<1>1. /\ OthersUntouched(s, u, j) /\ SameBuffer(s, u, j) /\ SameTables(s, u, j)
      /\ u.mark[j] = IF j \in s.pending THEN "waiting" ELSE s.mark[j]
  BY SetPendingEffect DEF RowStates
<1>2. t = UpdateRow(u, j, r) \/ (May("write") /\ t = u)
  BY DEF UpdateForRetry, Tried
<1>3. r \in Rows
  BY DEF Rows, RowStates, Objects
<1> HIDE DEF u
<1>4. /\ OthersUntouched(u, UpdateRow(u, j, r), j) /\ SameBuffer(u, UpdateRow(u, j, r), j)
      /\ UpdateRow(u, j, r).rows[j] = IF u.rows[j] = NoRow THEN NoRow ELSE r
      /\ UpdateRow(u, j, r).dlq = u.dlq /\ UpdateRow(u, j, r).mark = u.mark
  BY <1>1, <1>3, UpdateRowEffect DEF OthersUntouched
<1>5. CASE t = u /\ May("write")
  BY <1>1, <1>5 DEF SameTables
<1>6. CASE t = UpdateRow(u, j, r)
  BY <1>1, <1>4, <1>6, UntouchedChain DEF SameTables, SameBuffer
<1> QED
  BY <1>2, <1>5, <1>6

\* The removal of a row, with or without a burial in the same transaction,
\* takes the job out of the buffer in any case.
LEMMA CommitFailedEffect ==
    ASSUME NEW s \in Stores, NEW j \in Jobs, NEW W \in {{}, {j}}, NEW t \in CommitFailedJob(s, j, W)
    PROVE  /\ OthersUntouched(s, t, j)
           /\ j \notin t.pending /\ (j \in t.lost <=> j \in s.lost) /\ t.mark = s.mark
           /\ \/ t.rows[j] = NoRow /\ t.dlq[j] = IF W = {j} THEN s.dlq[j] + 1 ELSE s.dlq[j]
              \/ May("write") /\ SameTables(s, t, j)
<1> DEFINE u == RemovePending(s, j)
           v == Bury(u, W)
<1>1. t = DeleteRow(v, j) \/ (May("write") /\ t = u)
  BY DEF CommitFailedJob, Tried
<1>2. /\ OthersUntouched(s, u, j) /\ SameTables(s, u, j) /\ j \notin u.pending
      /\ (j \in u.lost <=> j \in s.lost) /\ u.mark = s.mark
  BY RemovePendingEffect
<1> HIDE DEF u
<1>3. /\ OthersUntouched(u, v, j) /\ SameBuffer(u, v, j) /\ v.rows = u.rows /\ v.mark = u.mark
      /\ v.dlq[j] = IF W = {j} THEN u.dlq[j] + 1 ELSE u.dlq[j]
  BY <1>2, BuryOneEffect DEF OthersUntouched
<1> HIDE DEF v
<1>4. /\ OthersUntouched(v, DeleteRow(v, j), j) /\ SameBuffer(v, DeleteRow(v, j), j)
      /\ DeleteRow(v, j).rows[j] = NoRow /\ DeleteRow(v, j).dlq = v.dlq /\ DeleteRow(v, j).mark = v.mark
  BY <1>3, DeleteRowEffect DEF OthersUntouched
<1>5. CASE t = u /\ May("write")
  BY <1>2, <1>5
<1>6. CASE t = DeleteRow(v, j)
  <2>1. OthersUntouched(s, t, j)
    BY <1>2, <1>3, <1>4, <1>6, UntouchedChain
  <2> QED
    BY <1>2, <1>3, <1>4, <1>6, <2>1 DEF SameTables, SameBuffer
<1> QED
  BY <1>1, <1>5, <1>6

LEMMA DeleteJobEffect ==
    ASSUME NEW s \in Stores, NEW j \in Jobs, NEW t \in DeleteJob(s, j)
    PROVE  /\ OthersUntouched(s, t, j)
           /\ j \notin t.pending /\ (j \in t.lost <=> j \in s.lost) /\ t.dlq[j] = s.dlq[j]
           /\ t.mark = s.mark
           /\ t.rows[j] = NoRow \/ (May("write") /\ t.rows[j] = s.rows[j])
<1> DEFINE u == RemovePending(s, j)
<1>1. t = DeleteRow(u, j) \/ (May("write") /\ t = u)
  BY DEF DeleteJob, Tried
<1>2. /\ OthersUntouched(s, u, j) /\ SameTables(s, u, j) /\ j \notin u.pending
      /\ (j \in u.lost <=> j \in s.lost) /\ u.mark = s.mark
  BY RemovePendingEffect
<1> HIDE DEF u
<1>3. /\ OthersUntouched(u, DeleteRow(u, j), j) /\ SameBuffer(u, DeleteRow(u, j), j)
      /\ DeleteRow(u, j).rows[j] = NoRow /\ DeleteRow(u, j).dlq = u.dlq /\ DeleteRow(u, j).mark = u.mark
  BY <1>2, DeleteRowEffect DEF OthersUntouched
<1>4. CASE t = u /\ May("write")
  BY <1>2, <1>4 DEF SameTables
<1>5. CASE t = DeleteRow(u, j)
  BY <1>2, <1>3, <1>5, UntouchedChain DEF SameTables, SameBuffer
<1> QED
  BY <1>1, <1>4, <1>5

LEMMA RequeueDlqEffect ==
    ASSUME NEW s \in Stores, NEW j \in Jobs
    PROVE  /\ OthersUntouched(s, RequeueDlqJob(RemovePending(s, j), j), j)
           /\ j \notin RequeueDlqJob(RemovePending(s, j), j).pending
           /\ j \in RequeueDlqJob(RemovePending(s, j), j).lost <=> j \in s.lost
           /\ RequeueDlqJob(RemovePending(s, j), j).rows[j] =
                 [state |-> "waiting", attempts |-> 0, stalls |-> 0]
           /\ RequeueDlqJob(RemovePending(s, j), j).dlq[j] = 0
<1> DEFINE u == RemovePending(s, j)
<1>1. /\ OthersUntouched(s, u, j) /\ j \notin u.pending
      /\ (j \in u.lost <=> j \in s.lost)
  BY RemovePendingEffect
<1>2. u \in Stores
  BY <1>1 DEF OthersUntouched
<1> HIDE DEF u
<1>3. /\ OthersUntouched(u, RequeueDlqJob(u, j), j) /\ SameBuffer(u, RequeueDlqJob(u, j), j)
      /\ RequeueDlqJob(u, j).rows[j] = [state |-> "waiting", attempts |-> 0, stalls |-> 0]
      /\ RequeueDlqJob(u, j).dlq[j] = 0
  BY <1>2
     DEF RequeueDlqJob, NoRow, Rows, RowStates, OthersUntouched, Untouched, SameBuffer, SameTables, Stores
<1>4. OthersUntouched(s, RequeueDlqJob(u, j), j)
  BY <1>1, <1>3, UntouchedChain
<1> USE DEF u
<1> QED
  BY <1>1, <1>3, <1>4 DEF SameBuffer

-----------------------------------------------------------------------------
(***************************************************************************)
(* The jobs that a step is not about.                                      *)
(***************************************************************************)

\* Memory keeps what it knows of k.
MemoryKept(k) ==
    /\ k \in queued' <=> k \in queued
    /\ k \in processing' <=> k \in processing
    /\ jobIndex'[k] = jobIndex[k] /\ object'[k] = object[k] /\ memDlq'[k] = memDlq[k]

HistoryKept(k) ==
    /\ k \in admitted' <=> k \in admitted
    /\ k \in durable' <=> k \in durable
    /\ k \in finished' <=> k \in finished
    /\ runs'[k] = runs[k]

Aside(k) ==
    /\ MemoryKept(k) /\ HistoryKept(k)
    /\ Flushed(store, store', object, k)
    /\ k \notin unlinking /\ k \notin unlinking'
    /\ up' = up \/ (up # "up" /\ up' # "up")

LEMMA AsideKeeps ==
    ASSUME TypeOK, UNCHANGED setting, NEW k \in Jobs, JobInv(k), Aside(k)
    PROVE  JobInv(k)'
<1> USE DEF JobInv, Aside, MemoryKept, HistoryKept
<1>1. May("write")' = May("write") /\ May("torn")' = May("torn") /\ MaxAttempts' = MaxAttempts
  BY DEF May, MaxAttempts
<1>2. k \in store.pending => up = "up" /\ store.rows[k] = NoRow /\ store.dlq[k] = 0
  BY DEF Stopped, RowsSound, TypeOK
<1>3. RowOf(store, object, k).state # "none" /\ RowOf(store, object, k) # NoRow
  BY DEF RowOf, RowStates, TypeOK, NoRow
<1>4. RowOf(store', object', k) = RowOf(store, object, k)
  BY DEF RowOf, Flushed
<1>5. GivenUp(store, store', k) \/ DiskRow(k)' = DiskRow(k)
  BY <1>2, <1>4 DEF Flushed, DiskRow, SameBuffer, SameTables, Landed
<1>6. GivenUp(store, store', k) => DiskRow(k)' = NoRow
  BY <1>2 DEF DiskRow, GivenUp
<1>7. /\ k \in store'.pending => k \in store.pending /\ store'.rows[k] = store.rows[k]
                                                     /\ store'.dlq[k] = store.dlq[k]
      /\ store'.rows[k] = store.rows[k] \/ (k \in store.pending /\ store'.rows[k] = RowOf(store, object, k))
      /\ k \in store.lost => k \in store'.lost
      /\ store'.dlq[k] = store.dlq[k] \/ (GivenUp(store, store', k) /\ store'.dlq[k] = store.dlq[k] + 1)
  BY DEF Flushed, SameBuffer, SameTables, Landed, GivenUp
<1>8. RowsSound(k)'
  BY <1>2, <1>3, <1>5, <1>6, <1>7 DEF RowsSound, NoRow
<1>9. Placed(k)' /\ Stopped(k)'
  BY <1>1, <1>7 DEF Placed, Stopped
<1>10. Fresh(k)'
  BY <1>7 DEF Fresh, Flushed, SameBuffer, SameTables, Landed, GivenUp
<1>11. InOneTable(k)'
  BY <1>1, <1>2, <1>7 DEF InOneTable, GivenUp
<1>12. Survives(k)'
  BY <1>2, <1>3, <1>7 DEF Survives, TypeOK
<1>13. NotForgotten(k)'
  BY <1>1, <1>2, <1>3 DEF NotForgotten, Flushed, SameBuffer, SameTables, Landed, GivenUp
<1>14. ASSUME ~May("write") PROVE Mirrored(k)'
  <2>1. MemoryState(k)' = MemoryState(k)
    BY DEF MemoryState
  <2>2. up' = "up" => up = "up"
    OBVIOUS
  <2>3. Mirrored(k)
    BY <1>14
  <2>4. ASSUME up' = "up"
        PROVE  \/ DiskRow(k)'.state = MemoryState(k)'
               \/ /\ k \notin store'.pending /\ store'.rows[k] = NoRow
                  /\ k \in store'.lost \/ May("torn")'
    <3>1. CASE GivenUp(store, store', k)
      BY <1>2, <3>1 DEF GivenUp
    <3>2. CASE ~GivenUp(store, store', k)
      BY <1>1, <1>2, <1>5, <1>7, <2>1, <2>2, <2>3, <2>4, <3>2 DEF Mirrored
    <3> QED
      BY <3>1, <3>2
  <2>5. ASSUME up' = "up", MemoryState(k)' \in {"waiting", "active"}, store'.rows[k] # NoRow
        PROVE  store'.rows[k].attempts = object'[k].attempts /\ store'.rows[k].stalls = object'[k].stalls
    <3>1. CASE store'.rows[k] = store.rows[k]
      BY <2>1, <2>2, <2>3, <2>5, <3>1 DEF Mirrored
    <3>2. CASE store'.rows[k] = RowOf(store, object, k)
      BY <3>2 DEF RowOf
    <3> QED
      BY <1>7, <3>1, <3>2
  <2>6. ~May("torn")' /\ k \notin store'.lost =>
           store'.dlq[k] <= 1 /\ (up' = "up" => memDlq'[k] = store'.dlq[k])
    BY <1>1, <1>7, <2>2, <2>3 DEF Mirrored, GivenUp
  <2> QED
    BY <2>4, <2>5, <2>6 DEF Mirrored
<1>15. ASSUME ~May("write") PROVE Budgeted(k)'
  <2>1. Budgeted(k) /\ Mirrored(k)
    BY <1>15
  <2>2. Covers(store'.rows[k].state, store'.rows[k].attempts, runs[k])
    <3>1. CASE store'.rows[k] = store.rows[k]
      BY <2>1, <3>1 DEF Budgeted
    <3>2. CASE k \in store.pending /\ store'.rows[k] = RowOf(store, object, k)
      <4>1. RowOf(store, object, k).state = MemoryState(k)
        BY <1>2, <2>1, <3>2 DEF Mirrored, DiskRow
      <4>2. RowOf(store, object, k).attempts = object[k].attempts
        BY DEF RowOf
      <4> QED
        BY <2>1, <3>2, <4>1, <4>2 DEF MemoryState, Budgeted, Covers
    <3> QED
      BY <1>7, <3>1, <3>2
  <2> QED
    BY <1>1, <2>1, <2>2 DEF Budgeted, Covers
<1>16. ASSUME ~May("write") PROVE NeverRevived(k)'
  <2>1. NeverRevived(k)
    BY <1>16
  <2> QED
    BY <1>5, <1>6, <2>1 DEF NeverRevived, NoRow
<1> QED
  BY <1>1, <1>8, <1>9, <1>10, <1>11, <1>12, <1>13, <1>14, <1>15, <1>16

\* What is left to show for an operation on j.
LEMMA OneJobStep ==
    ASSUME IInv, UNCHANGED setting, NEW j \in Jobs, TypeOK',
           \A k \in Jobs \ {j} : Aside(k), JobInv(j)'
    PROVE  IInv'
<1>1. \A k \in Jobs \ {j} : JobInv(k)'
  BY AsideKeeps DEF IInv
<1> QED
  BY <1>1 DEF IInv

LEMMA UntouchedIsFlushed ==
    ASSUME NEW s, NEW t, NEW obj, NEW j, OthersUntouched(s, t, j)
    PROVE  t \in Stores /\ \A k \in Jobs \ {j} : Flushed(s, t, obj, k)
  BY DEF OthersUntouched, Untouched, Flushed

\* A process that is up and in no burial.
LEMMA RunningJob ==
    ASSUME IInv, Running, NEW j \in Jobs
    PROVE  /\ JobInv(j) /\ up = "up" /\ unlinking = {} /\ store \in Stores /\ object \in Objects
           /\ j \in store.pending => store.rows[j] = NoRow /\ store.dlq[j] = 0
  BY DEF IInv, Running, TypeOK, Stores, Objects, JobInv, RowsSound

-----------------------------------------------------------------------------
(***************************************************************************)
(* The operations.                                                         *)
(***************************************************************************)

\* A change of state that is written as MarkState writes it: what is left to
\* show is about memory alone.
LEMMA MarkedKeeps ==
    ASSUME IInv, UNCHANGED setting, Running, NEW j \in queued \cup processing, NEW state \in RowStates,
           store' \in Stores, MarkedAs(store, store', object, j, state),
           MemoryState(j)' = state,
           UNCHANGED <<up, object, memDlq, unlinking, admitted, durable>>
    PROVE  /\ RowsSound(j)' /\ Fresh(j)' /\ Stopped(j)'
           /\ InOneTable(j)' /\ Survives(j)' /\ NotForgotten(j)'
           /\ ~May("write") =>
                 /\ Mirrored(j)'
                 /\ DiskRow(j)'.state \in {state, "none"}
                 /\ store'.rows[j] # NoRow => /\ store'.rows[j].state = state
                                             /\ store'.rows[j].attempts = object[j].attempts
<1> USE DEF IInv
<1>1. /\ j \in Jobs /\ JobInv(j) /\ up = "up" /\ unlinking = {} /\ store \in Stores /\ object \in Objects
      /\ j \in store.pending => store.rows[j] = NoRow /\ store.dlq[j] = 0
  BY RunningJob DEF TypeOK
<1>2. May("write")' = May("write") /\ May("torn")' = May("torn")
  BY DEF May
<1>3. j \in admitted
  BY <1>1 DEF JobInv, Fresh
<1>4. store.rows[j].state # "completed" /\ (store.rows[j].state = "none" <=> store.rows[j] = NoRow)
  BY <1>1 DEF JobInv, RowsSound, DiskRow, NoRow
\* What MarkState leaves behind.
<1>5. j \in store'.pending => j \in store.pending /\ store'.mark[j] = state /\ store'.rows[j] = NoRow
  BY <1>1 DEF MarkedAs, SameBuffer, SameTables, GivenUp
<1>6. \/ store'.dlq[j] = store.dlq[j]
      \/ store'.dlq[j] = store.dlq[j] + 1 /\ j \in store'.lost /\ store'.rows[j] = NoRow
  BY <1>1 DEF MarkedAs, SameBuffer, SameTables, GivenUp
<1>7. store'.rows[j] # NoRow =>
         /\ store.dlq[j] = 0 \/ store.rows[j] # NoRow
         /\ store'.rows[j].state = state \/ (May("write") /\ store'.rows[j] = store.rows[j])
  BY <1>1, <1>4 DEF MarkedAs, SameBuffer, SameTables, GivenUp, Restated, Stores, Rows
<1>8. store'.rows[j] = NoRow =>
         store.rows[j] = NoRow /\ (j \in store.pending => j \in store'.pending \/ j \in store'.lost)
  <2>1. CASE j \in store.pending
    BY <1>1, <2>1 DEF MarkedAs, SameBuffer, SameTables, GivenUp, NoRow, RowStates
  <2>2. CASE j \notin store.pending
    <3>1. [store.rows[j] EXCEPT !.state = state] # NoRow
      BY <1>1 DEF Stores, Rows, NoRow, RowStates
    <3> QED
      BY <2>2, <3>1 DEF MarkedAs, Restated
  <2> QED
    BY <2>1, <2>2
<1>9. j \in store.lost => j \in store'.lost
  BY DEF MarkedAs, SameBuffer, GivenUp
<1>10. store'.rows[j].state = "none" => store'.rows[j] = NoRow
  BY <1>4, <1>7 DEF RowStates
<1>11. j \in store'.pending => RowOf(store', object', j).state = state
  BY <1>5 DEF RowOf, RowStates
<1>12. RowsSound(j)'
  <2>1. j \in store'.pending => store'.dlq[j] = 0
    BY <1>1, <1>5, <1>6 DEF MarkedAs, SameBuffer, SameTables, GivenUp
  <2>2. j \in queued' \cup processing' => state # "completed"
    BY DEF MemoryState
  <2>3. j \in queued' \cup processing' => DiskRow(j)'.state # "completed"
    BY <1>4, <1>7, <1>11, <2>2 DEF DiskRow, NoRow
  <2> QED
    BY <1>1, <1>5, <1>10, <2>1, <2>3 DEF RowsSound
<1>13. Fresh(j)' /\ Stopped(j)'
  BY <1>1, <1>3 DEF Fresh, Stopped
<1>14. InOneTable(j)'
  BY <1>1, <1>2, <1>6, <1>7 DEF JobInv, InOneTable
<1>15. Survives(j)'
  BY <1>1, <1>6, <1>8 DEF JobInv, Survives, Stores
<1>16. NotForgotten(j)'
  BY <1>1, <1>2, <1>8, <1>9 DEF JobInv, NotForgotten
<1>17. ASSUME ~May("write")
       PROVE  /\ Mirrored(j)'
              /\ DiskRow(j)'.state \in {state, "none"}
              /\ store'.rows[j] # NoRow => /\ store'.rows[j].state = state
                                          /\ store'.rows[j].attempts = object[j].attempts
  <2>1. MemoryState(j) \in {"waiting", "active"} /\ Mirrored(j)
    BY <1>1, <1>17 DEF JobInv, MemoryState
  <2>2. store'.rows[j] # NoRow => /\ store'.rows[j].state = state
                                  /\ store'.rows[j].attempts = object[j].attempts
                                  /\ store'.rows[j].stalls = object[j].stalls
    <3>1. CASE j \in store.pending
      BY <1>1, <1>17, <3>1 DEF MarkedAs, SameTables, GivenUp
    <3>2. CASE j \notin store.pending
      BY <1>1, <1>17, <2>1, <3>2 DEF MarkedAs, Restated, Mirrored, Stores, Rows
    <3> QED
      BY <3>1, <3>2
  <2>3. \/ DiskRow(j)'.state = state
        \/ /\ j \notin store'.pending /\ store'.rows[j] = NoRow
           /\ j \in store'.lost \/ May("torn")
    <3>1. CASE j \in store'.pending
      BY <1>11, <3>1 DEF DiskRow
    <3>2. CASE j \notin store'.pending /\ store'.rows[j] # NoRow
      BY <2>2, <3>2 DEF DiskRow
    <3>3. CASE j \notin store'.pending /\ store'.rows[j] = NoRow
      BY <1>1, <1>8, <1>9, <2>1, <3>3 DEF Mirrored, DiskRow, NoRow
    <3> QED
      BY <3>1, <3>2, <3>3
  <2>4. ~May("torn") /\ j \notin store'.lost => store'.dlq[j] <= 1 /\ memDlq[j] = store'.dlq[j]
    BY <1>1, <1>6, <1>9, <2>1 DEF Mirrored
  <2> QED
    BY <1>2, <2>2, <2>3, <2>4 DEF Mirrored, DiskRow, NoRow
<1> QED
  BY <1>12, <1>13, <1>14, <1>15, <1>16, <1>17

\* Constants of the setting that an operation leaves alone.
LEMMA SettingKept ==
    ASSUME UNCHANGED setting
    PROVE  May("write")' = May("write") /\ May("torn")' = May("torn") /\ MaxAttempts' = MaxAttempts
  BY DEF May, MaxAttempts

LEMMA PullKeeps ==
    ASSUME IInv, UNCHANGED setting, NEW j \in Jobs, Pull(j)
    PROVE  IInv'
<1> USE DEF Pull, StillUp, Place
<1>1. /\ JobInv(j) /\ up = "up" /\ unlinking = {} /\ store \in Stores /\ object \in Objects
      /\ j \in store.pending => store.rows[j] = NoRow /\ store.dlq[j] = 0
  BY RunningJob
<1>2. store' \in Stores /\ \A k \in Jobs \ {j} : Flushed(store, store', object, k)
  BY <1>1, MarkStateEffect DEF RowStates
<1>3. MarkedAs(store, store', object, j, "active")
  BY <1>1, MarkStateEffect DEF RowStates
<1>4. TypeOK'
  BY <1>2 DEF IInv, TypeOK, Stores, MaxStops
<1>5. \A k \in Jobs \ {j} : Aside(k)
  BY <1>1, <1>2 DEF IInv, TypeOK, Aside, MemoryKept, HistoryKept
<1>6. JobInv(j)'
  <2>1. MemoryState(j)' = "active"
    BY DEF MemoryState
  <2>2. /\ RowsSound(j)' /\ Fresh(j)' /\ Stopped(j)'
        /\ InOneTable(j)' /\ Survives(j)' /\ NotForgotten(j)'
        /\ ~May("write") =>
              /\ Mirrored(j)'
              /\ store'.rows[j] # NoRow => /\ store'.rows[j].state = "active"
                                          /\ store'.rows[j].attempts = object[j].attempts
    BY <1>2, <1>3, <2>1, MarkedKeeps DEF RowStates
  <2>3. runs'[j] = runs[j] + 1 /\ runs[j] \in Nat
    BY DEF IInv, TypeOK
  <2>4. Placed(j)'
    BY <1>1, <2>3 DEF Placed, IInv, TypeOK
  <2>5. ASSUME ~May("write")
        PROVE  Budgeted(j)' /\ NeverRevived(j)'
    <3>1. Covers("waiting", object[j].attempts, runs[j]) /\ j \notin finished
      BY <1>1, <2>5 DEF JobInv, Budgeted, NeverRevived
    <3>2. object[j].attempts \in Nat /\ MaxAttempts \in Nat
      BY <1>1, SettingsAssumption DEF Objects, MaxAttempts, IInv, TypeOK
    <3> QED
      BY <2>2, <2>3, <2>5, <3>1, <3>2, SettingKept DEF Budgeted, NeverRevived, Covers, NoRow
  <2> QED
    BY <2>2, <2>4, <2>5, SettingKept DEF JobInv
<1> QED
  BY <1>4, <1>5, <1>6, OneJobStep

LEMMA AckKeeps ==
    ASSUME IInv, UNCHANGED setting, NEW j \in Jobs, Ack(j)
    PROVE  IInv'
<1> USE DEF Ack, StillUp, Place
<1>1. /\ JobInv(j) /\ up = "up" /\ unlinking = {} /\ store \in Stores /\ object \in Objects
      /\ j \in store.pending => store.rows[j] = NoRow /\ store.dlq[j] = 0
  BY RunningJob
<1>2. j \notin queued' \cup processing' /\ jobIndex' \in [Jobs -> {"none", "queue", "processing", "completed", "dlq"}]
  BY <1>1 DEF JobInv, Placed, IInv, TypeOK
<1>3. CASE finished' = finished \cup {j} /\ jobIndex'[j] = "completed" /\ store' \in MarkState(store, object, j, "completed")
  <2>1. store' \in Stores /\ \A k \in Jobs \ {j} : Flushed(store, store', object, k)
    BY <1>1, <1>3, MarkStateEffect DEF RowStates
  <2>2. MarkedAs(store, store', object, j, "completed")
    BY <1>1, <1>3, MarkStateEffect DEF RowStates
  <2>3. TypeOK'
    BY <1>2, <1>3, <2>1 DEF IInv, TypeOK, Stores, MaxStops
  <2>4. \A k \in Jobs \ {j} : Aside(k)
    BY <1>1, <1>3, <2>1 DEF IInv, TypeOK, Aside, MemoryKept, HistoryKept
  <2>5. MemoryState(j)' = "completed"
    BY <1>2, <1>3 DEF MemoryState
  <2>6. /\ RowsSound(j)' /\ Fresh(j)' /\ Stopped(j)'
        /\ InOneTable(j)' /\ Survives(j)' /\ NotForgotten(j)'
        /\ ~May("write") =>
              /\ Mirrored(j)'
              /\ DiskRow(j)'.state \in {"completed", "none"}
              /\ store'.rows[j] # NoRow => store'.rows[j].state = "completed"
    BY <2>1, <2>2, <2>5, MarkedKeeps DEF RowStates
  <2>7. Placed(j)'
    BY <1>1, <1>2 DEF Placed
  <2>8. ASSUME ~May("write")
        PROVE  Budgeted(j)' /\ NeverRevived(j)'
    BY <1>1, <1>2, <2>6, <2>8, SettingKept DEF JobInv, Budgeted, NeverRevived, Covers, NoRow
  <2> QED
    BY <2>3, <2>4, <2>6, <2>7, <2>8, SettingKept, OneJobStep DEF JobInv
<1>4. CASE May("write") /\ jobIndex'[j] = "processing" /\ UNCHANGED <<finished, store>>
  <2>1. TypeOK'
    BY <1>2, <1>4 DEF IInv, TypeOK, MaxStops
  <2>2. \A k \in Jobs \ {j} : Aside(k)
    BY <1>1, <1>4
       DEF IInv, TypeOK, Aside, MemoryKept, HistoryKept, Flushed, SameBuffer, SameTables
  <2>3. RowsSound(j)' /\ Fresh(j)' /\ Stopped(j)' /\ Placed(j)'
    BY <1>1, <1>2, <1>4 DEF JobInv, RowsSound, Fresh, Stopped, Placed, DiskRow, RowOf
  <2>4. InOneTable(j)' /\ Survives(j)' /\ NotForgotten(j)'
    BY <1>1, <1>2, <1>4, SettingKept DEF JobInv, InOneTable, Survives, NotForgotten
  <2> QED
    BY <1>4, <2>1, <2>2, <2>3, <2>4, SettingKept, OneJobStep DEF JobInv
<1> QED
  BY <1>3, <1>4 DEF IInv, TypeOK

LEMMA MoveActiveToWaitKeeps ==
    ASSUME IInv, UNCHANGED setting, NEW j \in Jobs, MoveActiveToWait(j)
    PROVE  IInv'
<1> USE DEF MoveActiveToWait, StillUp, Place
<1>1. /\ JobInv(j) /\ up = "up" /\ unlinking = {} /\ store \in Stores /\ object \in Objects
      /\ j \in store.pending => store.rows[j] = NoRow /\ store.dlq[j] = 0
  BY RunningJob
<1>2. store' \in Stores /\ \A k \in Jobs \ {j} : Flushed(store, store', object, k)
  BY <1>1, MarkStateEffect DEF RowStates
<1>3. MarkedAs(store, store', object, j, "waiting")
  BY <1>1, MarkStateEffect DEF RowStates
<1>4. runs[j] \in Nat \ {0} /\ runs' = [runs EXCEPT ![j] = runs[j] - 1] /\ runs[j] - 1 \in Nat
  BY <1>1 DEF JobInv, Placed, IInv, TypeOK
<1>5. TypeOK'
  BY <1>2, <1>4 DEF IInv, TypeOK, Stores, MaxStops
<1>6. \A k \in Jobs \ {j} : Aside(k)
  BY <1>1, <1>2 DEF IInv, TypeOK, Aside, MemoryKept, HistoryKept
<1>7. JobInv(j)'
  <2>1. MemoryState(j)' = "waiting"
    BY DEF MemoryState
  <2>2. /\ RowsSound(j)' /\ Fresh(j)' /\ Stopped(j)'
        /\ InOneTable(j)' /\ Survives(j)' /\ NotForgotten(j)'
        /\ ~May("write") =>
              /\ Mirrored(j)'
              /\ store'.rows[j] # NoRow => /\ store'.rows[j].state = "waiting"
                                          /\ store'.rows[j].attempts = object[j].attempts
    BY <1>2, <1>3, <2>1, MarkedKeeps DEF RowStates
  <2>3. runs'[j] = runs[j] - 1
    BY <1>4 DEF IInv, TypeOK
  <2>4. Placed(j)'
    BY <1>1 DEF Placed, IInv, TypeOK
  <2>5. ASSUME ~May("write")
        PROVE  Budgeted(j)' /\ NeverRevived(j)'
    <3>1. Covers("active", object[j].attempts, runs[j]) /\ j \notin finished
      BY <1>1, <2>5 DEF JobInv, Budgeted, NeverRevived
    <3>2. object[j].attempts \in Nat /\ MaxAttempts \in Nat
      BY <1>1, SettingsAssumption DEF Objects, MaxAttempts, IInv, TypeOK
    <3> QED
      BY <1>4, <2>2, <2>3, <2>5, <3>1, <3>2, SettingKept DEF Budgeted, NeverRevived, Covers, NoRow
  <2> QED
    BY <2>2, <2>4, <2>5, SettingKept DEF JobInv
<1> QED
  BY <1>5, <1>6, <1>7, OneJobStep

LEMMA PushKeeps ==
    ASSUME IInv, UNCHANGED setting, NEW S \in SUBSET Jobs, Push(S)
    PROVE  IInv'
<1> USE DEF Push, StillUp, Running
<1> DEFINE s == [store EXCEPT !.pending = @ \cup S]
<1>1. up = "up" /\ unlinking = {} /\ store \in Stores /\ object \in Objects
  BY DEF IInv, TypeOK, Stores, Objects
<1>2. /\ s \in Stores /\ s.pending = store.pending \cup S /\ s.mark = store.mark /\ s.rows = store.rows
      /\ s.dlq = store.dlq /\ s.lost = store.lost
  BY <1>1 DEF Stores
<1>3. store' \in FlushIfReady(s, object) \/ store' = s
  OBVIOUS
<1> HIDE DEF s
<1>4. store' \in Stores /\ \A k \in Jobs : Flushed(s, store', object, k)
  BY <1>1, <1>2, <1>3, FlushIfReadyEffect DEF Flushed, SameBuffer, SameTables
<1>5. TypeOK'
  BY <1>4 DEF IInv, TypeOK, Stores, MaxStops
<1>6. ASSUME NEW k \in Jobs \ S
      PROVE  JobInv(k)'
  <2>1. Flushed(store, store', object, k)
    BY <1>2, <1>4, <1>6 DEF Flushed, SameBuffer, SameTables, Landed, GivenUp, RowOf
  <2>2. Aside(k)
    BY <1>1, <1>6, <2>1 DEF Aside, MemoryKept, HistoryKept
  <2> QED
    BY <2>2, AsideKeeps DEF IInv
<1>7. ASSUME NEW k \in S
      PROVE  JobInv(k)'
  <2> k \in Jobs /\ k \notin admitted
    OBVIOUS
  <2>1. /\ Fresh(k)
        /\ k \in queued' /\ k \notin processing' /\ jobIndex'[k] = "queue" /\ k \in admitted'
    BY DEF IInv, JobInv, Fresh
  <2>2. object[k] = [attempts |-> 0, stalls |-> 0] /\ runs[k] = 0 /\ memDlq[k] = 0 /\ store.mark[k] = "none"
        /\ k \notin durable /\ k \notin finished
    BY <2>1 DEF Fresh, NewObject
  <2>3. /\ k \notin store.lost /\ store.rows[k] = NoRow /\ store.dlq[k] = 0
    BY <2>1 DEF Fresh
  <2>4. /\ store'.mark[k] = "none"
        /\ \/ k \in store'.pending /\ store'.rows[k] = NoRow /\ store'.dlq[k] = 0
           \/ /\ k \notin store'.pending /\ store'.dlq[k] = 0
              /\ store'.rows[k] = [state |-> "waiting", attempts |-> 0, stalls |-> 0]
           \/ /\ k \notin store'.pending /\ store'.dlq[k] \in {0, 1} /\ k \in store'.lost
              /\ store'.rows[k] = NoRow
    BY <1>2, <1>4, <2>1, <2>2, <2>3 DEF Flushed, SameBuffer, SameTables, Landed, GivenUp, RowOf
  <2>5. \/ DiskRow(k)'.state = "waiting"
        \/ /\ DiskRow(k)' = NoRow /\ store'.rows[k] = NoRow
           /\ k \notin store'.pending /\ k \in store'.lost
    BY <2>2, <2>4 DEF DiskRow, RowOf
  <2>6. /\ RowsSound(k)' /\ Placed(k)' /\ Fresh(k)' /\ Stopped(k)'
    BY <1>1, <2>1, <2>2, <2>4, <2>5 DEF RowsSound, Placed, Fresh, Stopped, NoRow
  <2>7. InOneTable(k)' /\ Survives(k)' /\ NotForgotten(k)'
    BY <2>2, <2>4 DEF InOneTable, Survives, NotForgotten, NoRow
  <2>8. Mirrored(k)' /\ Budgeted(k)' /\ NeverRevived(k)'
    <3>1. MaxAttempts' \in Nat \ {0}
      BY SettingsAssumption DEF MaxAttempts, IInv, TypeOK
    <3>2. MemoryState(k)' = "waiting"
      BY <2>1 DEF MemoryState
    <3>3. store'.rows[k] # NoRow =>
             store'.rows[k].attempts = object'[k].attempts /\ store'.rows[k].stalls = object'[k].stalls
      BY <2>2, <2>4
    <3>4. k \notin store'.lost => store'.dlq[k] = 0 /\ memDlq'[k] = 0
      BY <2>2, <2>4
    <3>5. Mirrored(k)'
      BY <2>5, <3>2, <3>3, <3>4 DEF Mirrored
    <3> QED
      BY <2>1, <2>2, <2>4, <3>1, <3>5 DEF Budgeted, Covers, NeverRevived, NoRow
  <2> QED
    BY <2>6, <2>7, <2>8 DEF JobInv
<1> QED
  BY <1>5, <1>6, <1>7 DEF IInv

LEMMA PushDurableKeeps ==
    ASSUME IInv, UNCHANGED setting, NEW j \in Jobs, PushDurable(j)
    PROVE  IInv'
<1> USE DEF PushDurable, StillUp, Place
<1>1. /\ JobInv(j) /\ up = "up" /\ unlinking = {} /\ store \in Stores /\ object \in Objects
      /\ j \notin admitted
  BY RunningJob
<1>2. /\ object[j] = [attempts |-> 0, stalls |-> 0] /\ runs[j] = 0 /\ memDlq[j] = 0
      /\ store.mark[j] = "none" /\ store.dlq[j] = 0 /\ j \notin finished /\ j \notin store.pending
      /\ j \notin processing
  BY <1>1 DEF JobInv, Fresh, NewObject
<1>3. /\ store' \in Stores /\ store'.pending = store.pending /\ store'.mark = store.mark
      /\ store'.dlq = store.dlq /\ store'.lost = store.lost
      /\ \A k \in Jobs : store'.rows[k] = IF k \in {j} THEN RowOf(store, object, k) ELSE store.rows[k]
  BY <1>1, InsertEffect
<1>4. store'.rows[j] = [state |-> "waiting", attempts |-> 0, stalls |-> 0]
  <2>1. store'.rows[j] = RowOf(store, object, j)
    BY <1>3
  <2> QED
    BY <1>2, <2>1 DEF RowOf
<1>5. TypeOK'
  BY <1>3 DEF IInv, TypeOK, Stores, MaxStops
<1>6. \A k \in Jobs \ {j} : Aside(k)
  BY <1>1, <1>3
     DEF IInv, TypeOK, Aside, MemoryKept, HistoryKept, Flushed, SameBuffer, SameTables
<1>7. JobInv(j)'
  <2>1. MemoryState(j)' = "waiting" /\ DiskRow(j)' = store'.rows[j]
    BY <1>2, <1>3 DEF MemoryState, DiskRow
  <2>2. jobIndex'[j] = "queue" /\ MaxAttempts' \in Nat \ {0}
    BY SettingsAssumption DEF MaxAttempts, IInv, TypeOK
  <2>3. RowsSound(j)' /\ Placed(j)' /\ Fresh(j)' /\ Stopped(j)'
    <3>1. RowsSound(j)'
      BY <1>2, <1>3, <1>4, <2>1 DEF RowsSound
    <3>2. Placed(j)' /\ Fresh(j)' /\ Stopped(j)'
      BY <1>1, <1>2, <2>2 DEF Placed, Fresh, Stopped
    <3> QED
      BY <3>1, <3>2
  <2>4. InOneTable(j)' /\ Survives(j)' /\ NotForgotten(j)'
    BY <1>2, <1>3, <1>4 DEF InOneTable, Survives, NotForgotten, NoRow
  <2>5. Mirrored(j)' /\ Budgeted(j)' /\ NeverRevived(j)'
    BY <1>2, <1>3, <1>4, <2>1, <2>2 DEF Mirrored, Budgeted, Covers, NeverRevived
  <2> QED
    BY <2>3, <2>4, <2>5 DEF JobInv
<1> QED
  BY <1>5, <1>6, <1>7, OneJobStep

\* A job that leaves memory and the buffer, and whose row goes with it unless
\* the write fails.
LEMMA AwayKeeps ==
    ASSUME IInv, UNCHANGED <<setting, up>>, NEW j \in admitted, store' \in Stores,
           up = "up",
           j \notin queued' \cup processing' \cup unlinking', j \notin store'.pending, j \in admitted',
           store'.rows[j] = NoRow \/ (May("write") /\ store'.rows[j] = store.rows[j]),
           jobIndex'[j] # "completed", runs'[j] = runs[j],
           InOneTable(j)', Survives(j)',
           ~May("write") /\ ~May("torn") /\ j \notin store'.lost =>
               store'.dlq[j] <= 1 /\ memDlq'[j] = store'.dlq[j]
    PROVE  JobInv(j)'
<1>1. JobInv(j)
  BY DEF IInv, TypeOK
<1>2. RowsSound(j)' /\ Placed(j)' /\ Fresh(j)' /\ Stopped(j)' /\ NotForgotten(j)'
  BY <1>1 DEF JobInv, RowsSound, Placed, Fresh, Stopped, NotForgotten
<1>3. ASSUME ~May("write")
      PROVE  Mirrored(j)' /\ Budgeted(j)' /\ NeverRevived(j)'
  <2>1. store'.rows[j] = NoRow /\ DiskRow(j)' = NoRow /\ MemoryState(j)' = "none"
    BY <1>3 DEF DiskRow, MemoryState
  <2>2. runs'[j] <= MaxAttempts'
    BY <1>1, <1>3, SettingKept DEF JobInv, Budgeted
  <2> QED
    BY <1>3, <2>1, <2>2, SettingKept DEF Mirrored, Budgeted, Covers, NeverRevived, NoRow
<1> QED
  BY <1>2, <1>3, SettingKept DEF JobInv

LEMMA AckRemoveKeeps ==
    ASSUME IInv, UNCHANGED setting, NEW j \in Jobs, AckRemove(j)
    PROVE  IInv'
<1> USE DEF AckRemove, StillUp, Place
<1> DEFINE u == RemovePending(store, j)
<1>1. /\ JobInv(j) /\ up = "up" /\ unlinking = {} /\ store \in Stores /\ object \in Objects
      /\ j \in store.pending => store.rows[j] = NoRow /\ store.dlq[j] = 0
  BY RunningJob
<1>2. /\ OthersUntouched(store, u, j) /\ SameTables(store, u, j) /\ j \notin u.pending
      /\ (j \in u.lost <=> j \in store.lost) /\ u \in Stores
  BY <1>1, RemovePendingEffect DEF OthersUntouched
<1> HIDE DEF u
<1>3. /\ OthersUntouched(u, DeleteRow(u, j), j) /\ SameBuffer(u, DeleteRow(u, j), j)
      /\ DeleteRow(u, j).rows[j] = NoRow /\ DeleteRow(u, j).dlq = u.dlq
  BY <1>2, DeleteRowEffect
<1>4. store' = DeleteRow(u, j) \/ (May("write") /\ store' = u)
  BY DEF u
<1>5. OthersUntouched(store, store', j)
  BY <1>2, <1>3, <1>4, UntouchedChain
<1>6. /\ j \notin store'.pending /\ (j \in store'.lost <=> j \in store.lost) /\ store'.dlq[j] = store.dlq[j]
      /\ store'.rows[j] = NoRow \/ (May("write") /\ store'.rows[j] = store.rows[j])
  BY <1>2, <1>3, <1>4 DEF SameBuffer, SameTables
<1>7. store' \in Stores /\ \A k \in Jobs \ {j} : Flushed(store, store', object, k)
  BY <1>5, UntouchedIsFlushed
<1>8. /\ jobIndex'[j] \in {"none", "processing"}
      /\ durable' = durable \ {j} \/ (durable' = durable /\ May("write") /\ store' = u)
      /\ jobIndex' \in [Jobs -> {"none", "queue", "processing", "completed", "dlq"}]
      /\ durable' \subseteq Jobs
      /\ \A k \in Jobs \ {j} : (k \in finished' <=> k \in finished) /\ (k \in durable' <=> k \in durable)
  BY DEF IInv, TypeOK, u
<1>9. TypeOK'
  BY <1>7, <1>8 DEF IInv, TypeOK, Stores, MaxStops
<1>10. \A k \in Jobs \ {j} : Aside(k)
  BY <1>1, <1>7, <1>8 DEF IInv, TypeOK, Aside, MemoryKept, HistoryKept
<1>11. JobInv(j)'
  <2>1. j \in admitted /\ j \notin queued' \cup processing'
    BY <1>1 DEF JobInv, Fresh, Placed
  <2>2. Survives(j)'
    BY <1>1, <1>2, <1>6, <1>8 DEF JobInv, Survives, SameTables
  <2>3. InOneTable(j)'
    BY <1>1, <1>6, SettingKept DEF JobInv, InOneTable
  <2>4. ~May("write") /\ ~May("torn") /\ j \notin store'.lost =>
           store'.dlq[j] <= 1 /\ memDlq'[j] = store'.dlq[j]
    BY <1>1, <1>6 DEF JobInv, Mirrored
  <2> QED
    BY <1>1, <1>6, <1>7, <1>8, <2>1, <2>2, <2>3, <2>4, AwayKeeps
<1> QED
  BY <1>9, <1>10, <1>11, OneJobStep

LEMMA CancelKeeps ==
    ASSUME IInv, UNCHANGED setting, NEW j \in Jobs, Cancel(j)
    PROVE  IInv'
<1> USE DEF Cancel, StillUp, Place
<1>1. /\ JobInv(j) /\ up = "up" /\ unlinking = {} /\ store \in Stores /\ object \in Objects
      /\ j \in store.pending => store.rows[j] = NoRow /\ store.dlq[j] = 0
  BY RunningJob
<1>2. /\ OthersUntouched(store, store', j)
      /\ j \notin store'.pending /\ (j \in store'.lost <=> j \in store.lost) /\ store'.dlq[j] = store.dlq[j]
      /\ store'.rows[j] = NoRow \/ (May("write") /\ store'.rows[j] = store.rows[j])
  BY <1>1, DeleteJobEffect
<1>3. store' \in Stores /\ \A k \in Jobs \ {j} : Flushed(store, store', object, k)
  BY <1>2, UntouchedIsFlushed
<1>4. TypeOK'
  BY <1>3 DEF IInv, TypeOK, Stores, MaxStops
<1>5. \A k \in Jobs \ {j} : Aside(k)
  BY <1>1, <1>3 DEF IInv, TypeOK, Aside, MemoryKept, HistoryKept
<1>6. JobInv(j)'
  <2>1. j \in admitted /\ j \notin queued' \cup processing' /\ jobIndex'[j] = "none"
    BY <1>1 DEF JobInv, Fresh, Placed, IInv, TypeOK
  <2>2. Survives(j)'
    BY DEF Survives
  <2>3. InOneTable(j)'
    BY <1>1, <1>2, SettingKept DEF JobInv, InOneTable
  <2>4. ~May("write") /\ ~May("torn") /\ j \notin store'.lost =>
           store'.dlq[j] <= 1 /\ memDlq'[j] = store'.dlq[j]
    BY <1>1, <1>2 DEF JobInv, Mirrored
  <2> QED
    BY <1>1, <1>2, <1>3, <2>1, <2>2, <2>3, <2>4, AwayKeeps
<1> QED
  BY <1>4, <1>5, <1>6, OneJobStep

LEMMA FinishUnlinkKeeps ==
    ASSUME IInv, UNCHANGED setting, NEW j \in Jobs, FinishUnlink(j)
    PROVE  IInv'
<1> USE DEF FinishUnlink, StillUp, memory, histories
<1>1. JobInv(j) /\ up = "up" /\ unlinking = {j} /\ store \in Stores
  BY DEF IInv, TypeOK, JobInv, Placed, Stores
<1>2. /\ OthersUntouched(store, store', j)
      /\ j \notin store'.pending /\ (j \in store'.lost <=> j \in store.lost) /\ store'.dlq[j] = store.dlq[j]
      /\ store'.rows[j] = NoRow \/ (May("write") /\ store'.rows[j] = store.rows[j])
  BY <1>1, DeleteJobEffect
<1>3. store' \in Stores /\ \A k \in Jobs \ {j} : Flushed(store, store', object, k)
  BY <1>2, UntouchedIsFlushed
<1>4. TypeOK'
  BY <1>3 DEF IInv, TypeOK, Stores, MaxStops
<1>5. \A k \in Jobs \ {j} : Aside(k)
  BY <1>1, <1>3 DEF IInv, TypeOK, Aside, MemoryKept, HistoryKept
<1>6. JobInv(j)'
  <2>1. /\ j \in admitted /\ j \notin queued' \cup processing' /\ store.dlq[j] > 0
        /\ jobIndex[j] # "completed"
    BY <1>1 DEF JobInv, Fresh, Placed
  <2>2. Survives(j)'
    BY <1>2, <2>1 DEF Survives
  <2>3. store'.rows[j] # NoRow /\ ~May("torn") => store.rows[j].state = "active" /\ store'.rows[j] = store.rows[j]
    <3>1. ASSUME store'.rows[j] # NoRow, ~May("torn")
          PROVE  store.rows[j].state = "active"
      <4>1. store.rows[j] # NoRow /\ store.rows[j].state # "waiting"
        BY <1>2, <3>1 DEF Torn
      <4>2. j \notin store.pending /\ store.rows[j].state \notin {"none", "completed"}
        BY <1>1, <4>1 DEF JobInv, RowsSound, DiskRow
      <4> QED
        BY <1>1, <4>1, <4>2 DEF Stores, Rows, RowStates
    <3> QED
      BY <1>2, <3>1
  <2>4. InOneTable(j)'
    BY <2>1, <2>3, SettingKept DEF InOneTable
  <2>5. ~May("write") /\ ~May("torn") /\ j \notin store'.lost =>
           store'.dlq[j] <= 1 /\ memDlq'[j] = store'.dlq[j]
    BY <1>1, <1>2 DEF JobInv, Mirrored
  <2> QED
    BY <1>1, <1>2, <1>3, <2>1, <2>2, <2>4, <2>5, AwayKeeps
<1> QED
  BY <1>4, <1>5, <1>6, OneJobStep

\* A run that ended without success and is to be repeated.
LEMMA RetriedKeeps ==
    ASSUME IInv, UNCHANGED <<setting, up, memDlq, unlinking, admitted, durable, runs, finished>>, Running,
           NEW j \in processing,
           TypeOK', j \in queued', j \notin processing', jobIndex'[j] = "queue",
           object'[j].attempts = object[j].attempts + 1, object'[j].attempts < MaxAttempts,
           store' \in UpdateForRetry(store, object', j)
    PROVE  JobInv(j)'
<1>1. /\ j \in Jobs /\ JobInv(j) /\ up = "up" /\ unlinking = {} /\ store \in Stores
      /\ j \in store.pending => store.rows[j] = NoRow /\ store.dlq[j] = 0
  BY RunningJob DEF IInv, TypeOK
<1>2. object' \in Objects /\ object[j].attempts \in Nat
  BY <1>1 DEF IInv, TypeOK, Objects
<1>3. /\ j \in store'.pending <=> j \in store.pending
      /\ j \in store'.lost <=> j \in store.lost
      /\ store'.dlq[j] = store.dlq[j]
      /\ j \in store.pending => store'.mark[j] = "waiting"
      /\ store.rows[j] = NoRow => store'.rows[j] = NoRow
      /\ store.rows[j] # NoRow =>
            \/ store'.rows[j] = [state |-> "waiting", attempts |-> object'[j].attempts,
                                 stalls |-> object'[j].stalls]
            \/ May("write") /\ store'.rows[j] = store.rows[j]
  BY <1>1, <1>2, UpdateForRetryEffect DEF SameBuffer
<1>4. j \in admitted /\ store.rows[j].state # "completed" /\ j \notin queued
  BY <1>1 DEF JobInv, Fresh, RowsSound, Placed, DiskRow, NoRow
<1>5. j \in store'.pending => DiskRow(j)'.state = "waiting"
  BY <1>3 DEF DiskRow, RowOf
<1>6. store'.rows[j] # NoRow =>
         store'.rows[j].state = "waiting" \/ (May("write") /\ store'.rows[j] = store.rows[j])
  BY <1>3
<1>7. RowsSound(j)'
  <2>1. store'.rows[j].state = "none" => store'.rows[j] = NoRow
    BY <1>1, <1>3, <1>6 DEF JobInv, RowsSound
  <2>2. DiskRow(j)'.state # "completed"
    <3>1. CASE j \in store'.pending
      BY <1>5, <3>1
    <3>2. CASE j \notin store'.pending
      BY <1>3, <1>4, <1>6, <3>2 DEF DiskRow, NoRow
    <3> QED
      BY <3>1, <3>2
  <2> QED
    BY <1>1, <1>3, <2>1, <2>2 DEF RowsSound
<1>8. Placed(j)' /\ Fresh(j)' /\ Stopped(j)'
  BY <1>1, <1>4 DEF Placed, Fresh, Stopped
<1>9. InOneTable(j)'
  BY <1>1, <1>3, SettingKept DEF JobInv, InOneTable
<1>10. Survives(j)' /\ NotForgotten(j)'
  <2>1. store'.rows[j] = NoRow => store.rows[j] = NoRow
    BY <1>3 DEF NoRow
  <2> QED
    BY <1>1, <1>3, <2>1, SettingKept DEF JobInv, Survives, NotForgotten
<1>11. ASSUME ~May("write")
       PROVE  Mirrored(j)' /\ Budgeted(j)' /\ NeverRevived(j)'
  <2>1. Mirrored(j) /\ Budgeted(j) /\ NeverRevived(j) /\ MemoryState(j)' = "waiting" /\ MemoryState(j) = "active"
    BY <1>1, <1>4, <1>11 DEF JobInv, MemoryState
  <2>2. store'.rows[j] # NoRow =>
           /\ store'.rows[j].state = "waiting" /\ store'.rows[j].attempts = object'[j].attempts
           /\ store'.rows[j].stalls = object'[j].stalls
    BY <1>3, <1>11
  <2>3. store'.rows[j] = NoRow => store.rows[j] = NoRow
    BY <1>3 DEF NoRow
  <2>4. \/ DiskRow(j)'.state = "waiting"
        \/ j \notin store'.pending /\ store'.rows[j] = NoRow /\ (j \in store'.lost \/ May("torn"))
    <3>1. CASE j \in store'.pending
      BY <1>5, <3>1
    <3>2. CASE j \notin store'.pending /\ store'.rows[j] # NoRow
      BY <2>2, <3>2 DEF DiskRow
    <3>3. CASE j \notin store'.pending /\ store'.rows[j] = NoRow
      BY <1>1, <1>3, <2>1, <2>3, <3>3 DEF Mirrored, DiskRow, NoRow
    <3> QED
      BY <3>1, <3>2, <3>3
  <2>5. Mirrored(j)'
    BY <1>1, <1>3, <2>1, <2>2, <2>4, SettingKept DEF Mirrored
  <2>6. runs[j] <= object'[j].attempts
    BY <1>4, <2>1 DEF Budgeted, Covers
  <2>7. Budgeted(j)'
    BY <2>1, <2>2, <2>6, SettingKept DEF Budgeted, Covers, NoRow
  <2> QED
    BY <2>1, <2>5, <2>7 DEF NeverRevived
<1> QED
  BY <1>7, <1>8, <1>9, <1>10, <1>11, SettingKept DEF JobInv

LEMMA BeginUnlinkEffect ==
    ASSUME store \in Stores, NEW j \in Jobs, BeginUnlink(j)
    PROVE  /\ OthersUntouched(store, store', j) /\ SameBuffer(store, store', j)
           /\ store'.rows = store.rows /\ store'.mark = store.mark
           /\ \/ unlinking' = {j} /\ store'.dlq[j] = store.dlq[j] + 1
              \/ unlinking' = {} /\ store' = store /\ May("write")
<1> DEFINE t == Bury(store, {j})
<1>1. /\ OthersUntouched(store, t, j) /\ SameBuffer(store, t, j) /\ t.rows = store.rows
      /\ t.mark = store.mark /\ t.dlq[j] = store.dlq[j] + 1
  BY BuryOneEffect
<1>2. store.dlq[j] \in Nat
  BY DEF Stores
<1>3. t # store
  BY <1>1, <1>2
<1>4. store' = t \/ (store' = store /\ May("write"))
  BY DEF BeginUnlink, Tried
<1> HIDE DEF t
<1>5. CASE store' = t
  BY <1>1, <1>3, <1>5 DEF BeginUnlink
<1>6. CASE store' = store /\ May("write")
  BY <1>6 DEF BeginUnlink, OthersUntouched, Untouched, SameBuffer, SameTables
<1> QED
  BY <1>4, <1>5, <1>6

\* A job that is buried by two transactions, at the first of them.
LEMMA BuriedKeeps ==
    ASSUME IInv, UNCHANGED <<setting, up, admitted, durable, runs, finished>>, Running,
           NEW j \in queued \cup processing,
           j \notin queued' \cup processing', jobIndex'[j] = "dlq", memDlq'[j] = memDlq[j] + 1,
           BeginUnlink(j)
    PROVE  JobInv(j)'
<1>1. /\ j \in Jobs /\ JobInv(j) /\ up = "up" /\ unlinking = {} /\ store \in Stores
      /\ j \in store.pending => store.rows[j] = NoRow /\ store.dlq[j] = 0
  BY RunningJob DEF IInv, TypeOK
<1>2. /\ j \in store'.pending <=> j \in store.pending
      /\ j \in store'.lost <=> j \in store.lost
      /\ store'.rows = store.rows /\ store'.mark = store.mark
      /\ \/ unlinking' = {j} /\ store'.dlq[j] = store.dlq[j] + 1
         \/ unlinking' = {} /\ store'.dlq[j] = store.dlq[j] /\ May("write")
  BY <1>1, BeginUnlinkEffect DEF SameBuffer
<1>3. store.dlq[j] \in Nat /\ j \in admitted
  BY <1>1 DEF Stores, JobInv, Fresh
<1>4. RowsSound(j)'
  <2>1. DiskRow(j)'.state = DiskRow(j).state
    BY <1>2 DEF DiskRow, RowOf
  <2> QED
    BY <1>1, <1>2, <2>1 DEF JobInv, RowsSound
<1>5. Placed(j)' /\ Fresh(j)' /\ Stopped(j)' /\ NotForgotten(j)' /\ Survives(j)'
  BY <1>1, <1>2, <1>3 DEF JobInv, Placed, Fresh, Stopped, NotForgotten, Survives
<1>6. InOneTable(j)'
  BY <1>1, <1>2, SettingKept DEF JobInv, InOneTable
<1>7. ASSUME ~May("write")
      PROVE  Mirrored(j)' /\ Budgeted(j)' /\ NeverRevived(j)'
  <2>1. ASSUME ~May("torn"), j \notin store.lost
        PROVE  store.dlq[j] = 0 /\ memDlq[j] = 0
    <3>1. store.dlq[j] = 0
      BY <1>1, <1>3, <2>1 DEF JobInv, NotForgotten, InOneTable
    <3> QED
      BY <1>1, <1>7, <2>1, <3>1 DEF JobInv, Mirrored
  <2>2. Mirrored(j)'
    BY <1>2, <1>7, <2>1, SettingKept DEF Mirrored
  <2>3. Budgeted(j)' /\ NeverRevived(j)'
    BY <1>1, <1>2, <1>7, SettingKept DEF JobInv, Budgeted, Covers, NeverRevived
  <2> QED
    BY <2>2, <2>3
<1> QED
  BY <1>4, <1>5, <1>6, <1>7, SettingKept DEF JobInv

LEMMA FailKeeps ==
    ASSUME IInv, UNCHANGED setting, NEW j \in Jobs, Fail(j)
    PROVE  IInv'
<1> USE DEF Fail, StillUp, Place
<1>1. /\ JobInv(j) /\ up = "up" /\ unlinking = {} /\ store \in Stores /\ object \in Objects
      /\ j \in store.pending => store.rows[j] = NoRow /\ store.dlq[j] = 0
  BY RunningJob
<1>2. object' \in Objects /\ object'[j].attempts = object[j].attempts + 1 /\ MaxAttempts' = MaxAttempts
  BY <1>1, SettingKept DEF Objects
<1>3. j \in admitted /\ j \notin queued /\ j \notin unlinking'
  BY <1>1 DEF JobInv, Fresh, Placed
<1>4. ASSUME OthersUntouched(store, store', j), queued' \in {queued, queued \cup {j}},
             jobIndex' \in [Jobs -> {"none", "queue", "processing", "completed", "dlq"}],
             \A k \in Jobs \ {j} : jobIndex'[k] = jobIndex[k] /\ memDlq'[k] = memDlq[k],
             memDlq' \in [Jobs -> Nat], durable' \in {durable, durable \ {j}}
      PROVE  TypeOK' /\ \A k \in Jobs \ {j} : Aside(k)
  <2>1. store' \in Stores /\ \A k \in Jobs \ {j} : Flushed(store, store', object, k)
    BY <1>4, UntouchedIsFlushed
  <2>2. TypeOK'
    BY <1>2, <1>4, <2>1 DEF IInv, TypeOK, Stores, Objects, MaxStops
  <2> QED
    BY <1>1, <1>4, <2>1, <2>2 DEF IInv, TypeOK, Aside, MemoryKept, HistoryKept
<1>5. CASE /\ object'[j].attempts < MaxAttempts
           /\ Place(queued \cup {j}, processing \ {j}, j, "queue")
           /\ store' \in UpdateForRetry(store, object', j)
           /\ UNCHANGED <<memDlq, durable>>
  <2>1. OthersUntouched(store, store', j)
    BY <1>1, <1>2, <1>5, UpdateForRetryEffect
  <2>2. TypeOK' /\ \A k \in Jobs \ {j} : Aside(k)
    BY <1>4, <1>5, <2>1 DEF IInv, TypeOK
  <2>3. jobIndex'[j] = "queue"
    BY <1>5 DEF IInv, TypeOK
  <2>4. JobInv(j)'
    BY <1>2, <1>5, <2>2, <2>3, RetriedKeeps
  <2> QED
    BY <2>2, <2>4, OneJobStep
<1>6. CASE /\ Place(queued, processing \ {j}, j, "dlq")
           /\ memDlq' = [memDlq EXCEPT ![j] = @ + 1]
           /\ store' \in CommitFailedJob(store, j, {j})
           /\ UNCHANGED durable
  <2>1. /\ OthersUntouched(store, store', j)
        /\ j \notin store'.pending /\ (j \in store'.lost <=> j \in store.lost)
        /\ \/ store'.rows[j] = NoRow /\ store'.dlq[j] = store.dlq[j] + 1
           \/ May("write") /\ SameTables(store, store', j)
    BY <1>1, <1>6, CommitFailedEffect
  <2>2. TypeOK' /\ \A k \in Jobs \ {j} : Aside(k)
    BY <1>4, <1>6, <2>1 DEF IInv, TypeOK
  <2>3. jobIndex'[j] = "dlq" /\ memDlq'[j] = memDlq[j] + 1 /\ store.dlq[j] \in Nat
    BY <1>1, <1>6 DEF IInv, TypeOK, Stores
  <2>4. InOneTable(j)'
    BY <1>1, <2>1, SettingKept DEF JobInv, InOneTable, SameTables
  <2>5. Survives(j)'
    BY <1>1, <1>6, <2>1, <2>3 DEF JobInv, Survives, SameTables
  <2>6. ASSUME ~May("write"), ~May("torn"), j \notin store'.lost
        PROVE  store'.dlq[j] <= 1 /\ memDlq'[j] = store'.dlq[j]
    <3>1. store.dlq[j] = 0
      BY <1>1, <2>1, <2>3, <2>6 DEF JobInv, NotForgotten, InOneTable
    <3>2. memDlq[j] = 0
      BY <1>1, <2>1, <2>6, <3>1 DEF JobInv, Mirrored
    <3> QED
      BY <2>1, <2>3, <2>6, <3>1, <3>2
  <2>7. store' \in Stores /\ j \notin queued' \cup processing' \cup unlinking'
    BY <1>3, <1>6, <2>1 DEF OthersUntouched
  <2>8. store'.rows[j] = NoRow \/ (May("write") /\ store'.rows[j] = store.rows[j])
    BY <2>1 DEF SameTables
  <2>9. JobInv(j)'
    BY <1>1, <1>3, <2>1, <2>3, <2>4, <2>5, <2>6, <2>7, <2>8, AwayKeeps
  <2> QED
    BY <2>2, <2>9, OneJobStep
<1>7. CASE /\ Place(queued, processing \ {j}, j, "none")
           /\ store' \in CommitFailedJob(store, j, {})
           /\ durable' = durable \ {j}
           /\ UNCHANGED memDlq
  <2>1. /\ OthersUntouched(store, store', j)
        /\ j \notin store'.pending /\ (j \in store'.lost <=> j \in store.lost)
        /\ store'.rows[j] = NoRow \/ (May("write") /\ store'.rows[j] = store.rows[j])
        /\ store'.dlq[j] = store.dlq[j]
    BY <1>1, <1>7, CommitFailedEffect DEF SameTables
  <2>2. TypeOK' /\ \A k \in Jobs \ {j} : Aside(k)
    BY <1>4, <1>7, <2>1 DEF IInv, TypeOK
  <2>3. jobIndex'[j] = "none"
    BY <1>7 DEF IInv, TypeOK
  <2>4. InOneTable(j)' /\ Survives(j)'
    BY <1>1, <1>7, <2>1, SettingKept DEF JobInv, InOneTable, Survives
  <2>5. ~May("write") /\ ~May("torn") /\ j \notin store'.lost =>
           store'.dlq[j] <= 1 /\ memDlq'[j] = store'.dlq[j]
    BY <1>1, <1>7, <2>1 DEF JobInv, Mirrored
  <2>6. store' \in Stores /\ j \notin queued' \cup processing' \cup unlinking'
    BY <1>3, <1>7, <2>1 DEF OthersUntouched
  <2>7. JobInv(j)'
    BY <1>1, <1>3, <2>1, <2>3, <2>4, <2>5, <2>6, AwayKeeps
  <2> QED
    BY <2>2, <2>7, OneJobStep
<1> QED
  BY <1>5, <1>6, <1>7

LEMMA StallKeeps ==
    ASSUME IInv, UNCHANGED setting, NEW j \in Jobs, Stall(j)
    PROVE  IInv'
<1> USE DEF Stall, StillUp, Place, histories
<1>1. /\ JobInv(j) /\ up = "up" /\ unlinking = {} /\ store \in Stores /\ object \in Objects
      /\ j \in store.pending => store.rows[j] = NoRow /\ store.dlq[j] = 0
  BY RunningJob
<1>2. object' \in Objects /\ object'[j].attempts = object[j].attempts + 1
  BY <1>1 DEF Objects
<1>3. CASE /\ object'[j].attempts < MaxAttempts
           /\ Place(queued \cup {j}, processing \ {j}, j, "queue")
           /\ store' \in UpdateForRetry(store, object', j)
           /\ UNCHANGED <<memDlq, unlinking>>
  <2>1. OthersUntouched(store, store', j)
    BY <1>1, <1>2, <1>3, UpdateForRetryEffect
  <2>2. store' \in Stores /\ \A k \in Jobs \ {j} : Flushed(store, store', object, k)
    BY <2>1, UntouchedIsFlushed
  <2>3. TypeOK'
    BY <1>2, <1>3, <2>2 DEF IInv, TypeOK, Stores, Objects, MaxStops
  <2>4. \A k \in Jobs \ {j} : Aside(k)
    BY <1>1, <1>3, <2>2 DEF IInv, TypeOK, Aside, MemoryKept, HistoryKept
  <2>5. jobIndex'[j] = "queue" /\ j \notin queued
    BY <1>1, <1>3 DEF IInv, TypeOK, JobInv, Placed
  <2>6. JobInv(j)'
    BY <1>2, <1>3, <2>3, <2>5, RetriedKeeps
  <2> QED
    BY <2>3, <2>4, <2>6, OneJobStep
<1>4. CASE /\ Place(queued, processing \ {j}, j, "dlq")
           /\ memDlq' = [memDlq EXCEPT ![j] = @ + 1]
           /\ BeginUnlink(j)
  <2>1. OthersUntouched(store, store', j) /\ unlinking' \subseteq {j}
    BY <1>1, <1>4, BeginUnlinkEffect
  <2>2. store' \in Stores /\ \A k \in Jobs \ {j} : Flushed(store, store', object, k)
    BY <2>1, UntouchedIsFlushed
  <2>3. TypeOK'
    BY <1>2, <1>4, <2>1, <2>2 DEF IInv, TypeOK, Stores, Objects, MaxStops
  <2>4. \A k \in Jobs \ {j} : Aside(k)
    BY <1>1, <1>4, <2>1, <2>2 DEF IInv, TypeOK, Aside, MemoryKept, HistoryKept
  <2>5. j \notin queued' \cup processing' /\ jobIndex'[j] = "dlq" /\ memDlq'[j] = memDlq[j] + 1
    BY <1>1, <1>4 DEF IInv, TypeOK, JobInv, Placed
  <2>6. JobInv(j)'
    BY <1>4, <2>5, BuriedKeeps
  <2> QED
    BY <2>3, <2>4, <2>6, OneJobStep
<1>5. MaxAttempts \in Nat /\ object'[j].attempts \in Nat
  BY <1>2, SettingsAssumption DEF Objects, MaxAttempts, IInv, TypeOK
<1> QED
  BY <1>3, <1>4, <1>5

LEMMA DiscardKeeps ==
    ASSUME IInv, UNCHANGED setting, NEW j \in Jobs, Discard(j)
    PROVE  IInv'
<1> USE DEF Discard, StillUp, Place, histories
<1>1. /\ JobInv(j) /\ up = "up" /\ unlinking = {} /\ store \in Stores
      /\ j \in store.pending => store.rows[j] = NoRow /\ store.dlq[j] = 0
  BY RunningJob
<1>2. OthersUntouched(store, store', j) /\ unlinking' \subseteq {j}
  BY <1>1, BeginUnlinkEffect
<1>3. store' \in Stores /\ \A k \in Jobs \ {j} : Flushed(store, store', object, k)
  BY <1>2, UntouchedIsFlushed
<1>4. TypeOK'
  BY <1>2, <1>3 DEF IInv, TypeOK, Stores, Objects, MaxStops
<1>5. \A k \in Jobs \ {j} : Aside(k)
  BY <1>1, <1>2, <1>3 DEF IInv, TypeOK, Aside, MemoryKept, HistoryKept
<1>6. /\ j \in queued \cup processing /\ j \notin queued' \cup processing' /\ jobIndex'[j] = "dlq"
      /\ memDlq'[j] = memDlq[j] + 1
  BY DEF IInv, TypeOK
<1>7. JobInv(j)'
  BY <1>6, BuriedKeeps
<1> QED
  BY <1>4, <1>5, <1>7, OneJobStep

\* A job that leaves the buffer because a transaction begins with that, and
\* fails; memory is not changed.
LEMMA UnbufferedKeeps ==
    ASSUME IInv, UNCHANGED <<setting, up, memory, unlinking, histories>>, Running, May("write"),
           NEW j \in Jobs, store' = RemovePending(store, j),
           j \in queued \cup processing => May("torn")
    PROVE  JobInv(j)'
<1> USE DEF memory, histories
<1>1. /\ JobInv(j) /\ up = "up" /\ unlinking = {} /\ store \in Stores
      /\ j \in store.pending => store.rows[j] = NoRow /\ store.dlq[j] = 0
  BY RunningJob
<1>2. /\ SameTables(store, store', j) /\ j \notin store'.pending /\ (j \in store'.lost <=> j \in store.lost)
      /\ store'.mark = store.mark
  BY <1>1, RemovePendingEffect
<1>3. RowsSound(j)'
  BY <1>1, <1>2 DEF JobInv, RowsSound, DiskRow, SameTables, NoRow
<1>4. Placed(j)' /\ Fresh(j)' /\ Stopped(j)' /\ InOneTable(j)' /\ Survives(j)' /\ NotForgotten(j)'
  BY <1>1, <1>2, SettingKept
     DEF JobInv, Placed, Fresh, Stopped, InOneTable, Survives, NotForgotten, SameTables
<1> QED
  BY <1>3, <1>4, SettingKept DEF JobInv

LEMMA RetryDlqKeeps ==
    ASSUME IInv, UNCHANGED setting, NEW j \in Jobs, RetryDlq(j)
    PROVE  IInv'
<1> USE DEF RetryDlq, StillUp, Place, StartOver
<1>1. /\ JobInv(j) /\ up = "up" /\ unlinking = {} /\ store \in Stores /\ object \in Objects
      /\ j \in store.pending => store.rows[j] = NoRow /\ store.dlq[j] = 0
  BY RunningJob
<1>2. CASE /\ store' = RequeueDlqJob(RemovePending(store, j), j)
           /\ memDlq' = [memDlq EXCEPT ![j] = @ - 1]
           /\ StartOver(j, NewObject)
  <2>1. /\ OthersUntouched(store, store', j)
        /\ j \notin store'.pending /\ (j \in store'.lost <=> j \in store.lost) /\ store'.dlq[j] = 0
        /\ store'.rows[j] = [state |-> "waiting", attempts |-> 0, stalls |-> 0]
    BY <1>1, <1>2, RequeueDlqEffect
  <2>2. store' \in Stores /\ \A k \in Jobs \ {j} : Flushed(store, store', object, k)
    BY <2>1, UntouchedIsFlushed
  <2>3. memDlq[j] \in Nat \ {0} /\ memDlq' = [memDlq EXCEPT ![j] = memDlq[j] - 1] /\ memDlq[j] - 1 \in Nat
    BY <1>2 DEF IInv, TypeOK
  <2>4. TypeOK'
    BY <1>2, <2>2, <2>3 DEF IInv, TypeOK, Stores, Objects, MaxStops, NewObject
  <2>5. \A k \in Jobs \ {j} : Aside(k)
    BY <1>1, <1>2, <2>2 DEF IInv, TypeOK, Aside, MemoryKept, HistoryKept
  <2>6. /\ j \in queued' /\ j \notin processing' /\ jobIndex'[j] = "queue" /\ runs'[j] = 0
        /\ object'[j] = [attempts |-> 0, stalls |-> 0] /\ memDlq'[j] = memDlq[j] - 1
        /\ j \notin finished' /\ j \in admitted' /\ up' = "up" /\ unlinking' = {}
    BY <1>1, <1>2 DEF IInv, TypeOK, JobInv, Placed, Fresh, NewObject
  <2>7. DiskRow(j)' = store'.rows[j]
    BY <2>1 DEF DiskRow
  <2>8. RowsSound(j)' /\ Placed(j)' /\ Fresh(j)' /\ Stopped(j)'
    BY <2>1, <2>6, <2>7 DEF RowsSound, Placed, Fresh, Stopped, NoRow
  <2>9. InOneTable(j)' /\ Survives(j)' /\ NotForgotten(j)'
    BY <2>1, <2>6 DEF InOneTable, Survives, NotForgotten, NoRow
  <2>10. ASSUME ~May("write")
         PROVE  Mirrored(j)' /\ Budgeted(j)' /\ NeverRevived(j)'
    <3>1. MaxAttempts' \in Nat \ {0}
      BY SettingsAssumption DEF MaxAttempts, IInv, TypeOK
    <3>2. MemoryState(j)' = "waiting"
      BY <2>6 DEF MemoryState
    <3>3. ~May("torn") /\ j \notin store'.lost => memDlq'[j] = 0
      BY <1>1, <2>1, <2>3, <2>6, <2>10 DEF JobInv, Mirrored, Stores
    <3>4. Mirrored(j)'
      BY <2>1, <2>6, <2>7, <3>2, <3>3, SettingKept DEF Mirrored
    <3> QED
      BY <2>1, <2>6, <3>1, <3>4 DEF Budgeted, Covers, NeverRevived
  <2>11. JobInv(j)'
    BY <2>8, <2>9, <2>10, SettingKept DEF JobInv
  <2> QED
    BY <2>4, <2>5, <2>11, OneJobStep
<1>3. CASE /\ May("write")
           /\ store' = RemovePending(store, j)
           /\ UNCHANGED <<memory, histories>>
  <2>1. OthersUntouched(store, store', j)
    BY <1>1, <1>3, RemovePendingEffect
  <2>2. store' \in Stores /\ \A k \in Jobs \ {j} : Flushed(store, store', object, k)
    BY <2>1, UntouchedIsFlushed
  <2>3. TypeOK'
    BY <1>3, <2>2 DEF IInv, TypeOK, Stores, MaxStops, memory, histories
  <2>4. \A k \in Jobs \ {j} : Aside(k)
    BY <1>1, <1>3, <2>2 DEF Aside, MemoryKept, HistoryKept, memory, histories
  <2>5. j \in queued \cup processing => May("torn")
    BY <1>1 DEF JobInv, Placed
  <2>6. JobInv(j)'
    BY <1>1, <1>3, <2>5, UnbufferedKeeps
  <2> QED
    BY <2>3, <2>4, <2>6, OneJobStep
<1> QED
  BY <1>2, <1>3

LEMMA StandStill ==
    ASSUME IInv, UNCHANGED vars
    PROVE  IInv'
<1>1. TypeOK'
  BY DEF IInv, TypeOK, vars, broker, memory, histories, MaxStops
<1>2. ASSUME NEW k \in Jobs
      PROVE  JobInv(k)'
  BY SettingKept
     DEF IInv, JobInv, RowsSound, Placed, Fresh, Stopped, InOneTable, Survives, NotForgotten,
         Mirrored, Budgeted, NeverRevived, Covers, DiskRow, RowOf, MemoryState, vars, broker, memory, histories
<1> QED
  BY <1>1, <1>2 DEF IInv

LEMMA RetryCompletedKeeps ==
    ASSUME IInv, UNCHANGED setting, NEW j \in Jobs, RetryCompleted(j)
    PROVE  IInv'
<1> USE DEF RetryCompleted, StillUp, Place, StartOver
<1>1. /\ JobInv(j) /\ up = "up" /\ unlinking = {} /\ store \in Stores /\ object \in Objects
      /\ j \in store.pending => store.rows[j] = NoRow /\ store.dlq[j] = 0
  BY RunningJob
<1>2. store.rows[j].state = "completed" /\ j \notin store.pending /\ j \notin queued \cup processing
  BY <1>1 DEF JobInv, RowsSound, DiskRow, NoRow
<1>3. FlushIfBuffered(store, object, j) = {store}
  BY <1>2 DEF FlushIfBuffered
<1>4. CASE /\ store' = [store EXCEPT !.rows[j].state = "waiting", !.rows[j].attempts = 0, !.mark[j] = "none"]
           /\ StartOver(j, [attempts |-> 0, stalls |-> store.rows[j].stalls])
           /\ UNCHANGED memDlq
  <2>1. store.rows[j] \in Rows /\ store.rows \in [Jobs -> Rows] /\ store.mark \in [Jobs -> RowStates \cup {"none"}]
    BY <1>1 DEF Stores
  <2> DEFINE r == [state |-> "waiting", attempts |-> 0, stalls |-> store.rows[j].stalls]
  <2>2. /\ store' \in Stores
        /\ store'.pending = store.pending /\ store'.lost = store.lost /\ store'.dlq = store.dlq
        /\ store'.rows[j].state = "waiting" /\ store'.rows[j].attempts = 0
        /\ store'.rows[j].stalls = store.rows[j].stalls
        /\ \A k \in Jobs \ {j} : store'.rows[k] = store.rows[k] /\ store'.mark[k] = store.mark[k]
    <3>1. store'.rows = [store.rows EXCEPT ![j] = r]
      BY <1>1, <1>4, <2>1 DEF Stores, Rows
    <3>2. store'.mark = [store.mark EXCEPT ![j] = "none"]
      BY <1>1, <1>4 DEF Stores
    <3>3. /\ store'.pending = store.pending /\ store'.lost = store.lost /\ store'.dlq = store.dlq
          /\ store'.retries = store.retries /\ store'.backoff = store.backoff
      BY <1>1, <1>4 DEF Stores
    <3>4. store' = [store EXCEPT !.rows = store'.rows, !.mark = store'.mark]
      BY <1>1, <1>4, <3>1, <3>2 DEF Stores
    <3>5. r \in Rows
      BY <2>1 DEF Rows, RowStates
    <3> QED
      BY <1>1, <2>1, <3>1, <3>2, <3>3, <3>4, <3>5 DEF Stores
  <2>3. TypeOK'
    BY <1>4, <2>1, <2>2 DEF IInv, TypeOK, Stores, Rows, MaxStops
  <2>4. \A k \in Jobs \ {j} : Aside(k)
    BY <1>1, <1>4, <2>2
       DEF IInv, TypeOK, Aside, MemoryKept, HistoryKept, Flushed, SameBuffer, SameTables
  <2>5. /\ j \in queued' /\ j \notin processing' /\ jobIndex'[j] = "queue" /\ runs'[j] = 0
        /\ object'[j] = [attempts |-> 0, stalls |-> store.rows[j].stalls] /\ memDlq'[j] = memDlq[j]
        /\ j \notin finished' /\ j \in admitted' /\ up' = "up" /\ unlinking' = {}
    BY <1>1, <1>2, <1>4 DEF IInv, TypeOK, JobInv, Fresh, NoRow
  <2>6. DiskRow(j)' = store'.rows[j] /\ store'.rows[j] # NoRow
    BY <1>2, <2>2 DEF DiskRow, NoRow
  <2>7. RowsSound(j)' /\ Placed(j)' /\ Fresh(j)' /\ Stopped(j)'
    BY <1>2, <2>2, <2>5, <2>6 DEF RowsSound, Placed, Fresh, Stopped
  <2>8. InOneTable(j)'
    BY <1>1, <1>2, <2>2, SettingKept DEF JobInv, InOneTable, NoRow
  <2>9. Survives(j)' /\ NotForgotten(j)'
    BY <2>6 DEF Survives, NotForgotten
  <2>10. ASSUME ~May("write")
         PROVE  Mirrored(j)' /\ Budgeted(j)' /\ NeverRevived(j)'
    <3>1. MaxAttempts' \in Nat \ {0}
      BY SettingsAssumption DEF MaxAttempts, IInv, TypeOK
    <3>2. MemoryState(j)' = "waiting"
      BY <2>5 DEF MemoryState
    <3>3. ~May("torn") /\ j \notin store.lost => store.dlq[j] <= 1 /\ memDlq[j] = store.dlq[j]
      BY <1>1, <2>10 DEF JobInv, Mirrored
    <3>4. Mirrored(j)'
      BY <2>2, <2>5, <2>6, <3>2, <3>3, SettingKept DEF Mirrored
    <3> QED
      BY <2>2, <2>5, <3>1, <3>4 DEF Budgeted, Covers, NeverRevived
  <2>11. JobInv(j)'
    BY <2>7, <2>8, <2>9, <2>10, SettingKept DEF JobInv
  <2> QED
    BY <2>3, <2>4, <2>11, OneJobStep
<1>5. CASE store' = store /\ UNCHANGED <<memory, histories>>
  BY <1>5, StandStill DEF vars, broker
<1> QED
  BY <1>3, <1>4, <1>5

LEMMA RemoveDlqKeeps ==
    ASSUME IInv, UNCHANGED setting, NEW j \in Jobs, RemoveDlq(j)
    PROVE  IInv'
<1> USE DEF StillUp
<1> DEFINE terminal == jobIndex[j] \in {"none", "dlq"}
           s == IF terminal THEN RemovePending(store, j) ELSE store
<1>1. /\ JobInv(j) /\ up = "up" /\ unlinking = {} /\ store \in Stores /\ object \in Objects
      /\ j \in store.pending => store.rows[j] = NoRow /\ store.dlq[j] = 0
  BY RunningJob DEF RemoveDlq
<1>2. /\ OthersUntouched(store, s, j) /\ SameTables(store, s, j) /\ (j \in s.lost <=> j \in store.lost)
      /\ terminal => j \notin s.pending
      /\ ~terminal => s = store
      /\ s.mark = store.mark
  <2>1. OthersUntouched(store, store, j) /\ SameTables(store, store, j)
    BY <1>1 DEF OthersUntouched, Untouched, SameBuffer, SameTables
  <2> QED
    BY <1>1, <2>1, RemovePendingEffect
<1> HIDE DEF s
<1>3. s \in Stores
  BY <1>2 DEF OthersUntouched
<1>4. CASE /\ store' = [s EXCEPT !.dlq[j] = 0, !.rows[j] = IF terminal THEN NoRow ELSE @]
           /\ memDlq' = [memDlq EXCEPT ![j] = 0]
           /\ jobIndex' = [jobIndex EXCEPT ![j] = IF terminal THEN "none" ELSE @]
           /\ durable' = durable \ {j}
           /\ UNCHANGED <<up, stops, unlinking, queued, processing, object, admitted, runs, finished>>
  <2>1. /\ OthersUntouched(s, store', j) /\ SameBuffer(s, store', j) /\ store'.dlq[j] = 0
        /\ store'.rows[j] = (IF terminal THEN NoRow ELSE s.rows[j]) /\ store'.mark = s.mark
    <3>1. store'.dlq = [s.dlq EXCEPT ![j] = 0] /\ store'.mark = s.mark /\ store'.pending = s.pending
          /\ store'.lost = s.lost /\ store'.retries = s.retries /\ store'.backoff = s.backoff
      BY <1>3, <1>4 DEF Stores
    <3>2. store'.rows = [s.rows EXCEPT ![j] = IF terminal THEN NoRow ELSE s.rows[j]]
      BY <1>3, <1>4 DEF Stores
    <3>3. store' = [s EXCEPT !.dlq = store'.dlq, !.rows = store'.rows]
      BY <1>3, <1>4, <3>1, <3>2 DEF Stores
    <3>4. store' \in Stores
      BY <1>3, <3>1, <3>2, <3>3, NoRowTyped DEF Stores
    <3> QED
      BY <1>3, <3>1, <3>2, <3>4 DEF Stores, OthersUntouched, Untouched, SameBuffer, SameTables
  <2>2. OthersUntouched(store, store', j)
    BY <1>2, <2>1, UntouchedChain
  <2>3. store' \in Stores /\ \A k \in Jobs \ {j} : Flushed(store, store', object, k)
    BY <2>2, UntouchedIsFlushed
  <2>4. TypeOK'
    BY <1>4, <2>3 DEF IInv, TypeOK, Stores, MaxStops
  <2>5. \A k \in Jobs \ {j} : Aside(k)
    BY <1>1, <1>4, <2>3 DEF IInv, TypeOK, Aside, MemoryKept, HistoryKept
  <2>6. /\ jobIndex'[j] = (IF terminal THEN "none" ELSE jobIndex[j]) /\ memDlq'[j] = 0 /\ j \notin durable'
    BY <1>4 DEF IInv, TypeOK
  <2>7. Fresh(j)'
    <3>1. j \notin admitted => store.rows[j] = NoRow
      BY <1>1 DEF JobInv, Fresh
    <3> QED
      BY <1>1, <1>2, <1>4, <2>1, <2>6, <3>1 DEF JobInv, Fresh, SameBuffer, SameTables, OthersUntouched
  <2>8. CASE terminal
    <3>1. /\ store'.rows[j] = NoRow /\ store'.dlq[j] = 0 /\ j \notin store'.pending
          /\ (j \in store'.lost <=> j \in store.lost)
          /\ jobIndex'[j] = "none" /\ j \notin processing /\ (j \in queued => May("torn"))
      BY <1>1, <1>2, <2>1, <2>6, <2>8 DEF SameBuffer, JobInv, Placed
    <3>2. RowsSound(j)' /\ Placed(j)' /\ Stopped(j)'
      BY <1>1, <1>4, <3>1, SettingKept DEF RowsSound, Placed, Stopped, DiskRow, NoRow
    <3>3. InOneTable(j)' /\ Survives(j)' /\ NotForgotten(j)'
      BY <1>4, <2>6, <3>1, SettingKept DEF InOneTable, Survives, NotForgotten
    <3>4. ASSUME ~May("write")
          PROVE  Mirrored(j)' /\ Budgeted(j)' /\ NeverRevived(j)'
      <4>1. Budgeted(j) /\ NeverRevived(j) /\ DiskRow(j)' = NoRow
        BY <1>1, <3>1, <3>4 DEF JobInv, DiskRow
      <4>2. j \notin queued => MemoryState(j)' = "none"
        BY <1>4, <3>1 DEF MemoryState
      <4>3. Mirrored(j)'
        BY <1>1, <1>4, <2>6, <3>1, <4>1, <4>2, SettingKept DEF Mirrored, NoRow
      <4>4. Budgeted(j)'
        BY <1>4, <3>1, <4>1, SettingKept DEF Budgeted, Covers, NoRow
      <4>5. NeverRevived(j)'
        BY <1>4, <4>1 DEF NeverRevived, NoRow
      <4> QED
        BY <4>3, <4>4, <4>5
    <3> QED
      BY <2>7, <3>2, <3>3, <3>4, SettingKept, <2>4, <2>5, OneJobStep DEF JobInv
  <2>9. CASE ~terminal
    <3>1. /\ store'.rows[j] = store.rows[j] /\ store'.dlq[j] = 0 /\ (j \in store'.pending <=> j \in store.pending)
          /\ (j \in store'.lost <=> j \in store.lost) /\ store'.mark = store.mark
          /\ jobIndex'[j] = jobIndex[j]
      BY <1>2, <2>1, <2>6, <2>9 DEF SameBuffer
    <3>2. DiskRow(j)' = DiskRow(j)
      BY <1>4, <3>1 DEF DiskRow, RowOf
    <3>3. RowsSound(j)' /\ Placed(j)' /\ Stopped(j)'
      BY <1>1, <1>4, <3>1, <3>2, SettingKept DEF JobInv, RowsSound, Placed, Stopped
    <3>4. InOneTable(j)' /\ Survives(j)' /\ NotForgotten(j)'
      BY <1>1, <1>4, <2>6, <3>1, SettingKept DEF JobInv, InOneTable, Survives, NotForgotten
    <3>5. ASSUME ~May("write")
          PROVE  Mirrored(j)' /\ Budgeted(j)' /\ NeverRevived(j)'
      <4>1. Mirrored(j) /\ Budgeted(j) /\ NeverRevived(j)
        BY <1>1, <3>5 DEF JobInv
      <4>2. MemoryState(j)' = MemoryState(j)
        BY <1>4, <3>1 DEF MemoryState
      <4>3. Mirrored(j)'
        BY <1>1, <1>4, <2>6, <3>1, <3>2, <4>1, <4>2, SettingKept DEF Mirrored
      <4>4. Budgeted(j)'
        BY <1>4, <3>1, <4>1, SettingKept DEF Budgeted, Covers
      <4>5. NeverRevived(j)'
        BY <1>4, <3>2, <4>1 DEF NeverRevived
      <4> QED
        BY <4>3, <4>4, <4>5
    <3> QED
      BY <2>7, <3>3, <3>4, <3>5, SettingKept, <2>4, <2>5, OneJobStep DEF JobInv
  <2> QED
    BY <2>8, <2>9
<1>5. CASE /\ May("write") /\ store' = s
           /\ UNCHANGED <<up, stops, unlinking, memory, histories>>
  <2>1. CASE ~terminal
    BY <1>2, <1>5, <2>1, StandStill DEF vars, broker
  <2>2. CASE terminal
    <3>1. store' = RemovePending(store, j)
      BY <1>5, <2>2 DEF s
    <3>2. store' \in Stores /\ \A k \in Jobs \ {j} : Flushed(store, store', object, k)
      BY <1>2, <1>5, UntouchedIsFlushed
    <3>3. TypeOK'
      BY <1>5, <3>2 DEF IInv, TypeOK, Stores, MaxStops, memory, histories
    <3>4. \A k \in Jobs \ {j} : Aside(k)
      BY <1>1, <1>5, <3>2 DEF Aside, MemoryKept, HistoryKept, memory, histories
    <3>5. j \in queued \cup processing => May("torn")
      BY <1>1, <2>2 DEF JobInv, Placed
    <3>6. JobInv(j)'
      BY <1>1, <1>5, <3>1, <3>5, UnbufferedKeeps DEF RemoveDlq
    <3> QED
      BY <3>3, <3>4, <3>6, OneJobStep
  <2> QED
    BY <2>1, <2>2
<1> QED
  BY <1>4, <1>5 DEF RemoveDlq, s

\* The timers of the buffer.
LEMMA TimersKeep ==
    ASSUME IInv, UNCHANGED setting, Tick \/ BackoffFires \/ FlushWriteBuffer
    PROVE  IInv'
<1> USE DEF OnlyStore, StillUp, memory, histories
<1>1. up = "up" /\ unlinking = {} /\ store \in Stores /\ object \in Objects
  BY DEF IInv, TypeOK, Stores, Objects, Tick, BackoffFires, FlushWriteBuffer, Running
<1> DEFINE s == [store EXCEPT !.backoff = FALSE]
<1>2. /\ s \in Stores /\ s.pending = store.pending /\ s.mark = store.mark /\ s.rows = store.rows
      /\ s.dlq = store.dlq /\ s.lost = store.lost
  BY <1>1 DEF Stores
<1>3. store' \in Flush(store, object) \/ store' \in Flush(s, object)
  BY DEF Tick, BackoffFires, FlushWriteBuffer
<1> HIDE DEF s
<1>4. store' \in Stores /\ \A k \in Jobs : Flushed(store, store', object, k)
  <2>1. CASE store' \in Flush(store, object)
    BY <1>1, <2>1, FlushEffect
  <2>2. CASE store' \in Flush(s, object)
    BY <1>1, <1>2, <2>2, FlushEffect DEF Flushed, SameBuffer, SameTables, Landed, GivenUp, RowOf
  <2> QED
    BY <1>3, <2>1, <2>2
<1>5. UNCHANGED <<up, stops, memory, unlinking, histories>>
  BY DEF Tick, BackoffFires, FlushWriteBuffer
<1>6. TypeOK'
  BY <1>4, <1>5 DEF IInv, TypeOK, Stores, MaxStops
<1>7. \A k \in Jobs : Aside(k)
  BY <1>1, <1>4, <1>5 DEF Aside, MemoryKept, HistoryKept
<1> QED
  BY <1>6, <1>7, AsideKeeps DEF IInv

-----------------------------------------------------------------------------
(***************************************************************************)
(* The end of the process.                                                 *)
(***************************************************************************)

\* What the end of the process does to the entries of k: nothing, or the last
\* flush writes the job or gives it up.
Settled(s, t, k) ==
    \/ SameTables(s, t, k) /\ (k \in t.lost <=> k \in s.lost)
    \/ /\ unlinking = {} /\ k \in s.pending
       /\ \/ t.rows[k] = RowOf(s, object, k) /\ t.dlq[k] = s.dlq[k] /\ (k \in t.lost <=> k \in s.lost)
          \/ t.rows[k] = s.rows[k] /\ t.dlq[k] \in {s.dlq[k], s.dlq[k] + 1} /\ k \in t.lost

LEMMA ForgetKeeps ==
    ASSUME IInv, UNCHANGED setting, stops < MaxStops,
           NEW s \in Stores, \A k \in Jobs : Settled(store, s, k), Forget(s),
           May("torn") \/ \A k \in unlinking : ~Torn(k)
    PROVE  IInv'
<1> USE DEF Forget, histories
<1> DEFINE e == EmptyBuffer(s)
<1>1. /\ e \in Stores /\ e.pending = {} /\ e.rows = s.rows /\ e.dlq = s.dlq /\ e.lost = s.lost
  BY EmptyBufferEffect
<1>2. store' = [e EXCEPT !.mark = [k \in Jobs |-> "none"]]
  OBVIOUS
<1> HIDE DEF e
<1>3. /\ store' \in Stores /\ store'.pending = {} /\ store'.mark = [k \in Jobs |-> "none"]
      /\ store'.rows = s.rows /\ store'.dlq = s.dlq /\ store'.lost = s.lost
  <2> DEFINE m == [k \in Jobs |-> "none"]
  <2>1. m \in [Jobs -> RowStates \cup {"none"}]
    OBVIOUS
  <2>2. store' = [e EXCEPT !.mark = m]
    BY <1>2
  <2> HIDE DEF m
  <2>3. /\ store' \in Stores /\ store'.pending = e.pending /\ store'.mark = m
        /\ store'.rows = e.rows /\ store'.dlq = e.dlq /\ store'.lost = e.lost
    BY <1>1, <2>1, <2>2 DEF Stores
  <2> QED
    BY <1>1, <2>3 DEF m
<1>4. TypeOK'
  <2>1. stops' \in 0 .. MaxStops'
    BY SettingsAssumption DEF IInv, TypeOK, MaxStops
  <2> QED
    BY <1>3, <2>1 DEF IInv, TypeOK, Stores, NewObject
<1>5. ASSUME NEW k \in Jobs
      PROVE  JobInv(k)'
  <2>1. JobInv(k) /\ store \in Stores
    BY DEF IInv, TypeOK, Stores
  <2>2. /\ k \notin queued' \cup processing' \cup unlinking' \cup store'.pending /\ up' = "down"
        /\ jobIndex'[k] = "none" /\ memDlq'[k] = 0 /\ object'[k] = NewObject
        /\ DiskRow(k)' = s.rows[k]
    BY <1>3 DEF DiskRow
  <2>3. k \in store.pending => up = "up" /\ store.rows[k] = NoRow /\ (unlinking = {} => store.dlq[k] = 0)
    BY <2>1 DEF JobInv, Stopped, RowsSound, Stores, IInv, TypeOK
  <2>4. RowOf(store, object, k).state # "none" /\ RowOf(store, object, k) # NoRow
    BY <2>1, RowOfTyped DEF RowOf, Stores, RowStates, IInv, TypeOK, Objects
  <2>5. RowsSound(k)' /\ Placed(k)' /\ Stopped(k)' /\ NotForgotten(k)'
    BY <1>3, <2>1, <2>2, <2>3, <2>4
       DEF Settled, SameTables, JobInv, RowsSound, Placed, Stopped, NotForgotten
  <2>6. Fresh(k)'
    BY <1>3, <2>1, <2>2, <2>3 DEF Settled, SameTables, JobInv, Fresh
  <2>7. InOneTable(k)'
    <3>1. ASSUME ~May("torn"), s.rows[k] # NoRow, s.dlq[k] > 0
          PROVE  s.rows[k].state = "active"
      <4>1. SameTables(store, s, k)
        BY <2>3, <3>1 DEF Settled
      <4>2. k \in unlinking => store.rows[k].state # "waiting"
        BY <3>1 DEF Torn
      <4>3. k \in unlinking => store.rows[k].state \notin {"completed", "none"}
        BY <2>1, <2>3, <3>1, <4>1 DEF JobInv, RowsSound, DiskRow, SameTables
      <4>4. store.rows[k].state \in RowStates \cup {"none"}
        BY <2>1 DEF Stores, Rows
      <4> QED
        BY <2>1, <3>1, <4>1, <4>2, <4>3, <4>4 DEF JobInv, InOneTable, SameTables, RowStates
    <3> QED
      BY <1>3, <2>2, <3>1, SettingKept DEF InOneTable
  <2>8. Survives(k)'
    BY <1>3, <2>1, <2>3, <2>4 DEF Settled, SameTables, JobInv, Survives, Stores
  <2>9. ASSUME ~May("write")
        PROVE  Mirrored(k)' /\ Budgeted(k)' /\ NeverRevived(k)'
    <3>1. Mirrored(k) /\ Budgeted(k) /\ NeverRevived(k)
      BY <2>1, <2>9 DEF JobInv
    <3>2. Mirrored(k)'
      BY <1>3, <2>2, <3>1, SettingKept DEF Mirrored, Settled, SameTables
    <3>3. k \in store.pending /\ unlinking = {} =>
             RowOf(store, object, k).state = MemoryState(k) /\ RowOf(store, object, k) = DiskRow(k)
      BY <2>3, <3>1 DEF Mirrored, DiskRow
    <3>4. Covers(s.rows[k].state, s.rows[k].attempts, runs[k])
      <4>1. CASE s.rows[k] = store.rows[k]
        BY <3>1, <4>1 DEF Budgeted
      <4>2. CASE k \in store.pending /\ unlinking = {} /\ s.rows[k] = RowOf(store, object, k)
        <5>1. s.rows[k].attempts = object[k].attempts
          BY <4>2 DEF RowOf
        <5> QED
          BY <3>1, <3>3, <4>2, <5>1 DEF MemoryState, Budgeted, Covers
      <4> QED
        BY <4>1, <4>2 DEF Settled, SameTables
    <3>5. Budgeted(k)'
      BY <1>3, <2>2, <3>1, <3>4, SettingKept DEF Budgeted, Covers
    <3>6. NeverRevived(k)'
      BY <2>2, <2>3, <3>1, <3>3 DEF NeverRevived, Settled, SameTables, DiskRow, NoRow
    <3> QED
      BY <3>2, <3>5, <3>6
  <2> QED
    BY <2>5, <2>6, <2>7, <2>8, <2>9, SettingKept DEF JobInv
<1> QED
  BY <1>4, <1>5 DEF IInv

LEMMA CrashKeeps ==
    ASSUME IInv, UNCHANGED setting, Crash
    PROVE  IInv'
<1>1. store \in Stores
  BY DEF IInv, TypeOK, Stores
<1>2. \A k \in Jobs : Settled(store, store, k)
  BY DEF Settled, SameTables
<1>3. /\ stops < MaxStops /\ (May("torn") \/ \A k \in unlinking : ~Torn(k))
      /\ Forget(store)
  BY DEF Crash
<1> QED
  BY <1>1, <1>2, <1>3, ForgetKeeps

LEMMA CloseKeeps ==
    ASSUME IInv, UNCHANGED setting, Close
    PROVE  IInv'
<1>1. unlinking = {} /\ store \in Stores /\ object \in Objects /\ stops < MaxStops
  BY DEF IInv, TypeOK, Stores, Objects, Close, Running
<1>2. PICK f \in (IF store.pending = {} THEN {store} ELSE Flush(store, object)) :
        \E s \in Dropped(f, f.pending) : Forget(s)
  BY DEF Close
<1>3. f \in Stores /\ \A k \in Jobs : Flushed(store, f, object, k)
  BY <1>1, <1>2, FlushEffect DEF Flushed, SameBuffer, SameTables
<1>4. f.pending \in SUBSET Jobs
  BY <1>3 DEF Stores
<1>5. PICK s \in Dropped(f, f.pending) : Forget(s)
  BY <1>2
<1>6. /\ s \in Stores /\ s.rows = f.rows
      /\ \A k \in Jobs : /\ k \in s.lost <=> k \in f.lost \cup f.pending
                         /\ s.dlq[k] = f.dlq[k] \/ (k \in f.pending /\ s.dlq[k] = f.dlq[k] + 1)
  BY <1>3, <1>4, DroppedEffect
<1>7. \A k \in Jobs : Settled(store, s, k)
  BY <1>1, <1>3, <1>6 DEF Settled, Flushed, SameBuffer, SameTables, Landed, GivenUp
<1> QED
  BY <1>1, <1>5, <1>6, <1>7, ForgetKeeps

-----------------------------------------------------------------------------
(***************************************************************************)
(* Recovery.                                                               *)
(***************************************************************************)

LEMMA StartKeeps ==
    ASSUME IInv, UNCHANGED setting, Start
    PROVE  IInv'
<1> USE DEF Start, memory, histories
<1>1. TypeOK'
  BY DEF IInv, TypeOK, MaxStops
<1>2. ASSUME NEW k \in Jobs
      PROVE  JobInv(k)'
  BY SettingKept
     DEF IInv, JobInv, RowsSound, Placed, Fresh, Stopped, InOneTable, Survives, NotForgotten,
         Mirrored, Budgeted, NeverRevived, Covers, DiskRow, RowOf, MemoryState
<1> QED
  BY <1>1, <1>2 DEF IInv

\* A job in recovery: only its rows say anything of it.
LEMMA RecoveringJob ==
    ASSUME IInv, up = "recovering", NEW j \in Jobs
    PROVE  /\ JobInv(j) /\ store \in Stores
           /\ j \notin queued \cup processing \cup store.pending /\ jobIndex[j] = "none"
           /\ DiskRow(j) = store.rows[j]
  BY DEF IInv, TypeOK, Stores, JobInv, Stopped, DiskRow

\* What a write of recovery leaves to show: the rows of the job.
LEMMA RecoveredKeeps ==
    ASSUME IInv, UNCHANGED <<setting, memory, histories>>, up = "recovering", NEW j \in admitted,
           TypeOK', OthersUntouched(store, store', j), SameBuffer(store, store', j),
           up' \in {"recovering", "down"}, up' = "down" => unlinking' = {},
           unlinking \subseteq {j}, unlinking' \subseteq {j},
           j \in unlinking' => store'.dlq[j] > 0 /\ store'.rows[j].state = "active",
           store'.rows[j].state = "none" => store'.rows[j] = NoRow,
           InOneTable(j)', Survives(j)',
           ~May("write") =>
              /\ Covers(store'.rows[j].state, store'.rows[j].attempts, runs[j])
              /\ j \in finished => store'.rows[j].state \in {"none", "completed"}
              /\ ~May("torn") /\ j \notin store'.lost => store'.dlq[j] <= 1
    PROVE  IInv'
<1> USE DEF memory, histories
<1>1. /\ j \in Jobs /\ JobInv(j) /\ store \in Stores
      /\ j \notin queued \cup processing \cup store.pending /\ jobIndex[j] = "none"
  BY RecoveringJob DEF IInv, TypeOK
<1>2. store' \in Stores /\ \A k \in Jobs \ {j} : Flushed(store, store', object, k)
  BY UntouchedIsFlushed
<1>3. \A k \in Jobs \ {j} : Aside(k)
  BY <1>2 DEF Aside, MemoryKept, HistoryKept
<1>4. j \notin store'.pending /\ DiskRow(j)' = store'.rows[j]
  BY <1>1 DEF SameBuffer, DiskRow
<1>5. RowsSound(j)' /\ Placed(j)' /\ Fresh(j)' /\ Stopped(j)' /\ NotForgotten(j)'
  BY <1>1, <1>4 DEF RowsSound, Placed, Fresh, Stopped, NotForgotten
<1>6. ASSUME ~May("write")
      PROVE  Mirrored(j)' /\ Budgeted(j)' /\ NeverRevived(j)'
  BY <1>1, <1>4, <1>6, SettingKept DEF JobInv, Mirrored, Budgeted, Covers, NeverRevived
<1>7. JobInv(j)'
  BY <1>5, <1>6, SettingKept DEF JobInv
<1> QED
  BY <1>1, <1>3, <1>7, OneJobStep

LEMMA RecoverActiveKeeps ==
    ASSUME IInv, UNCHANGED setting, NEW j \in Jobs, RecoverActive(j)
    PROVE  IInv'
<1> USE DEF RecoverActive, Recovered, memory, histories
<1> DEFINE r == Counted(store.rows[j])
<1>1. /\ JobInv(j) /\ store \in Stores /\ DiskRow(j) = store.rows[j]
      /\ j \notin queued \cup processing \cup store.pending
  BY RecoveringJob
<1>2. /\ up = "recovering" /\ unlinking = {} /\ store.rows[j].state = "active"
      /\ store.rows[j] \in Rows /\ store.rows[j] # NoRow /\ j \in admitted /\ store.dlq[j] \in Nat
  BY <1>1 DEF Stores, JobInv, Fresh, NoRow
<1>3. ~May("write") => j \notin finished /\ Budgeted(j) /\ Mirrored(j)
  BY <1>1, <1>2 DEF JobInv, NeverRevived
<1>4. OthersUntouched(store, store, j) /\ SameBuffer(store, store, j)
  BY <1>1 DEF OthersUntouched, Untouched, SameBuffer, SameTables
<1>5. CASE store' = store /\ up' = "down" /\ stops' = stops + 1 /\ stops < MaxStops /\ unlinking' = {}
  <2>1. TypeOK'
    BY <1>5, SettingsAssumption DEF IInv, TypeOK, MaxStops
  <2>2. InOneTable(j)' /\ Survives(j)'
    BY <1>1, <1>2, <1>5, SettingKept DEF JobInv, InOneTable, Survives
  <2> QED
    BY <1>2, <1>3, <1>4, <1>5, <2>1, <2>2, RecoveredKeeps DEF Budgeted, Mirrored, NoRow
<1>6. CASE /\ store.dlq[j] > 0 /\ store' = DeleteRow(store, j)
           /\ UNCHANGED <<up, stops, unlinking>>
  <2>1. /\ OthersUntouched(store, store', j) /\ SameBuffer(store, store', j)
        /\ store'.rows[j] = NoRow /\ store'.dlq = store.dlq
    BY <1>1, <1>6, DeleteRowEffect
  <2>2. TypeOK'
    BY <1>6, <2>1 DEF IInv, TypeOK, MaxStops, OthersUntouched, Stores
  <2>3. InOneTable(j)' /\ Survives(j)'
    BY <1>6, <2>1 DEF InOneTable, Survives
  <2>4. Covers(store'.rows[j].state, store'.rows[j].attempts, runs[j]) /\ store'.rows[j].state = "none"
    BY <2>1 DEF Covers, NoRow
  <2>5. ~May("write") /\ ~May("torn") /\ j \notin store'.lost => store'.dlq[j] <= 1
    BY <1>3, <2>1 DEF Mirrored, SameBuffer
  <2> QED
    BY <1>2, <1>6, <2>1, <2>2, <2>3, <2>4, <2>5, RecoveredKeeps
<1>7. CASE /\ store.dlq[j] = 0 /\ store' = Bury(store, {j})
           /\ UNCHANGED <<up, stops>> /\ unlinking' = {j}
  <2>1. /\ OthersUntouched(store, store', j) /\ SameBuffer(store, store', j)
        /\ store'.rows = store.rows /\ store'.dlq[j] = 1
    BY <1>1, <1>7, BuryOneEffect
  <2>2. TypeOK'
    BY <1>7, <2>1 DEF IInv, TypeOK, MaxStops, OthersUntouched, Stores
  <2>3. InOneTable(j)' /\ Survives(j)'
    BY <1>7, <2>1 DEF InOneTable, Survives
  <2>4. ~May("write") => Covers(store'.rows[j].state, store'.rows[j].attempts, runs[j])
    BY <1>3, <2>1 DEF Budgeted
  <2> QED
    BY <1>2, <1>3, <1>7, <2>1, <2>2, <2>3, <2>4, RecoveredKeeps
<1>8. CASE /\ store.dlq[j] = 0 /\ ~Exhausted(r) /\ store' = UpdateRow(store, j, r)
           /\ UNCHANGED <<up, stops, unlinking>>
  <2>1. /\ r \in Rows /\ r.state = "waiting" /\ r.attempts = store.rows[j].attempts + 1
        /\ store.rows[j].attempts \in Nat
    BY <1>2 DEF Counted, Rows, RowStates
  <2>2. /\ OthersUntouched(store, store', j) /\ SameBuffer(store, store', j)
        /\ store'.rows[j] = r /\ store'.dlq = store.dlq
    BY <1>1, <1>2, <1>8, <2>1, UpdateRowEffect
  <2>3. TypeOK'
    BY <1>8, <2>2 DEF IInv, TypeOK, MaxStops, OthersUntouched, Stores
  <2>4. InOneTable(j)' /\ Survives(j)'
    BY <1>8, <2>1, <2>2 DEF InOneTable, Survives, NoRow
  <2>5. r.attempts < MaxAttempts
    <3>1. MaxAttempts \in Nat
      BY SettingsAssumption DEF MaxAttempts, IInv, TypeOK
    <3> QED
      BY <1>8, <2>1, <3>1 DEF Exhausted
  <2>6. ~May("write") => Covers(store'.rows[j].state, store'.rows[j].attempts, runs[j])
    BY <1>2, <1>3, <2>1, <2>2, <2>5 DEF Budgeted, Covers
  <2>7. ~May("write") /\ ~May("torn") /\ j \notin store'.lost => store'.dlq[j] <= 1
    BY <1>8, <2>2
  <2> QED
    BY <1>2, <1>3, <1>8, <2>1, <2>2, <2>3, <2>4, <2>6, <2>7, RecoveredKeeps
<1>9. up' = "down" \/ up' = "recovering"
  BY <1>2
<1> QED
  BY <1>2, <1>5, <1>6, <1>7, <1>8, <1>9

LEMMA RecoverUnlinkKeeps ==
    ASSUME IInv, UNCHANGED setting, NEW j \in Jobs, RecoverUnlink(j)
    PROVE  IInv'
<1> USE DEF RecoverUnlink, Recovered, memory, histories
<1>1. /\ JobInv(j) /\ store \in Stores /\ DiskRow(j) = store.rows[j]
      /\ j \notin queued \cup processing \cup store.pending
  BY RecoveringJob
<1>2. /\ up = "recovering" /\ unlinking = {j} /\ store.dlq[j] > 0 /\ j \in admitted
      /\ store.rows[j].state = "active"
  BY <1>1 DEF JobInv, Placed, Fresh, Stopped
<1>3. CASE store' = DeleteRow(store, j) /\ UNCHANGED <<up, stops>> /\ unlinking' = {}
  <2>1. /\ OthersUntouched(store, store', j) /\ SameBuffer(store, store', j)
        /\ store'.rows[j] = NoRow /\ store'.dlq = store.dlq
    BY <1>1, <1>3, DeleteRowEffect
  <2>2. TypeOK'
    BY <1>3, <2>1 DEF IInv, TypeOK, MaxStops, OthersUntouched, Stores
  <2>3. InOneTable(j)' /\ Survives(j)'
    BY <1>2, <2>1 DEF InOneTable, Survives
  <2>4. Covers(store'.rows[j].state, store'.rows[j].attempts, runs[j]) /\ store'.rows[j].state = "none"
    BY <2>1 DEF Covers, NoRow
  <2>5. ~May("write") /\ ~May("torn") /\ j \notin store'.lost => store'.dlq[j] <= 1
    BY <1>1, <2>1 DEF JobInv, Mirrored, SameBuffer
  <2> QED
    BY <1>2, <1>3, <2>1, <2>2, <2>3, <2>4, <2>5, RecoveredKeeps
<1>4. CASE May("write") /\ store' = store /\ up' = "down" /\ stops' = stops + 1 /\ stops < MaxStops /\ unlinking' = {}
  <2>1. TypeOK'
    BY <1>4, SettingsAssumption DEF IInv, TypeOK, MaxStops
  <2>2. OthersUntouched(store, store, j) /\ SameBuffer(store, store, j)
    BY <1>1 DEF OthersUntouched, Untouched, SameBuffer, SameTables
  <2>3. Survives(j)'
    BY <1>1, <1>4 DEF JobInv, Survives
  <2>4. InOneTable(j)'
    BY <1>1, <1>2, <1>4 DEF InOneTable
  <2> QED
    BY <1>1, <1>2, <1>4, <2>1, <2>2, <2>3, <2>4, RecoveredKeeps DEF JobInv, RowsSound
<1> QED
  BY <1>2, <1>3, <1>4

LEMMA RecoverRestKeeps ==
    ASSUME IInv, UNCHANGED setting, RecoverRest
    PROVE  IInv'
<1> USE DEF RecoverRest, histories
<1>1. TypeOK'
  <2>1. store.rows \in [Jobs -> Rows] /\ store.dlq \in [Jobs -> Nat]
    BY DEF IInv, TypeOK
  <2>2. object' \in [Jobs -> [attempts : Nat, stalls : Nat]]
    BY <2>1 DEF Rows
  <2>3. jobIndex' \in [Jobs -> {"none", "queue", "processing", "completed", "dlq"}]
    BY DEF RecoveredIndex
  <2> QED
    BY <2>1, <2>2, <2>3 DEF IInv, TypeOK, MaxStops
<1>2. ASSUME NEW k \in Jobs
      PROVE  JobInv(k)'
  <2>1. /\ JobInv(k) /\ k \notin processing \cup store.pending \cup unlinking
        /\ store.rows[k] \in Rows /\ store.dlq[k] \in Nat
    BY RecoveringJob DEF Stores
  <2>2. /\ store.rows[k].state \in {"none", "waiting", "completed"}
        /\ store.rows[k].state = "none" => store.rows[k] = NoRow
    BY <2>1 DEF Rows, RowStates, JobInv, RowsSound
  <2>3. ~May("torn") /\ store.rows[k] # NoRow => store.dlq[k] = 0
    BY <2>1 DEF JobInv, InOneTable
  <2>4. /\ k \in queued' <=> store.rows[k].state = "waiting"
        /\ jobIndex'[k] = RecoveredIndex(k)
        /\ object'[k].attempts = store.rows[k].attempts /\ object'[k].stalls = store.rows[k].stalls
        /\ object'[k] = [attempts |-> store.rows[k].attempts, stalls |-> store.rows[k].stalls]
        /\ DiskRow(k)' = store.rows[k]
    BY <2>1 DEF DiskRow
  <2>5. RowsSound(k)' /\ Stopped(k)' /\ InOneTable(k)' /\ Survives(k)' /\ NotForgotten(k)'
    BY <2>1, <2>2, <2>3, <2>4, SettingKept
       DEF JobInv, RowsSound, Stopped, InOneTable, Survives, NotForgotten, NoRow
  <2>6. Placed(k)'
    BY <2>1, <2>2, <2>3, <2>4, SettingKept DEF Placed, RecoveredIndex, NoRow
  <2>7. Fresh(k)'
    BY <2>1, <2>4 DEF JobInv, Fresh, NoRow, NewObject
  <2>8. ASSUME ~May("write")
        PROVE  Mirrored(k)' /\ Budgeted(k)' /\ NeverRevived(k)'
    <3>1. MemoryState(k)' = store.rows[k].state
      BY <2>1, <2>2, <2>4 DEF MemoryState, RecoveredIndex
    <3>2. Mirrored(k) /\ Budgeted(k) /\ NeverRevived(k) /\ DiskRow(k) = store.rows[k]
      BY <2>1, <2>8 DEF JobInv, DiskRow
    <3>3. Mirrored(k)'
      BY <2>4, <3>1, <3>2, SettingKept DEF Mirrored
    <3>4. Budgeted(k)' /\ NeverRevived(k)'
      BY <2>1, <2>4, <3>2, SettingKept DEF Budgeted, Covers, NeverRevived
    <3> QED
      BY <3>3, <3>4
  <2> QED
    BY <2>5, <2>6, <2>7, <2>8, SettingKept DEF JobInv
<1> QED
  BY <1>1, <1>2 DEF IInv

-----------------------------------------------------------------------------
(***************************************************************************)
(* The invariant, and what follows from it.                                *)
(***************************************************************************)

LEMMA InitInv == Init => IInv
<1> SUFFICES ASSUME Init PROVE IInv
  OBVIOUS
<1> USE DEF Init
<1>1. setting \in Settings /\ MaxStops \in Nat /\ MaxAttempts \in Nat
  BY SettingsAssumption DEF MaxStops, MaxAttempts
<1>2. TypeOK
  BY <1>1, BufferTyped, NoRowTyped DEF TypeOK, NewObject
<1>3. ASSUME NEW k \in Jobs
      PROVE  JobInv(k)
  BY <1>1 DEF JobInv, RowsSound, Placed, Fresh, Stopped, InOneTable, Survives, NotForgotten, Mirrored,
              Budgeted, NeverRevived, Covers, DiskRow, RowOf, MemoryState, NoRow, NewObject
<1> QED
  BY <1>2, <1>3 DEF IInv

\* The invariant holds in every state.
THEOREM Invariance == Spec => []IInv
<1>1. Init => IInv
  BY InitInv
<1>2. IInv /\ [Next]_vars => IInv'
  <2> SUFFICES ASSUME IInv, [Next]_vars PROVE IInv'
    OBVIOUS
  <2>1. CASE UNCHANGED vars
    BY <2>1, StandStill
  <2>2. CASE Next
    <3>1. UNCHANGED setting /\ Operations
      BY <2>2 DEF Next
    <3>2. ASSUME NEW S \in SUBSET Jobs, Push(S) PROVE IInv'
      BY <3>1, <3>2, PushKeeps
    <3>3. ASSUME NEW j \in Jobs,
                 \/ PushDurable(j) \/ Pull(j) \/ Ack(j) \/ AckRemove(j) \/ Fail(j)
                 \/ Stall(j) \/ Discard(j) \/ FinishUnlink(j) \/ Cancel(j) \/ MoveActiveToWait(j)
          PROVE  IInv'
      BY <3>1, <3>3, PushDurableKeeps, PullKeeps, AckKeeps, AckRemoveKeeps, FailKeeps,
         StallKeeps, DiscardKeeps, FinishUnlinkKeeps, CancelKeeps, MoveActiveToWaitKeeps
    <3>4. ASSUME NEW j \in Jobs,
                 \/ RetryDlq(j) \/ RemoveDlq(j) \/ RetryCompleted(j)
                 \/ RecoverActive(j) \/ RecoverUnlink(j)
          PROVE  IInv'
      BY <3>1, <3>4, RetryDlqKeeps, RemoveDlqKeeps, RetryCompletedKeeps, RecoverActiveKeeps,
         RecoverUnlinkKeeps
    <3>5. CASE Tick \/ BackoffFires \/ FlushWriteBuffer
      BY <3>1, <3>5, TimersKeep
    <3>6. CASE Close \/ Crash \/ Start \/ RecoverRest
      BY <3>1, <3>6, CloseKeeps, CrashKeeps, StartKeeps, RecoverRestKeeps
    <3> QED
      BY <3>1, <3>2, <3>3, <3>4, <3>5, <3>6 DEF Operations
  <2> QED
    BY <2>1, <2>2
<1> QED
  BY <1>1, <1>2, PTL DEF Spec

\* Every variable has its type.
THEOREM StorageTyped == Spec => []TypeOK
<1>1. IInv => TypeOK
  BY DEF IInv
<1> QED
  BY <1>1, Invariance, PTL

\* What the tables say of a job that has left the buffer is what memory says:
\* state, counters and DLQ entry, whatever happened to the flushes.
THEOREM TablesMirrorMemory == Spec => []DiskMirrorsMemory
<1>1. IInv => DiskMirrorsMemory
  <2> SUFFICES ASSUME IInv, up = "up", ~May("write"), ~May("torn"),
                      NEW j \in Jobs \ (store.pending \cup store.lost \cup unlinking)
               PROVE  /\ store.rows[j].state = MemoryState(j)
                      /\ MemoryState(j) \in {"waiting", "active"} =>
                            /\ store.rows[j].attempts = object[j].attempts
                            /\ store.rows[j].stalls = object[j].stalls
                      /\ store.dlq[j] = memDlq[j]
    BY DEF IInv, DiskMirrorsMemory
  <2>1. Mirrored(j) /\ DiskRow(j) = store.rows[j]
    BY DEF IInv, JobInv, DiskRow
  <2>2. store.rows[j].state = MemoryState(j)
    BY <2>1 DEF Mirrored
  <2>3. store.rows[j] = NoRow => MemoryState(j) = "none"
    BY <2>2 DEF NoRow
  <2> QED
    BY <2>1, <2>2, <2>3 DEF Mirrored
<1> QED
  BY <1>1, Invariance, PTL

\* However often the process dies, no job is delivered more often than its
\* attempts allow, unless the writes fail that count them.
THEOREM BudgetSurvivesCrashes == Spec => []RunBudget
<1>1. IInv => RunBudget
  BY DEF IInv, RunBudget, JobInv, Budgeted
<1> QED
  BY <1>1, Invariance, PTL

\* A durable admission is on disk until somebody removes it, whatever fails.
THEOREM DurableStaysOnDisk == Spec => []DurableSurvives
<1>1. IInv => DurableSurvives
  BY DEF IInv, DurableSurvives, JobInv, Survives, TypeOK
<1> QED
  BY <1>1, Invariance, PTL

\* A completed job does not run again unless somebody retries it.
THEOREM CompletedIsFinal == Spec => []FinishedNeverRuns
<1>1. IInv => FinishedNeverRuns
  BY DEF IInv, FinishedNeverRuns, JobInv, NeverRevived, TypeOK
<1> QED
  BY <1>1, Invariance, PTL

\* A job that can still run is in the buffer or on disk, or reported as lost.
THEOREM LossIsReported == Spec => []NothingSilentlyLost
<1>1. IInv => NothingSilentlyLost
  BY DEF IInv, NothingSilentlyLost, JobInv, NotForgotten, TypeOK
<1> QED
  BY <1>1, Invariance, PTL
=============================================================================
