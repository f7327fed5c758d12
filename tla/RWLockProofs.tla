---------------------------- MODULE RWLockProofs ----------------------------
(***************************************************************************)
(* Proofs about RWLock, for any finite set of tasks and any queue bound:   *)
(* the type invariant, mutual exclusion, the agreement of the counters     *)
(* with guards and waiters, the absence of lost and of stranded waiters,   *)
(* and writer priority.                                                    *)
(*                                                                         *)
(* Every handler but four ends in drain(), which runs on a state that the  *)
(* handler has already changed.  So the invariant is stated for a state    *)
(* given by its components (Consistent), each handler is shown to hand a   *)
(* consistent state to drain(), and drain() to leave one behind.           *)
(***************************************************************************)
EXTENDS RWLock, FiniteSetTheorems, SequenceTheorems, TLAPS

-----------------------------------------------------------------------------
(***************************************************************************)
(* The inductive invariant.                                                *)
(***************************************************************************)

\* No task has two live entries in a queue.
NoDuplicates(q) ==
    \A i, j \in DOMAIN q :
        ~q[i].settled /\ ~q[j].settled /\ q[i].task = q[j].task => i = j

With(p, x) == {t \in Tasks : p[t] = x}

Typed(r, w, ww, rq, wq, p) ==
    /\ r \in Nat
    /\ w \in BOOLEAN
    /\ ww \in Nat
    /\ rq \in Seq(Waiters)
    /\ wq \in Seq(Waiters)
    /\ p \in [Tasks -> Promises]

Counted(r, w, ww, wq, p) ==
    /\ r = Cardinality(With(p, "read"))
    /\ w <=> With(p, "write") # {}
    /\ ww = Cardinality(Live(wq))

Exclusive(p) ==
    \A t \in With(p, "write") : With(p, "read") = {} /\ With(p, "write") = {t}

Queued(rq, wq, p) ==
    /\ With(p, "pending") = Live(rq) \cup Live(wq)
    /\ Live(rq) \cap Live(wq) = {}
    /\ NoDuplicates(wq)

Consistent(r, w, ww, rq, wq, p) ==
    /\ Typed(r, w, ww, rq, wq, p)
    /\ Counted(r, w, ww, wq, p)
    /\ Exclusive(p)
    /\ Queued(rq, wq, p)

\* Between handlers nobody waits for a lock that is free.
Drained ==
    /\ Live(writerQueue) # {} => writer \/ readers > 0
    /\ Live(readerQueue) # {} => writer \/ writerWaiting > 0

IInv ==
    /\ Consistent(readers, writer, writerWaiting, readerQueue, writerQueue, promise)
    /\ Drained

-----------------------------------------------------------------------------
(***************************************************************************)
(* The waiter queues.                                                      *)
(***************************************************************************)

LEMMA LiveTasks ==
    ASSUME NEW q \in Seq(Waiters)
    PROVE  /\ Live(q) \subseteq Tasks
           /\ IsFiniteSet(Live(q))
           /\ Cardinality(Live(q)) \in Nat
<1>1. DOMAIN q = 1 .. Len(q) /\ \A i \in 1 .. Len(q) : q[i] \in Waiters
  BY LenProperties, ElementOfSeq
<1>2. Live(q) \subseteq Tasks
  BY <1>1 DEF Live, Waiters
<1>3. IsFiniteSet(Live(q))
  BY <1>2, TasksAssumption, FS_Subset
<1> QED
  BY <1>2, <1>3, FS_CardinalityType

LEMMA LiveEmpty == Live(<<>>) = {} /\ NoDuplicates(<<>>)
BY DEF Live, NoDuplicates

LEMMA LiveAppend ==
    ASSUME NEW q \in Seq(Waiters), NEW t \in Tasks, t \notin Live(q)
    PROVE  /\ Append(q, Waiter(t)) \in Seq(Waiters)
           /\ Live(Append(q, Waiter(t))) = Live(q) \cup {t}
           /\ NoDuplicates(q) => NoDuplicates(Append(q, Waiter(t)))
<1> DEFINE a == Append(q, Waiter(t))
           n == Len(q)
<1>1. Waiter(t) \in Waiters /\ Waiter(t).task = t /\ ~Waiter(t).settled
  BY DEF Waiter, Waiters
<1>2. /\ a \in Seq(Waiters)
      /\ Len(a) = n + 1
      /\ \A i \in 1 .. n : a[i] = q[i]
      /\ a[n + 1] = Waiter(t)
  BY <1>1, AppendProperties
<1>3. n \in Nat /\ DOMAIN q = 1 .. n /\ DOMAIN a = 1 .. n + 1
  BY <1>2, LenProperties
<1> HIDE DEF a, n
<1>4. Live(a) = Live(q) \cup {t}
  BY <1>1, <1>2, <1>3 DEF Live
<1>5. ASSUME NoDuplicates(q) PROVE NoDuplicates(a)
  <2> SUFFICES ASSUME NEW i \in 1 .. n + 1, NEW j \in 1 .. n + 1,
                      ~a[i].settled, ~a[j].settled, a[i].task = a[j].task
               PROVE  i = j
    BY <1>3 DEF NoDuplicates
  <2>1. CASE i \in 1 .. n /\ j \in 1 .. n
    BY <2>1, <1>2, <1>3, <1>5 DEF NoDuplicates
  <2>2. CASE i = n + 1 /\ j = n + 1
    BY <2>2
  <2>3. CASE i \in 1 .. n /\ j = n + 1
    BY <2>3, <1>1, <1>2, <1>3 DEF Live
  <2>4. CASE i = n + 1 /\ j \in 1 .. n
    BY <2>4, <1>1, <1>2, <1>3 DEF Live
  <2> QED
    BY <2>1, <2>2, <2>3, <2>4, <1>3
<1> QED
  BY <1>2, <1>4, <1>5 DEF a

LEMMA LiveSettle ==
    ASSUME NEW q \in Seq(Waiters), NEW t
    PROVE  /\ Settle(q, t) \in Seq(Waiters)
           /\ Live(Settle(q, t)) = Live(q) \ {t}
           /\ NoDuplicates(q) => NoDuplicates(Settle(q, t))
<1> DEFINE s == Settle(q, t)
<1>1. Len(q) \in Nat /\ DOMAIN q = 1 .. Len(q) /\ \A i \in 1 .. Len(q) : q[i] \in Waiters
  BY LenProperties, ElementOfSeq
<1>2. DOMAIN s = 1 .. Len(q)
  BY <1>1 DEF Settle
<1>3. \A i \in 1 .. Len(q) :
         /\ s[i] \in Waiters
         /\ s[i].task = q[i].task
         /\ s[i].settled = (q[i].settled \/ q[i].task = t)
  BY <1>1 DEF Settle, Waiters
<1>4. s = [i \in 1 .. Len(q) |-> s[i]]
  BY <1>1 DEF Settle
<1>5. s \in Seq(Waiters)
  BY <1>1, <1>3, <1>4, SeqDef
<1> HIDE DEF s
<1>6. Live(s) = Live(q) \ {t}
  BY <1>1, <1>2, <1>3 DEF Live
<1>7. NoDuplicates(q) => NoDuplicates(s)
  BY <1>1, <1>2, <1>3 DEF NoDuplicates
<1> QED
  BY <1>5, <1>6, <1>7 DEF s

LEMMA RestEntries ==
    ASSUME NEW q \in Seq(Waiters), NEW i \in DOMAIN q
    PROVE  /\ Rest(q, i) \in Seq(Waiters)
           /\ DOMAIN Rest(q, i) = 1 .. Len(q) - i
           /\ \A k \in 1 .. Len(q) - i : Rest(q, i)[k] = q[k + i]
<1> DEFINE n == Len(q)
           s == Rest(q, i)
<1>1. n \in Nat /\ DOMAIN q = 1 .. n /\ \A k \in 1 .. n : q[k] \in Waiters
  BY LenProperties, ElementOfSeq
<1>2. i \in 1 .. n /\ i + 1 \in Int /\ n \in Int /\ \A k \in i + 1 .. n : q[k] \in Waiters
  BY <1>1
<1>3. /\ s \in Seq(Waiters)
      /\ Len(s) = IF i + 1 <= n THEN n - (i + 1) + 1 ELSE 0
      /\ \A k \in 1 .. n - (i + 1) + 1 : s[k] = q[i + 1 + k - 1]
  BY <1>2, SubSeqProperties DEF Rest
<1>4. DOMAIN s = 1 .. Len(s)
  BY <1>3, LenProperties
<1> HIDE DEF n, s
<1>5. n - (i + 1) + 1 = n - i /\ (i + 1 > n => n - i = 0)
  BY <1>1, <1>2
<1>6. Len(s) = n - i
  BY <1>1, <1>2, <1>3, <1>5
<1>7. ASSUME NEW k \in 1 .. n - i PROVE s[k] = q[k + i]
  <2>1. i + 1 + k - 1 = k + i
    BY <1>1, <1>2
  <2> QED
    BY <2>1, <1>3, <1>5
<1> QED
  BY <1>3, <1>4, <1>6, <1>7 DEF n, s

\* Shifting out the head, and the settled entries before it, takes the head's
\* task out of the live ones and nobody else.
LEMMA LiveRest ==
    ASSUME NEW q \in Seq(Waiters), NoDuplicates(q), NEW i \in DOMAIN q, IsHead(q, i)
    PROVE  /\ Rest(q, i) \in Seq(Waiters)
           /\ q[i].task \in Live(q)
           /\ Live(Rest(q, i)) = Live(q) \ {q[i].task}
           /\ NoDuplicates(Rest(q, i))
<1> DEFINE n == Len(q)
           s == Rest(q, i)
<1>1. n \in Nat /\ DOMAIN q = 1 .. n
  BY LenProperties
<1>2. i \in 1 .. n
  BY <1>1
<1>3. s \in Seq(Waiters)
  BY RestEntries
<1>4. DOMAIN s = 1 .. n - i /\ \A k \in 1 .. n - i : s[k] = q[k + i]
  BY RestEntries
<1> HIDE DEF n, s
<1>5. q[i].task \in Live(q)
  BY DEF Live, IsHead
<1>6. NoDuplicates(s)
  BY <1>1, <1>2, <1>4 DEF NoDuplicates
<1>7. Live(s) \subseteq Live(q) \ {q[i].task}
  <2> SUFFICES ASSUME NEW k \in 1 .. n - i, ~s[k].settled
               PROVE  s[k].task \in Live(q) \ {q[i].task}
    BY <1>4 DEF Live
  <2>1. k + i \in 1 .. n /\ k + i # i /\ s[k] = q[k + i]
    BY <1>1, <1>2, <1>4
  <2> QED
    BY <2>1, <1>1, <1>2 DEF Live, NoDuplicates, IsHead
<1>8. Live(q) \ {q[i].task} \subseteq Live(s)
  <2> SUFFICES ASSUME NEW k \in 1 .. n, ~q[k].settled, q[k].task # q[i].task
               PROVE  q[k].task \in Live(s)
    BY <1>1 DEF Live
  <2>1. k > i
    BY <1>1, <1>2 DEF IsHead
  <2>2. k - i \in 1 .. n - i /\ (k - i) + i = k
    BY <2>1, <1>1, <1>2
  <2>3. s[k - i] = q[k]
    BY <2>2, <1>4
  <2> QED
    BY <2>2, <2>3, <1>4 DEF Live
<1> QED
  BY <1>3, <1>5, <1>6, <1>7, <1>8 DEF s

-----------------------------------------------------------------------------
(***************************************************************************)
(* What the promises say: the sets With(p, x).                             *)
(***************************************************************************)

LEMMA WithFinite ==
    ASSUME NEW p, NEW x
    PROVE  /\ With(p, x) \subseteq Tasks
           /\ IsFiniteSet(With(p, x))
           /\ Cardinality(With(p, x)) \in Nat
           /\ Cardinality(With(p, x)) = 0 <=> With(p, x) = {}
<1>1. With(p, x) \subseteq Tasks
  BY DEF With
<1>2. IsFiniteSet(With(p, x))
  BY <1>1, TasksAssumption, FS_Subset
<1> QED
  BY <1>1, <1>2, FS_CardinalityType, FS_EmptySet

LEMMA WithExcept ==
    ASSUME NEW p \in [Tasks -> Promises], NEW t \in Tasks, NEW x \in Promises, NEW y
    PROVE  /\ [p EXCEPT ![t] = x] \in [Tasks -> Promises]
           /\ With([p EXCEPT ![t] = x], y) =
                IF y = x THEN With(p, y) \cup {t} ELSE With(p, y) \ {t}
BY DEF With

-----------------------------------------------------------------------------
(***************************************************************************)
(* drain().                                                                *)
(***************************************************************************)

LEMMA DrainGrantsWriter ==
    ASSUME NEW r, NEW w, NEW ww, NEW rq, NEW wq, NEW p,
           Consistent(r, w, ww, rq, wq, p),
           GrantWriter(r, w, ww, rq, wq, p)
    PROVE  IInv'
<1>1. PICK i \in DOMAIN wq :
         /\ IsHead(wq, i)
         /\ writerQueue' = Rest(wq, i)
         /\ promise' = [p EXCEPT ![wq[i].task] = "write"]
  BY DEF GrantWriter
<1> DEFINE t == wq[i].task
<1>2. /\ readers' = r
      /\ writer' = TRUE
      /\ writerWaiting' = ww - 1
      /\ readerQueue' = rq
      /\ ~w
      /\ ww > 0
      /\ ~(ww > 0 /\ r > 0)
  BY DEF GrantWriter, Blocked
<1>3. Typed(r, w, ww, rq, wq, p) /\ Counted(r, w, ww, wq, p) /\ Queued(rq, wq, p)
  BY DEF Consistent
<1>4. /\ r \in Nat /\ ww \in Nat /\ rq \in Seq(Waiters) /\ wq \in Seq(Waiters)
      /\ p \in [Tasks -> Promises]
  BY <1>3 DEF Typed
<1>5. NoDuplicates(wq) /\ ww = Cardinality(Live(wq))
  BY <1>3 DEF Queued, Counted
<1>6. /\ Rest(wq, i) \in Seq(Waiters)
      /\ t \in Live(wq)
      /\ Live(Rest(wq, i)) = Live(wq) \ {t}
      /\ NoDuplicates(Rest(wq, i))
  BY <1>1, <1>4, <1>5, LiveRest
<1>7. /\ t \in Tasks /\ t \notin Live(rq)
      /\ promise' = [p EXCEPT ![t] = "write"]
      /\ writerQueue' = Rest(wq, i)
  BY <1>1, <1>3, <1>6 DEF Queued, With
<1> HIDE DEF t
<1>8. r = 0
  BY <1>2, <1>4
<1>9. With(p, "read") = {} /\ With(p, "write") = {}
  BY <1>2, <1>3, <1>8, WithFinite DEF Counted
<1>10. /\ "write" \in Promises
       /\ "write" # "read"
       /\ "write" # "pending"
  BY DEF Promises
<1>11. /\ promise' \in [Tasks -> Promises]
       /\ With(promise', "read") = {}
       /\ With(promise', "write") = {t}
       /\ With(promise', "pending") = With(p, "pending") \ {t}
  <2>1. promise' \in [Tasks -> Promises]
    BY <1>4, <1>7, <1>10, WithExcept
  <2>2. /\ With(promise', "write") = With(p, "write") \cup {t}
        /\ With(promise', "read") = With(p, "read") \ {t}
        /\ With(promise', "pending") = With(p, "pending") \ {t}
    BY <1>4, <1>7, <1>10 DEF With
  <2> QED
    BY <2>1, <2>2, <1>9
<1>12. Cardinality(Live(wq) \ {t}) = ww - 1
  BY <1>4, <1>5, <1>6, LiveTasks, FS_RemoveElement
<1>13. Typed(readers', writer', writerWaiting', readerQueue', writerQueue', promise')
  <2>1. ww - 1 \in Nat
    BY <1>2, <1>4
  <2> QED
    BY <2>1, <1>2, <1>4, <1>6, <1>7, <1>11 DEF Typed
<1>14. Counted(readers', writer', writerWaiting', writerQueue', promise')
  BY <1>2, <1>6, <1>7, <1>8, <1>11, <1>12, FS_EmptySet DEF Counted
<1>15. Exclusive(promise')
  BY <1>11 DEF Exclusive
<1>16. Queued(readerQueue', writerQueue', promise')
  BY <1>2, <1>3, <1>6, <1>7, <1>11 DEF Queued
<1> QED
  BY <1>2, <1>13, <1>14, <1>15, <1>16 DEF IInv, Consistent, Drained

LEMMA DrainAdmitsReaders ==
    ASSUME NEW r, NEW w, NEW ww, NEW rq, NEW wq, NEW p,
           Consistent(r, w, ww, rq, wq, p),
           GrantReaders(r, w, ww, rq, wq, p)
    PROVE  IInv' /\ Live(writerQueue') = {}
<1>1. /\ readers' = r + Cardinality(Live(rq))
      /\ writer' = w
      /\ writerWaiting' = 0
      /\ readerQueue' = <<>>
      /\ promise' = [t \in Tasks |-> IF t \in Live(rq) THEN "read" ELSE p[t]]
      /\ writerQueue' = wq \/ writerQueue' = <<>>
      /\ ~w
      /\ ww = 0 \/ Live(wq) = {}
  BY DEF GrantReaders, Blocked
<1>2. Typed(r, w, ww, rq, wq, p) /\ Counted(r, w, ww, wq, p) /\ Queued(rq, wq, p)
  BY DEF Consistent
<1>3. /\ r \in Nat /\ w \in BOOLEAN /\ rq \in Seq(Waiters) /\ wq \in Seq(Waiters)
      /\ p \in [Tasks -> Promises]
  BY <1>2 DEF Typed
<1>4. Live(wq) = {}
  <2>1. IsFiniteSet(Live(wq)) /\ (Cardinality(Live(wq)) = 0 <=> Live(wq) = {})
    BY <1>3, LiveTasks, FS_EmptySet
  <2> QED
    BY <2>1, <1>1, <1>2 DEF Counted
<1>5. /\ With(p, "write") = {}
      /\ With(p, "pending") = Live(rq)
      /\ r = Cardinality(With(p, "read"))
  BY <1>1, <1>2, <1>4 DEF Counted, Queued
<1>6. Live(rq) \subseteq Tasks
  BY <1>3, LiveTasks
<1>7. \A t \in Tasks :
         /\ promise'[t] \in Promises
         /\ t \in Live(rq) => promise'[t] = "read"
         /\ t \notin Live(rq) => promise'[t] = p[t]
  BY <1>1, <1>3 DEF Promises
<1>8. promise' \in [Tasks -> Promises]
  BY <1>1, <1>7
<1>9. With(promise', "read") = With(p, "read") \cup Live(rq)
  BY <1>6, <1>7 DEF With
<1>10. With(promise', "write") = {}
  BY <1>5, <1>7 DEF With
<1>11. With(promise', "pending") = {}
  BY <1>5, <1>7 DEF With
<1>12. Cardinality(With(promise', "read")) = readers' /\ readers' \in Nat
  <2>1. With(p, "read") \cap Live(rq) = {}
    BY <1>5 DEF With
  <2>2. Cardinality(With(p, "read") \cap Live(rq)) = 0
    BY <2>1, FS_EmptySet
  <2>3. /\ IsFiniteSet(With(p, "read"))
        /\ IsFiniteSet(Live(rq))
        /\ Cardinality(With(p, "read")) \in Nat
        /\ Cardinality(Live(rq)) \in Nat
    BY <1>3, WithFinite, LiveTasks
  <2>4. Cardinality(With(p, "read") \cup Live(rq))
          = Cardinality(With(p, "read")) + Cardinality(Live(rq))
                - Cardinality(With(p, "read") \cap Live(rq))
    BY <2>3, FS_Union
  <2>5. Cardinality(With(p, "read") \cup Live(rq)) = r + Cardinality(Live(rq))
    BY <2>2, <2>3, <2>4, <1>5
  <2>6. Cardinality(With(promise', "read")) = Cardinality(With(p, "read") \cup Live(rq))
    BY <1>9, Zenon
  <2> QED
    BY <2>3, <2>5, <2>6, <1>1, <1>3
<1>13. Live(writerQueue') = {} /\ NoDuplicates(writerQueue') /\ Live(readerQueue') = {}
  BY <1>1, <1>2, <1>4, LiveEmpty DEF Queued
<1>14. Typed(readers', writer', writerWaiting', readerQueue', writerQueue', promise')
  <2>1. <<>> \in Seq(Waiters)
    BY EmptySeq
  <2> QED
    BY <2>1, <1>1, <1>3, <1>8, <1>12 DEF Typed
<1>15. Counted(readers', writer', writerWaiting', writerQueue', promise')
  BY <1>1, <1>10, <1>12, <1>13, FS_EmptySet DEF Counted
<1>16. Exclusive(promise')
  BY <1>10 DEF Exclusive
<1>17. Queued(readerQueue', writerQueue', promise')
  BY <1>11, <1>13 DEF Queued
<1> QED
  BY <1>13, <1>14, <1>15, <1>16, <1>17 DEF IInv, Consistent, Drained

LEMMA DrainKeepsWaiting ==
    ASSUME NEW r, NEW w, NEW ww, NEW rq, NEW wq, NEW p,
           Consistent(r, w, ww, rq, wq, p),
           KeepWaiting(r, w, ww, rq, wq, p)
    PROVE  IInv'
<1>1. Consistent(readers', writer', writerWaiting', readerQueue', writerQueue', promise')
  BY DEF KeepWaiting
<1>2. writer' \/ (writerWaiting' > 0 /\ readers' > 0)
  BY DEF KeepWaiting, Blocked
<1> QED
  BY <1>1, <1>2 DEF IInv, Drained

LEMMA DrainKeepsIInv ==
    ASSUME NEW r, NEW w, NEW ww, NEW rq, NEW wq, NEW p,
           Consistent(r, w, ww, rq, wq, p),
           Drain(r, w, ww, rq, wq, p)
    PROVE  IInv'
BY DrainGrantsWriter, DrainAdmitsReaders, DrainKeepsWaiting DEF Drain

-----------------------------------------------------------------------------
(***************************************************************************)
(* The handlers.                                                           *)
(***************************************************************************)

LEMMA Parts ==
    ASSUME IInv
    PROVE  /\ readers \in Nat /\ writer \in BOOLEAN /\ writerWaiting \in Nat
           /\ readerQueue \in Seq(Waiters) /\ writerQueue \in Seq(Waiters)
           /\ promise \in [Tasks -> Promises]
           /\ readers = Cardinality(With(promise, "read"))
           /\ writer <=> With(promise, "write") # {}
           /\ writerWaiting = Cardinality(Live(writerQueue))
           /\ Exclusive(promise)
           /\ With(promise, "pending") = Live(readerQueue) \cup Live(writerQueue)
           /\ Live(readerQueue) \cap Live(writerQueue) = {}
           /\ NoDuplicates(writerQueue)
BY DEF IInv, Consistent, Typed, Counted, Queued

LEMMA EnqueueWriteDrains ==
    ASSUME IInv, NEW t \in Tasks, EnqueueWrite(t)
    PROVE  LET p == [promise EXCEPT ![t] = "pending"]
               q == Append(writerQueue, Waiter(t))
           IN  /\ Consistent(readers, writer, writerWaiting + 1, readerQueue, q, p)
               /\ Drain(readers, writer, writerWaiting + 1, readerQueue, q, p)
               /\ With(p, "read") = With(promise, "read")
               /\ With(p, "write") = With(promise, "write")
<1> DEFINE p == [promise EXCEPT ![t] = "pending"]
           q == Append(writerQueue, Waiter(t))
<1>1. /\ p \in [Tasks -> Promises]
      /\ With(p, "read") = With(promise, "read")
      /\ With(p, "write") = With(promise, "write")
      /\ With(p, "pending") = With(promise, "pending") \cup {t}
      /\ t \notin With(promise, "pending")
  BY Parts DEF EnqueueWrite, Free, With, Promises
<1>2. t \notin Live(readerQueue) /\ t \notin Live(writerQueue)
  BY <1>1, Parts
<1>3. /\ q \in Seq(Waiters)
      /\ Live(q) = Live(writerQueue) \cup {t}
      /\ NoDuplicates(q)
  BY <1>2, Parts, LiveAppend
<1>4. Drain(readers, writer, writerWaiting + 1, readerQueue, q, p)
  BY DEF EnqueueWrite
<1> HIDE DEF p, q
<1>5. Cardinality(Live(writerQueue) \cup {t}) = writerWaiting + 1
  BY <1>2, Parts, LiveTasks, FS_AddElement
<1>6. Typed(readers, writer, writerWaiting + 1, readerQueue, q, p)
  BY <1>1, <1>3, Parts DEF Typed
<1>7. Counted(readers, writer, writerWaiting + 1, q, p)
  BY <1>1, <1>3, <1>5, Parts, Zenon DEF Counted
<1>8. Exclusive(p)
  BY <1>1, Parts, Zenon DEF Exclusive
<1>9. Queued(readerQueue, q, p)
  BY <1>1, <1>2, <1>3, Parts DEF Queued
<1>10. Consistent(readers, writer, writerWaiting + 1, readerQueue, q, p)
  BY <1>6, <1>7, <1>8, <1>9 DEF Consistent
<1> QED
  BY <1>1, <1>4, <1>10 DEF p, q

LEMMA TimeoutReadDrains ==
    ASSUME IInv, NEW t \in Tasks, TimeoutRead(t)
    PROVE  LET p == [promise EXCEPT ![t] = "rejected"]
               q == Settle(readerQueue, t)
           IN  /\ Consistent(readers, writer, writerWaiting, q, writerQueue, p)
               /\ Drain(readers, writer, writerWaiting, q, writerQueue, p)
               /\ With(p, "read") = With(promise, "read")
               /\ With(p, "write") = With(promise, "write")
<1> DEFINE p == [promise EXCEPT ![t] = "rejected"]
           q == Settle(readerQueue, t)
<1>1. t \in Live(readerQueue) /\ Drain(readers, writer, writerWaiting, q, writerQueue, p)
  BY DEF TimeoutRead
<1>2. promise[t] = "pending"
  BY <1>1, Parts DEF With
<1>3. /\ p \in [Tasks -> Promises]
      /\ With(p, "read") = With(promise, "read")
      /\ With(p, "write") = With(promise, "write")
      /\ With(p, "pending") = With(promise, "pending") \ {t}
  BY <1>2, Parts DEF With, Promises
<1>4. q \in Seq(Waiters) /\ Live(q) = Live(readerQueue) \ {t}
  BY Parts, LiveSettle
<1> HIDE DEF p, q
<1>5. Typed(readers, writer, writerWaiting, q, writerQueue, p)
  BY <1>3, <1>4, Parts DEF Typed
<1>6. Counted(readers, writer, writerWaiting, writerQueue, p)
  BY <1>3, Parts, Zenon DEF Counted
<1>7. Exclusive(p)
  BY <1>3, Parts, Zenon DEF Exclusive
<1>8. Queued(q, writerQueue, p)
  BY <1>1, <1>3, <1>4, Parts DEF Queued
<1>9. Consistent(readers, writer, writerWaiting, q, writerQueue, p)
  BY <1>5, <1>6, <1>7, <1>8 DEF Consistent
<1> QED
  BY <1>1, <1>3, <1>9 DEF p, q

LEMMA TimeoutWriteDrains ==
    ASSUME IInv, NEW t \in Tasks, TimeoutWrite(t)
    PROVE  LET p == [promise EXCEPT ![t] = "rejected"]
               q == Settle(writerQueue, t)
           IN  /\ Consistent(readers, writer, writerWaiting - 1, readerQueue, q, p)
               /\ Drain(readers, writer, writerWaiting - 1, readerQueue, q, p)
               /\ With(p, "read") = With(promise, "read")
               /\ With(p, "write") = With(promise, "write")
<1> DEFINE p == [promise EXCEPT ![t] = "rejected"]
           q == Settle(writerQueue, t)
<1>1. /\ t \in Live(writerQueue)
      /\ Drain(readers, writer, writerWaiting - 1, readerQueue, q, p)
  BY DEF TimeoutWrite
<1>2. promise[t] = "pending"
  BY <1>1, Parts DEF With
<1>3. /\ p \in [Tasks -> Promises]
      /\ With(p, "read") = With(promise, "read")
      /\ With(p, "write") = With(promise, "write")
      /\ With(p, "pending") = With(promise, "pending") \ {t}
  BY <1>2, Parts DEF With, Promises
<1>4. /\ q \in Seq(Waiters)
      /\ Live(q) = Live(writerQueue) \ {t}
      /\ NoDuplicates(q)
  BY Parts, LiveSettle
<1> HIDE DEF p, q
<1>5. /\ Cardinality(Live(writerQueue) \ {t}) = writerWaiting - 1
      /\ writerWaiting - 1 \in Nat
  <2>1. IsFiniteSet(Live(writerQueue) \ {t})
    BY Parts, LiveTasks, FS_Subset
  <2>2. Cardinality(Live(writerQueue) \ {t}) \in Nat
    BY <2>1, FS_CardinalityType
  <2>3. Cardinality(Live(writerQueue) \ {t}) = writerWaiting - 1
    BY <1>1, Parts, LiveTasks, FS_RemoveElement
  <2> QED
    BY <2>2, <2>3
<1>6. Typed(readers, writer, writerWaiting - 1, readerQueue, q, p)
  BY <1>3, <1>4, <1>5, Parts DEF Typed
<1>7. Counted(readers, writer, writerWaiting - 1, q, p)
  BY <1>3, <1>4, <1>5, Parts, Zenon DEF Counted
<1>8. Exclusive(p)
  BY <1>3, Parts, Zenon DEF Exclusive
<1>9. Queued(readerQueue, q, p)
  BY <1>1, <1>3, <1>4, Parts DEF Queued
<1>10. Consistent(readers, writer, writerWaiting - 1, readerQueue, q, p)
  BY <1>6, <1>7, <1>8, <1>9 DEF Consistent
<1> QED
  BY <1>1, <1>3, <1>10 DEF p, q

LEMMA ReleaseReadDrains ==
    ASSUME IInv, NEW t \in Tasks, ReleaseRead(t)
    PROVE  LET p == [promise EXCEPT ![t] = "released"]
           IN  /\ Consistent(readers - 1, writer, writerWaiting, readerQueue, writerQueue, p)
               /\ Drain(readers - 1, writer, writerWaiting, readerQueue, writerQueue, p)
               /\ With(p, "read") = With(promise, "read") \ {t}
               /\ With(p, "write") = With(promise, "write") \ {t}
<1> DEFINE p == [promise EXCEPT ![t] = "released"]
<1>1. /\ t \in With(promise, "read")
      /\ Drain(readers - 1, writer, writerWaiting, readerQueue, writerQueue, p)
  BY DEF ReleaseRead, With
<1>2. With(promise, "write") = {} /\ ~writer
  BY <1>1, Parts DEF Exclusive
<1>3. /\ p \in [Tasks -> Promises]
      /\ With(p, "read") = With(promise, "read") \ {t}
      /\ With(p, "write") = {}
      /\ With(p, "pending") = With(promise, "pending")
  BY <1>1, <1>2, Parts DEF With, Promises
<1> HIDE DEF p
<1>4. /\ Cardinality(With(promise, "read") \ {t}) = readers - 1
      /\ readers - 1 \in Nat
  <2>1. IsFiniteSet(With(promise, "read") \ {t})
    BY WithFinite, FS_Subset
  <2>2. Cardinality(With(promise, "read") \ {t}) \in Nat
    BY <2>1, FS_CardinalityType
  <2>3. IsFiniteSet(With(promise, "read"))
    BY WithFinite
  <2>4. readers = Cardinality(With(promise, "read"))
    BY Parts
  <2>5. Cardinality(With(promise, "read") \ {t}) = readers - 1
    BY <2>3, <2>4, <1>1, FS_RemoveElement
  <2> QED
    BY <2>2, <2>5
<1>5. Typed(readers - 1, writer, writerWaiting, readerQueue, writerQueue, p)
  BY <1>3, <1>4, Parts DEF Typed
<1>6. Counted(readers - 1, writer, writerWaiting, writerQueue, p)
  BY <1>2, <1>3, <1>4, Parts, Zenon DEF Counted
<1>7. Exclusive(p)
  BY <1>3 DEF Exclusive
<1>8. Queued(readerQueue, writerQueue, p)
  BY <1>3, Parts DEF Queued
<1>9. Consistent(readers - 1, writer, writerWaiting, readerQueue, writerQueue, p)
  BY <1>5, <1>6, <1>7, <1>8 DEF Consistent
<1> QED
  BY <1>1, <1>2, <1>3, <1>9 DEF p

LEMMA ReleaseWriteDrains ==
    ASSUME IInv, NEW t \in Tasks, ReleaseWrite(t)
    PROVE  LET p == [promise EXCEPT ![t] = "released"]
           IN  /\ Consistent(readers, FALSE, writerWaiting, readerQueue, writerQueue, p)
               /\ Drain(readers, FALSE, writerWaiting, readerQueue, writerQueue, p)
               /\ With(p, "read") = With(promise, "read") \ {t}
               /\ With(p, "write") = With(promise, "write") \ {t}
<1> DEFINE p == [promise EXCEPT ![t] = "released"]
<1>1. /\ t \in With(promise, "write")
      /\ Drain(readers, FALSE, writerWaiting, readerQueue, writerQueue, p)
  BY DEF ReleaseWrite, With
<1>2. With(promise, "read") = {} /\ With(promise, "write") = {t}
  BY <1>1, Parts DEF Exclusive
<1>3. /\ p \in [Tasks -> Promises]
      /\ With(p, "read") = With(promise, "read")
      /\ With(p, "write") = {}
      /\ With(p, "pending") = With(promise, "pending")
  BY <1>1, <1>2, Parts DEF With, Promises
<1> HIDE DEF p
<1>4. Typed(readers, FALSE, writerWaiting, readerQueue, writerQueue, p)
  BY <1>3, Parts DEF Typed
<1>5. Counted(readers, FALSE, writerWaiting, writerQueue, p)
  BY <1>3, Parts, Zenon DEF Counted
<1>6. Exclusive(p)
  BY <1>3 DEF Exclusive
<1>7. Queued(readerQueue, writerQueue, p)
  BY <1>3, Parts DEF Queued
<1>8. Consistent(readers, FALSE, writerWaiting, readerQueue, writerQueue, p)
  BY <1>4, <1>5, <1>6, <1>7 DEF Consistent
<1> QED
  BY <1>1, <1>2, <1>3, <1>8 DEF p

LEMMA AcquireReadKeepsIInv ==
    ASSUME IInv, NEW t \in Tasks, AcquireRead(t)
    PROVE  IInv'
<1>1. /\ promise' = [promise EXCEPT ![t] = "read"]
      /\ readers' = readers + 1
      /\ writer' = writer /\ writerWaiting' = writerWaiting
      /\ readerQueue' = readerQueue /\ writerQueue' = writerQueue
      /\ ~writer /\ writerWaiting = 0
  BY DEF AcquireRead, ReadAdmissible, queues
<1>2. t \notin With(promise, "read") /\ t \notin With(promise, "pending")
  BY DEF AcquireRead, Free, With
<1>3. With(promise, "write") = {}
  BY <1>1, Parts
<1>4. /\ promise' \in [Tasks -> Promises]
      /\ With(promise', "read") = With(promise, "read") \cup {t}
      /\ With(promise', "write") = {}
      /\ With(promise', "pending") = With(promise, "pending")
  BY <1>1, <1>2, <1>3, Parts DEF With, Promises
<1>5. Cardinality(With(promise, "read") \cup {t}) = readers + 1
  <2>1. IsFiniteSet(With(promise, "read"))
    BY WithFinite
  <2>2. readers = Cardinality(With(promise, "read"))
    BY Parts
  <2> QED
    BY <2>1, <2>2, <1>2, FS_AddElement
<1>6. Typed(readers', writer', writerWaiting', readerQueue', writerQueue', promise')
  BY <1>1, <1>4, Parts DEF Typed
<1>7. Counted(readers', writer', writerWaiting', writerQueue', promise')
  BY <1>1, <1>4, <1>5, Parts, Zenon DEF Counted
<1>8. Exclusive(promise')
  BY <1>4 DEF Exclusive
<1>9. Queued(readerQueue', writerQueue', promise')
  BY <1>1, <1>4, Parts DEF Queued
<1>10. Drained'
  <2>1. Drained
    BY DEF IInv
  <2> QED
    BY <2>1, <1>1, Parts DEF Drained
<1> QED
  BY <1>6, <1>7, <1>8, <1>9, <1>10 DEF IInv, Consistent

LEMMA EnqueueReadKeepsIInv ==
    ASSUME IInv, NEW t \in Tasks, EnqueueRead(t)
    PROVE  IInv'
<1>1. /\ promise' = [promise EXCEPT ![t] = "pending"]
      /\ readers' = readers /\ writer' = writer /\ writerWaiting' = writerWaiting
      /\ readerQueue' = Append(readerQueue, Waiter(t))
      /\ writerQueue' = writerQueue
      /\ writer \/ writerWaiting # 0
  BY DEF EnqueueRead, ReadAdmissible, counters
<1>2. /\ promise' \in [Tasks -> Promises]
      /\ With(promise', "read") = With(promise, "read")
      /\ With(promise', "write") = With(promise, "write")
      /\ With(promise', "pending") = With(promise, "pending") \cup {t}
      /\ t \notin With(promise, "pending")
  BY <1>1, Parts DEF EnqueueRead, Free, With, Promises
<1>3. t \notin Live(readerQueue) /\ t \notin Live(writerQueue)
  BY <1>2, Parts
<1>4. /\ readerQueue' \in Seq(Waiters)
      /\ Live(readerQueue') = Live(readerQueue) \cup {t}
  BY <1>1, <1>3, Parts, LiveAppend
<1>5. Typed(readers', writer', writerWaiting', readerQueue', writerQueue', promise')
  BY <1>1, <1>2, <1>4, Parts DEF Typed
<1>6. Counted(readers', writer', writerWaiting', writerQueue', promise')
  BY <1>1, <1>2, Parts, Zenon DEF Counted
<1>7. Exclusive(promise')
  BY <1>2, Parts, Zenon DEF Exclusive
<1>8. Queued(readerQueue', writerQueue', promise')
  BY <1>1, <1>2, <1>3, <1>4, Parts DEF Queued
<1>9. Drained'
  <2>1. Drained
    BY DEF IInv
  <2> QED
    BY <2>1, <1>1, Parts DEF Drained
<1> QED
  BY <1>5, <1>6, <1>7, <1>8, <1>9 DEF IInv, Consistent

LEMMA AcquireWriteKeepsIInv ==
    ASSUME IInv, NEW t \in Tasks, AcquireWrite(t)
    PROVE  IInv'
<1>1. /\ promise' = [promise EXCEPT ![t] = "write"]
      /\ readers' = readers /\ writer' = TRUE /\ writerWaiting' = writerWaiting
      /\ readerQueue' = readerQueue /\ writerQueue' = writerQueue
      /\ ~writer /\ readers = 0 /\ writerWaiting = 0
  BY DEF AcquireWrite, WriteAdmissible, queues
<1>2. With(promise, "write") = {} /\ With(promise, "read") = {}
  <2>1. Cardinality(With(promise, "read")) = 0
    BY <1>1, Parts
  <2> QED
    BY <2>1, <1>1, Parts, WithFinite
<1>3. /\ promise' \in [Tasks -> Promises]
      /\ With(promise', "read") = {}
      /\ With(promise', "write") = {t}
      /\ With(promise', "pending") = With(promise, "pending")
  BY <1>1, <1>2, Parts DEF AcquireWrite, Free, With, Promises
<1>4. Typed(readers', writer', writerWaiting', readerQueue', writerQueue', promise')
  BY <1>1, <1>3, Parts DEF Typed
<1>5. Counted(readers', writer', writerWaiting', writerQueue', promise')
  BY <1>1, <1>3, Parts, FS_EmptySet DEF Counted
<1>6. Exclusive(promise')
  BY <1>3 DEF Exclusive
<1>7. Queued(readerQueue', writerQueue', promise')
  BY <1>1, <1>3, Parts DEF Queued
<1>8. Drained'
  BY <1>1 DEF Drained
<1> QED
  BY <1>4, <1>5, <1>6, <1>7, <1>8 DEF IInv, Consistent

LEMMA FailFastKeepsIInv ==
    ASSUME IInv, NEW t \in Tasks, FailFast(t)
    PROVE  IInv'
<1>1. /\ promise' = [promise EXCEPT ![t] = "rejected"]
      /\ readers' = readers /\ writer' = writer /\ writerWaiting' = writerWaiting
      /\ readerQueue' = readerQueue /\ writerQueue' = writerQueue
  BY DEF FailFast, counters, queues
<1>2. /\ promise' \in [Tasks -> Promises]
      /\ With(promise', "read") = With(promise, "read")
      /\ With(promise', "write") = With(promise, "write")
      /\ With(promise', "pending") = With(promise, "pending")
  BY <1>1, Parts DEF FailFast, Free, With, Promises
<1>3. Typed(readers', writer', writerWaiting', readerQueue', writerQueue', promise')
  BY <1>1, <1>2, Parts DEF Typed
<1>4. Counted(readers', writer', writerWaiting', writerQueue', promise')
  BY <1>1, <1>2, Parts, Zenon DEF Counted
<1>5. Exclusive(promise')
  BY <1>2, Parts, Zenon DEF Exclusive
<1>6. Queued(readerQueue', writerQueue', promise')
  BY <1>1, <1>2, Parts DEF Queued
<1>7. Drained'
  <2>1. Drained
    BY DEF IInv
  <2> QED
    BY <2>1, <1>1 DEF Drained
<1> QED
  BY <1>3, <1>4, <1>5, <1>6, <1>7 DEF IInv, Consistent

LEMMA InitIInv == Init => IInv
<1> SUFFICES ASSUME Init PROVE IInv
  OBVIOUS
<1>1. /\ readers = 0 /\ writer = FALSE /\ writerWaiting = 0
      /\ readerQueue = <<>> /\ writerQueue = <<>>
      /\ promise = [t \in Tasks |-> "none"]
  BY DEF Init
<1>2. /\ promise \in [Tasks -> Promises]
      /\ With(promise, "read") = {}
      /\ With(promise, "write") = {}
      /\ With(promise, "pending") = {}
  BY <1>1 DEF With, Promises
<1>3. Live(readerQueue) = {} /\ Live(writerQueue) = {} /\ NoDuplicates(writerQueue)
  BY <1>1, LiveEmpty
<1>4. Typed(readers, writer, writerWaiting, readerQueue, writerQueue, promise)
  BY <1>1, <1>2, EmptySeq DEF Typed
<1>5. Counted(readers, writer, writerWaiting, writerQueue, promise)
  BY <1>1, <1>2, <1>3, FS_EmptySet DEF Counted
<1>6. Exclusive(promise) /\ Queued(readerQueue, writerQueue, promise)
  BY <1>2, <1>3 DEF Exclusive, Queued
<1> QED
  BY <1>3, <1>4, <1>5, <1>6 DEF IInv, Consistent, Drained

LEMMA StutterKeepsIInv ==
    ASSUME IInv, UNCHANGED vars
    PROVE  IInv'
<1>1. /\ readers' = readers /\ writer' = writer /\ writerWaiting' = writerWaiting
      /\ readerQueue' = readerQueue /\ writerQueue' = writerQueue /\ promise' = promise
  BY DEF vars
<1>2. Consistent(readers, writer, writerWaiting, readerQueue, writerQueue, promise)
  BY DEF IInv
<1>3. Consistent(readers', writer', writerWaiting', readerQueue', writerQueue', promise')
  BY <1>1, <1>2
<1>4. Drained'
  <2>1. Drained
    BY DEF IInv
  <2> QED
    BY <1>1, <2>1 DEF Drained
<1> QED
  BY <1>3, <1>4 DEF IInv

LEMMA NextKeepsIInv ==
    ASSUME IInv, [Next]_vars
    PROVE  IInv'
<1>1. ASSUME NEW t \in Tasks, AcquireRead(t) PROVE IInv'
  BY <1>1, AcquireReadKeepsIInv
<1>2. ASSUME NEW t \in Tasks, EnqueueRead(t) PROVE IInv'
  BY <1>2, EnqueueReadKeepsIInv
<1>3. ASSUME NEW t \in Tasks, AcquireWrite(t) PROVE IInv'
  BY <1>3, AcquireWriteKeepsIInv
<1>4. ASSUME NEW t \in Tasks, EnqueueWrite(t) PROVE IInv'
  BY <1>4, EnqueueWriteDrains, DrainKeepsIInv
<1>5. ASSUME NEW t \in Tasks, FailFast(t) PROVE IInv'
  BY <1>5, FailFastKeepsIInv
<1>6. ASSUME NEW t \in Tasks, TimeoutRead(t) PROVE IInv'
  BY <1>6, TimeoutReadDrains, DrainKeepsIInv
<1>7. ASSUME NEW t \in Tasks, TimeoutWrite(t) PROVE IInv'
  BY <1>7, TimeoutWriteDrains, DrainKeepsIInv
<1>8. ASSUME NEW t \in Tasks, ReleaseRead(t) PROVE IInv'
  BY <1>8, ReleaseReadDrains, DrainKeepsIInv
<1>9. ASSUME NEW t \in Tasks, ReleaseWrite(t) PROVE IInv'
  BY <1>9, ReleaseWriteDrains, DrainKeepsIInv
<1>10. ASSUME NEW t \in Tasks, ReleaseAgain(t) PROVE IInv'
  BY <1>10, StutterKeepsIInv DEF ReleaseAgain
<1>11. CASE UNCHANGED vars
  BY <1>11, StutterKeepsIInv
<1> QED
  BY <1>1, <1>2, <1>3, <1>4, <1>5, <1>6, <1>7, <1>8, <1>9, <1>10, <1>11 DEF Next

\* The inductive invariant: counters, guards and queues agree, and nobody
\* waits for a free lock, in every state between two handlers of rwLock.ts.
THEOREM Invariance == Spec => []IInv
<1>1. IInv /\ [Next]_vars => IInv'
  BY NextKeepsIInv
<1> QED
  BY <1>1, InitIInv, PTL DEF Spec

-----------------------------------------------------------------------------
(***************************************************************************)
(* The properties of RWLock.                                               *)
(***************************************************************************)

\* Every variable of the lock keeps its type, readers and writerWaiting
\* never going below zero, for any number of callers and any queue length.
THEOREM TypeCorrect == Spec => []TypeOK
<1>1. IInv => TypeOK
  BY Parts DEF TypeOK
<1> QED
  BY <1>1, Invariance, PTL

\* A task with an unreleased write guard is alone with the lock: neither the
\* fast paths nor drain() grant a guard that overlaps it.
THEOREM WritersExclude == Spec => []MutualExclusion
<1>1. IInv => MutualExclusion
  BY DEF IInv, Consistent, Exclusive, MutualExclusion, With, ReadHolders, WriteHolders
<1> QED
  BY <1>1, Invariance, PTL

\* The three counters of the lock count the guards that are out and the
\* writers that still wait, after every timeout, grant and repeated release.
THEOREM CountersAgree == Spec => []CountersMatchGuards
<1>1. ReadHolders = With(promise, "read") /\ WriteHolders = With(promise, "write")
  BY DEF ReadHolders, WriteHolders, With
<1>2. IInv => CountersMatchGuards
  BY <1>1, Parts, Zenon DEF CountersMatchGuards
<1> QED
  BY <1>2, Invariance, PTL

\* A pending acquisition has a live entry in exactly one of the two queues:
\* lazy deletion drops no waiter and revives none.
THEOREM PendingWaits == Spec => []PendingIsQueued
<1>1. IInv => PendingIsQueued
  <2> SUFFICES ASSUME IInv, NEW t \in Tasks
               PROVE  (promise[t] = "pending")
                        <=> ((t \in Live(readerQueue)) # (t \in Live(writerQueue)))
    BY DEF PendingIsQueued
  <2>1. promise[t] = "pending" <=> t \in With(promise, "pending")
    BY DEF With
  <2>2. /\ t \in With(promise, "pending") <=> t \in Live(readerQueue) \/ t \in Live(writerQueue)
        /\ ~(t \in Live(readerQueue) /\ t \in Live(writerQueue))
    BY Parts
  <2> QED
    BY <2>1, <2>2
<1> QED
  BY <1>1, Invariance, PTL

\* drain() leaves nobody waiting for a lock that is free: a waiting writer is
\* kept out by a holder, a waiting reader by a writer.
THEOREM NobodyStranded == Spec => []NoStrandedWaiter
<1>1. ReadHolders = With(promise, "read") /\ WriteHolders = With(promise, "write")
  BY DEF ReadHolders, WriteHolders, With
<1>2. IInv => NoStrandedWaiter
  <2> SUFFICES ASSUME IInv PROVE NoStrandedWaiter
    OBVIOUS
  <2>1. readers > 0 => ReadHolders # {}
    BY <1>1, Parts, WithFinite
  <2>2. writerWaiting > 0 => Live(writerQueue) # {}
    <3>1. writerWaiting = Cardinality(Live(writerQueue)) /\ Cardinality({}) = 0
      BY Parts, FS_EmptySet
    <3> QED
      BY <3>1
  <2>3. writer => WriteHolders # {}
    BY <1>1, Parts
  <2>4. Drained
    BY DEF IInv
  <2> QED
    BY <2>1, <2>2, <2>3, <2>4 DEF Drained, NoStrandedWaiter
<1> QED
  BY <1>2, Invariance, PTL

LEMMA GrantReadsOrNone ==
    ASSUME NEW r, NEW w, NEW ww, NEW rq, NEW wq, NEW t \in Tasks, NEW x, x # "read",
           promise \in [Tasks -> Promises],
           Drain(r, w, ww, rq, wq, [promise EXCEPT ![t] = x])
    PROVE  writerWaiting' = 0 \/ ReadHolders' \subseteq ReadHolders
<1> DEFINE p == [promise EXCEPT ![t] = x]
<1>1. \A u \in Tasks : p[u] = "read" => promise[u] = "read"
  OBVIOUS
<1>2. DOMAIN p = Tasks
  OBVIOUS
<1> HIDE DEF p
<1>3. CASE KeepWaiting(r, w, ww, rq, wq, p)
  BY <1>1, <1>3 DEF KeepWaiting, ReadHolders
<1>4. CASE GrantWriter(r, w, ww, rq, wq, p)
  BY <1>1, <1>2, <1>4 DEF GrantWriter, ReadHolders
<1>5. CASE GrantReaders(r, w, ww, rq, wq, p)
  BY <1>5 DEF GrantReaders
<1> QED
  BY <1>3, <1>4, <1>5 DEF Drain, p

LEMMA StepGrantsReadsOrNone ==
    ASSUME IInv, [Next]_vars
    PROVE  writerWaiting' = 0 \/ ReadHolders' \subseteq ReadHolders
<1>1. ASSUME NEW t \in Tasks, AcquireRead(t)
      PROVE  writerWaiting' = 0
  BY <1>1 DEF AcquireRead, ReadAdmissible
<1>2. ASSUME NEW t \in Tasks, EnqueueRead(t) \/ AcquireWrite(t) \/ FailFast(t)
      PROVE  ReadHolders' \subseteq ReadHolders
  BY <1>2, Parts DEF EnqueueRead, AcquireWrite, FailFast, ReadHolders
<1>3. ASSUME NEW t \in Tasks,
             \/ EnqueueWrite(t) \/ TimeoutRead(t) \/ TimeoutWrite(t)
             \/ ReleaseRead(t) \/ ReleaseWrite(t)
      PROVE  writerWaiting' = 0 \/ ReadHolders' \subseteq ReadHolders
  <2>1. promise \in [Tasks -> Promises]
    BY Parts
  <2>2. CASE EnqueueWrite(t)
    BY <2>1, <2>2, GrantReadsOrNone DEF EnqueueWrite
  <2>3. CASE TimeoutRead(t)
    BY <2>1, <2>3, GrantReadsOrNone DEF TimeoutRead
  <2>4. CASE TimeoutWrite(t)
    BY <2>1, <2>4, GrantReadsOrNone DEF TimeoutWrite
  <2>5. CASE ReleaseRead(t)
    BY <2>1, <2>5, GrantReadsOrNone DEF ReleaseRead
  <2>6. CASE ReleaseWrite(t)
    BY <2>1, <2>6, GrantReadsOrNone DEF ReleaseWrite
  <2> QED
    BY <1>3, <2>2, <2>3, <2>4, <2>5, <2>6
<1>4. ASSUME NEW t \in Tasks, ReleaseAgain(t)
      PROVE  ReadHolders' \subseteq ReadHolders
  BY <1>4 DEF ReleaseAgain, vars, ReadHolders
<1>5. CASE UNCHANGED vars
  BY <1>5 DEF vars, ReadHolders
<1> QED
  BY <1>1, <1>2, <1>3, <1>4, <1>5 DEF Next

\* Writer priority: no step, of a caller or of a timer, gives anybody a read
\* guard while a writer that has not timed out stays in the queue.
THEOREM WritersGoFirst == Spec => ReadersYieldToWriters
<1>1. IInv /\ IInv' /\ [Next]_vars
        => [ReadHolders' \ ReadHolders # {} => Live(writerQueue)' = {}]_vars
  <2> SUFFICES ASSUME IInv, IInv', [Next]_vars, ReadHolders' \ ReadHolders # {}
               PROVE  Live(writerQueue') = {}
    OBVIOUS
  <2>1. writerWaiting' = 0
    BY StepGrantsReadsOrNone
  <2>2. Cardinality(Live(writerQueue')) = 0 /\ writerQueue' \in Seq(Waiters)
    BY <2>1 DEF IInv, Consistent, Typed, Counted
  <2>3. IsFiniteSet(Live(writerQueue'))
    BY <2>2, LiveTasks
  <2> QED
    BY <2>2, <2>3, FS_EmptySet
<1> QED
  BY <1>1, Invariance, PTL DEF Spec, ReadersYieldToWriters
=============================================================================
