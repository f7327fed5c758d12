----------------------- MODULE RWLockRefinementProofs -----------------------
(***************************************************************************)
(* Proof that the lock of RWLock implements WriterPriority, for any finite *)
(* set of tasks and any queue bound: every handler, with the drain() at    *)
(* its end, is one step of the promise or leaves it as it is.              *)
(*                                                                         *)
(* The proof follows the handlers' own shape.  What each of them does to   *)
(* the order of the waiting writers is a lemma on queues; that drain()     *)
(* admits whom Admit admits is shown once, for any consistent state; and   *)
(* each handler is then matched with asking or with leaving.               *)
(***************************************************************************)
EXTENDS RWLockRefinement, RWLockProofs

-----------------------------------------------------------------------------
(***************************************************************************)
(* The order of the waiting writers.                                       *)
(***************************************************************************)

LEMMA QueueFacts ==
    ASSUME NEW q \in Seq(Waiters)
    PROVE  /\ Len(q) \in Nat
           /\ DOMAIN q = 1 .. Len(q)
           /\ \A i \in 1 .. Len(q) :
                 /\ q[i] \in Waiters
                 /\ ~q[i].settled <=> q[i] = Waiter(q[i].task)
<1>1. Len(q) \in Nat /\ DOMAIN q = 1 .. Len(q) /\ \A i \in 1 .. Len(q) : q[i] \in Waiters
  BY LenProperties, ElementOfSeq
<1>2. ASSUME NEW e \in Waiters PROVE ~e.settled <=> e = Waiter(e.task)
  BY DEF Waiters, Waiter
<1> QED
  BY <1>1, <1>2

LEMMA WaiterFields ==
    ASSUME NEW t
    PROVE  Waiter(t).task = t /\ ~Waiter(t).settled
BY DEF Waiter

\* The live tasks of a queue are those whose waiter stands in it.
LEMMA LiveIsWaiter ==
    ASSUME NEW q \in Seq(Waiters), NEW t
    PROVE  t \in Live(q) <=> \E i \in DOMAIN q : q[i] = Waiter(t)
BY QueueFacts, WaiterFields DEF Live

LEMMA PrecedesLive ==
    ASSUME NEW q \in Seq(Waiters), NEW t, NEW u, Precedes(q, t, u)
    PROVE  t \in Live(q) /\ u \in Live(q)
BY LiveIsWaiter DEF Precedes

\* A new waiter stands behind everyone.
LEMMA PrecedesAppend ==
    ASSUME NEW q \in Seq(Waiters), NEW t \in Tasks, t \notin Live(q), NEW a, NEW b
    PROVE  Precedes(Append(q, Waiter(t)), a, b) <=>
             Precedes(q, a, b) \/ (a \in Live(q) /\ b = t)
<1> DEFINE s == Append(q, Waiter(t))
           n == Len(q)
<1>1. Waiter(t) \in Waiters
  BY DEF Waiter, Waiters
<1>2. n \in Nat /\ DOMAIN q = 1 .. n
  BY QueueFacts
<1>3. /\ s \in Seq(Waiters)
      /\ Len(s) = n + 1
      /\ \A i \in 1 .. n : s[i] = q[i]
      /\ s[n + 1] = Waiter(t)
  BY <1>1, AppendProperties
<1>4. DOMAIN s = 1 .. n + 1
  BY <1>3, LenProperties
<1>5. a \in Live(q) <=> \E i \in 1 .. n : q[i] = Waiter(a)
  BY <1>2, LiveIsWaiter
<1>6. b = t <=> Waiter(b) = Waiter(t)
  BY WaiterFields
<1> HIDE DEF s, n
<1>7. ASSUME Precedes(s, a, b) PROVE Precedes(q, a, b) \/ (a \in Live(q) /\ b = t)
  <2>1. PICK i \in 1 .. n + 1, j \in 1 .. n + 1 :
           i < j /\ s[i] = Waiter(a) /\ s[j] = Waiter(b)
    BY <1>7, <1>4 DEF Precedes
  <2>2. i \in 1 .. n /\ q[i] = Waiter(a)
    BY <2>1, <1>2, <1>3
  <2>3. CASE j \in 1 .. n
    BY <2>1, <2>2, <2>3, <1>2, <1>3 DEF Precedes
  <2>4. CASE j = n + 1
    BY <2>1, <2>2, <2>4, <1>3, <1>5, <1>6
  <2> QED
    BY <2>3, <2>4, <1>2
<1>8. ASSUME Precedes(q, a, b) PROVE Precedes(s, a, b)
  <2>1. PICK i \in 1 .. n, j \in 1 .. n : i < j /\ q[i] = Waiter(a) /\ q[j] = Waiter(b)
    BY <1>8, <1>2 DEF Precedes
  <2>2. i \in 1 .. n + 1 /\ j \in 1 .. n + 1
    BY <1>2
  <2> QED
    BY <2>1, <2>2, <1>3, <1>4 DEF Precedes
<1>9. ASSUME a \in Live(q), b = t PROVE Precedes(s, a, b)
  <2>1. PICK i \in 1 .. n : q[i] = Waiter(a)
    BY <1>5, <1>9
  <2>2. i \in 1 .. n + 1 /\ n + 1 \in 1 .. n + 1 /\ i < n + 1
    BY <1>2
  <2> QED
    BY <2>1, <2>2, <1>3, <1>4, <1>6, <1>9 DEF Precedes
<1> QED
  BY <1>7, <1>8, <1>9 DEF s

\* A waiter that gives up leaves the others in the order they are in.
LEMMA PrecedesSettle ==
    ASSUME NEW q \in Seq(Waiters), NEW t, NEW a, NEW b
    PROVE  Precedes(Settle(q, t), a, b) <=> Precedes(q, a, b) /\ a # t /\ b # t
<1> DEFINE s == Settle(q, t)
           n == Len(q)
<1>1. n \in Nat /\ DOMAIN q = 1 .. n /\ \A i \in 1 .. n : q[i] \in Waiters
  BY QueueFacts
<1>2. DOMAIN s = 1 .. n
  BY <1>1 DEF Settle
<1>3. \A i \in 1 .. n :
         /\ q[i].task = t => s[i].settled
         /\ q[i].task # t => s[i] = q[i]
         /\ s[i].task = q[i].task
  BY <1>1 DEF Settle, Waiters
<1>4. \A u, i : i \in 1 .. n => (s[i] = Waiter(u) <=> q[i] = Waiter(u) /\ u # t)
  BY <1>3, WaiterFields
<1> HIDE DEF s, n
<1> QED
  BY <1>1, <1>2, <1>4 DEF Precedes, s

LEMMA HeadIsFirst ==
    ASSUME NEW q \in Seq(Waiters), NoDuplicates(q), NEW i \in DOMAIN q, IsHead(q, i),
           NEW k \in 1 .. Len(q), NEW u, q[k] = Waiter(u)
    PROVE  k >= i /\ (k = i <=> u = q[i].task)
<1>1. Len(q) \in Nat /\ DOMAIN q = 1 .. Len(q) /\ i \in 1 .. Len(q)
  BY QueueFacts
<1>2. q[k].task = u /\ ~q[k].settled
  BY WaiterFields
<1>3. k >= i
  BY <1>1, <1>2 DEF IsHead
<1>4. u = q[i].task => k = i
  BY <1>1, <1>2 DEF NoDuplicates, IsHead
<1> QED
  BY <1>2, <1>3, <1>4

\* Shifting out the head and the settled entries before it leaves the other
\* waiters in the order they are in.
LEMMA PrecedesRest ==
    ASSUME NEW q \in Seq(Waiters), NoDuplicates(q), NEW i \in DOMAIN q, IsHead(q, i),
           NEW a, NEW b
    PROVE  Precedes(Rest(q, i), a, b) <=>
             Precedes(q, a, b) /\ a # q[i].task /\ b # q[i].task
<1> DEFINE n == Len(q)
           s == Rest(q, i)
<1>1. /\ n \in Nat
      /\ DOMAIN q = 1 .. n
      /\ \A k \in 1 .. n : q[k] \in Waiters
      /\ q[i] = Waiter(q[i].task)
  BY QueueFacts DEF IsHead
<1>2. DOMAIN s = 1 .. n - i /\ \A k \in 1 .. n - i : s[k] = q[k + i]
  BY RestEntries
<1>3. i \in 1 .. n /\ i \in Int
  BY <1>1
<1>4. \A u : \A k \in 1 .. n : q[k] = Waiter(u) => k >= i /\ (k = i <=> u = q[i].task)
  BY HeadIsFirst
<1> HIDE DEF n, s
<1>5. ASSUME Precedes(s, a, b)
      PROVE  Precedes(q, a, b) /\ a # q[i].task /\ b # q[i].task
  <2>1. PICK k \in 1 .. n - i, l \in 1 .. n - i :
           k < l /\ s[k] = Waiter(a) /\ s[l] = Waiter(b)
    BY <1>5, <1>2 DEF Precedes
  <2>2. /\ k + i \in 1 .. n /\ l + i \in 1 .. n /\ k + i < l + i
        /\ k + i # i /\ l + i # i
    BY <2>1, <1>1, <1>3
  <2>3. q[k + i] = Waiter(a) /\ q[l + i] = Waiter(b)
    BY <2>1, <1>2
  <2> QED
    BY <2>2, <2>3, <1>1, <1>4 DEF Precedes
<1>6. ASSUME Precedes(q, a, b), a # q[i].task, b # q[i].task
      PROVE  Precedes(s, a, b)
  <2>1. PICK k \in 1 .. n, l \in 1 .. n :
           k < l /\ q[k] = Waiter(a) /\ q[l] = Waiter(b)
    BY <1>6, <1>1 DEF Precedes
  <2>2. k > i /\ l > i
    BY <2>1, <1>3, <1>4, <1>6
  <2>3. /\ k - i \in 1 .. n - i /\ l - i \in 1 .. n - i /\ k - i < l - i
        /\ (k - i) + i = k /\ (l - i) + i = l
    BY <2>1, <2>2, <1>1, <1>3
  <2>4. s[k - i] = Waiter(a) /\ s[l - i] = Waiter(b)
    BY <2>1, <2>3, <1>2
  <2> QED
    BY <2>3, <2>4, <1>2 DEF Precedes
<1> QED
  BY <1>5, <1>6 DEF s

LEMMA HeadPrecedes ==
    ASSUME NEW q \in Seq(Waiters), NoDuplicates(q), NEW i \in DOMAIN q, IsHead(q, i)
    PROVE  /\ \A u \in Live(q) : u # q[i].task <=> Precedes(q, q[i].task, u)
           /\ \A u : ~Precedes(q, u, q[i].task)
<1> DEFINE n == Len(q)
<1>1. n \in Nat /\ DOMAIN q = 1 .. n /\ q[i] = Waiter(q[i].task)
  BY QueueFacts DEF IsHead
<1>2. \A u : \A k \in 1 .. n : q[k] = Waiter(u) => k >= i /\ (k = i <=> u = q[i].task)
  BY HeadIsFirst
<1>3. ASSUME NEW u \in Live(q), u # q[i].task PROVE Precedes(q, q[i].task, u)
  <2>1. PICK k \in 1 .. n : q[k] = Waiter(u)
    BY <1>1, LiveIsWaiter
  <2>2. i < k
    BY <2>1, <1>1, <1>2, <1>3
  <2> QED
    BY <2>1, <2>2, <1>1 DEF Precedes
<1>4. ASSUME NEW u, Precedes(q, u, q[i].task) PROVE FALSE
  <2>1. PICK k \in 1 .. n, l \in 1 .. n :
           k < l /\ q[k] = Waiter(u) /\ q[l] = Waiter(q[i].task)
    BY <1>4, <1>1 DEF Precedes
  <2>2. l = i /\ k >= i
    BY <2>1, <1>2
  <2> QED
    BY <2>1, <2>2, <1>1
<1> QED
  BY <1>3, <1>4

LEMMA SamePairs ==
    ASSUME NEW S, NEW X, NEW Y, X \subseteq S \X S, Y \subseteq S \X S,
           \A a, b : <<a, b>> \in X <=> <<a, b>> \in Y
    PROVE  X = Y
<1>1. \A p \in S \X S : p = <<p[1], p[2]>>
  OBVIOUS
<1> QED
  BY <1>1

-----------------------------------------------------------------------------
(***************************************************************************)
(* Order(q), as a set of pairs.                                            *)
(***************************************************************************)

LEMMA OrderPair ==
    ASSUME NEW q \in Seq(Waiters), NEW a, NEW b
    PROVE  <<a, b>> \in Order(q) <=> Precedes(q, a, b)
BY PrecedesLive DEF Order

LEMMA OrderIsPairs ==
    ASSUME NEW q
    PROVE  Order(q) \subseteq Live(q) \X Live(q)
BY DEF Order

LEMMA OrderAppend ==
    ASSUME NEW q \in Seq(Waiters), NEW t \in Tasks, t \notin Live(q)
    PROVE  Order(Append(q, Waiter(t))) = Order(q) \cup (Live(q) \X {t})
<1> DEFINE s == Append(q, Waiter(t))
<1>1. s \in Seq(Waiters) /\ Live(s) = Live(q) \cup {t}
  BY LiveAppend
<1>2. \A a, b : Precedes(s, a, b) <=> Precedes(q, a, b) \/ (a \in Live(q) /\ b = t)
  BY PrecedesAppend
<1>3. \A a, b : <<a, b>> \in Order(s) <=> Precedes(s, a, b)
  BY <1>1, OrderPair
<1>4. \A a, b : <<a, b>> \in Order(q) <=> Precedes(q, a, b)
  BY OrderPair
<1> HIDE DEF s
<1>5. \A a, b : <<a, b>> \in Order(s) <=> <<a, b>> \in Order(q) \cup (Live(q) \X {t})
  BY <1>2, <1>3, <1>4
<1>6. /\ Order(s) \subseteq Live(s) \X Live(s)
      /\ Order(q) \cup (Live(q) \X {t}) \subseteq Live(s) \X Live(s)
  BY <1>1, OrderIsPairs
<1>7. Order(s) = Order(q) \cup (Live(q) \X {t})
  BY <1>5, <1>6, SamePairs
<1> QED
  BY <1>7 DEF s

LEMMA OrderSettle ==
    ASSUME NEW q \in Seq(Waiters), NEW t
    PROVE  Order(Settle(q, t)) = Abstract!Among(Live(q) \ {t}, Order(q))
<1> DEFINE s == Settle(q, t)
           o == Abstract!Among(Live(q) \ {t}, Order(q))
<1>1. s \in Seq(Waiters) /\ Live(s) = Live(q) \ {t}
  BY LiveSettle
<1>2. \A a, b : Precedes(s, a, b) <=> Precedes(q, a, b) /\ a # t /\ b # t
  BY PrecedesSettle
<1>3. /\ \A a, b : <<a, b>> \in Order(s) <=> Precedes(s, a, b)
      /\ \A a, b : <<a, b>> \in Order(q) <=> Precedes(q, a, b)
  BY <1>1, OrderPair
<1>4. Order(s) \subseteq Live(s) \X Live(s) /\ Order(q) \subseteq Live(q) \X Live(q)
  BY OrderIsPairs
<1>5. o \subseteq Live(s) \X Live(s)
  BY <1>1, <1>4 DEF Abstract!Among
<1>6. \A a, b : <<a, b>> \in o <=> <<a, b>> \in Order(q) /\ a # t /\ b # t
  BY <1>4 DEF Abstract!Among
<1> HIDE DEF s, o
<1>7. \A a, b : <<a, b>> \in Order(s) <=> <<a, b>> \in o
  BY <1>2, <1>3, <1>6
<1>8. Order(s) = o
  BY <1>4, <1>5, <1>7, SamePairs
<1> QED
  BY <1>8 DEF s, o

\* The head is first of the waiting writers, and the only one.
LEMMA OrderRest ==
    ASSUME NEW q \in Seq(Waiters), NoDuplicates(q), NEW i \in DOMAIN q, IsHead(q, i)
    PROVE  /\ Abstract!First(Live(q), Order(q)) = {q[i].task}
           /\ Order(Rest(q, i)) = Abstract!Among(Live(q) \ {q[i].task}, Order(q))
<1> DEFINE s == Rest(q, i)
           h == q[i].task
           o == Abstract!Among(Live(q) \ {h}, Order(q))
<1>1. s \in Seq(Waiters) /\ Live(s) = Live(q) \ {h} /\ h \in Live(q)
  BY LiveRest
<1>2. \A a, b : Precedes(s, a, b) <=> Precedes(q, a, b) /\ a # h /\ b # h
  BY PrecedesRest
<1>3. /\ \A a, b : <<a, b>> \in Order(s) <=> Precedes(s, a, b)
      /\ \A a, b : <<a, b>> \in Order(q) <=> Precedes(q, a, b)
  BY <1>1, OrderPair
<1>4. Order(s) \subseteq Live(s) \X Live(s) /\ Order(q) \subseteq Live(q) \X Live(q)
  BY OrderIsPairs
<1>5. o \subseteq Live(s) \X Live(s)
  BY <1>1, <1>4 DEF Abstract!Among
<1>6. \A a, b : <<a, b>> \in o <=> <<a, b>> \in Order(q) /\ a # h /\ b # h
  BY <1>4 DEF Abstract!Among
<1>7. \A u \in Live(q) : u # h <=> Precedes(q, h, u)
  BY HeadPrecedes
<1>8. \A u : ~Precedes(q, u, h)
  BY HeadPrecedes
<1> HIDE DEF s, h, o
<1>9. Order(s) = o
  <2>1. \A a, b : <<a, b>> \in Order(s) <=> <<a, b>> \in o
    BY <1>2, <1>3, <1>6
  <2> QED
    BY <2>1, <1>4, <1>5, SamePairs
<1>10. Abstract!First(Live(q), Order(q)) = {h}
  BY <1>1, <1>3, <1>7, <1>8 DEF Abstract!First
<1> QED
  BY <1>9, <1>10 DEF s, h, o

-----------------------------------------------------------------------------
(***************************************************************************)
(* drain() admits whom Admit admits.                                       *)
(***************************************************************************)

LEMMA GrantWriterAdmits ==
    ASSUME NEW r, NEW w, NEW ww, NEW rq, NEW wq, NEW p,
           Consistent(r, w, ww, rq, wq, p),
           GrantWriter(r, w, ww, rq, wq, p)
    PROVE  Abstract!AdmitWriter(With(p, "read"), With(p, "write"),
                                Live(rq), Live(wq), Order(wq))
<1>1. PICK i \in DOMAIN wq :
         /\ IsHead(wq, i)
         /\ writerQueue' = Rest(wq, i)
         /\ promise' = [p EXCEPT ![wq[i].task] = "write"]
  BY DEF GrantWriter
<1>2. /\ readerQueue' = rq
      /\ ~w
      /\ ww > 0
      /\ ~(ww > 0 /\ r > 0)
  BY DEF GrantWriter, Blocked
<1>3. /\ r \in Nat /\ wq \in Seq(Waiters) /\ p \in [Tasks -> Promises]
      /\ r = Cardinality(With(p, "read")) /\ (w <=> With(p, "write") # {})
      /\ With(p, "pending") = Live(rq) \cup Live(wq)
      /\ NoDuplicates(wq)
  BY DEF Consistent, Typed, Counted, Queued
<1>4. With(p, "read") = {} /\ With(p, "write") = {}
  <2>1. r = 0
    BY <1>2, <1>3
  <2> QED
    BY <2>1, <1>2, <1>3, WithFinite
<1> DEFINE h == wq[i].task
<1>5. /\ h \in Live(wq)
      /\ Live(writerQueue') = Live(wq) \ {h}
      /\ Order(writerQueue') = Abstract!Among(Live(wq) \ {h}, Order(wq))
      /\ Abstract!First(Live(wq), Order(wq)) = {h}
      /\ promise' = [p EXCEPT ![h] = "write"]
  BY <1>1, <1>3, LiveRest, OrderRest
<1> HIDE DEF h
<1>6. h \in Tasks
  BY <1>3, <1>5 DEF With
<1>7. ReadHolders' = {} /\ WriteHolders' = {h}
  BY <1>3, <1>4, <1>5, <1>6 DEF With, ReadHolders, WriteHolders
<1> QED
  BY <1>2, <1>4, <1>5, <1>7 DEF Abstract!AdmitWriter

LEMMA GrantReadersAdmits ==
    ASSUME NEW r, NEW w, NEW ww, NEW rq, NEW wq, NEW p,
           Consistent(r, w, ww, rq, wq, p),
           GrantReaders(r, w, ww, rq, wq, p)
    PROVE  Abstract!AdmitReaders(With(p, "read"), With(p, "write"),
                                 Live(rq), Live(wq), Order(wq))
<1>1. /\ readerQueue' = <<>>
      /\ promise' = [t \in Tasks |-> IF t \in Live(rq) THEN "read" ELSE p[t]]
      /\ writerQueue' = wq \/ writerQueue' = <<>>
      /\ ~w
      /\ ww = 0 \/ Live(wq) = {}
  BY DEF GrantReaders, Blocked
<1>2. /\ wq \in Seq(Waiters)
      /\ (w <=> With(p, "write") # {}) /\ ww = Cardinality(Live(wq))
      /\ With(p, "pending") = Live(rq) \cup Live(wq)
  BY DEF Consistent, Typed, Counted, Queued
<1>3. Live(wq) = {} /\ With(p, "write") = {}
  BY <1>1, <1>2, LiveTasks, FS_EmptySet
<1>4. /\ Live(readerQueue') = {}
      /\ Live(writerQueue') = {}
      /\ Order(writerQueue') = {}
  BY <1>1, <1>3, LiveEmpty, OrderIsPairs
<1>5. Live(rq) \subseteq Tasks
  BY <1>2 DEF With
<1>6. /\ ReadHolders' = With(p, "read") \cup Live(rq)
      /\ WriteHolders' = {}
  BY <1>1, <1>3, <1>5 DEF With, ReadHolders, WriteHolders
<1> QED
  BY <1>3, <1>4, <1>6 DEF Abstract!AdmitReaders

LEMMA KeepWaitingAdmits ==
    ASSUME NEW r, NEW w, NEW ww, NEW rq, NEW wq, NEW p,
           Consistent(r, w, ww, rq, wq, p),
           KeepWaiting(r, w, ww, rq, wq, p)
    PROVE  Abstract!AdmitNobody(With(p, "read"), With(p, "write"),
                                Live(rq), Live(wq), Order(wq))
<1>1. /\ readerQueue' = rq /\ writerQueue' = wq /\ promise' = p
      /\ w \/ (ww > 0 /\ r > 0)
  BY DEF KeepWaiting, Blocked
<1>2. /\ r = Cardinality(With(p, "read")) /\ (w <=> With(p, "write") # {})
      /\ ww = Cardinality(Live(wq))
  BY DEF Consistent, Counted
<1>3. With(p, "write") # {} \/ (With(p, "read") # {} /\ Live(wq) # {})
  BY <1>1, <1>2, FS_EmptySet
<1>4. Order(wq) = Abstract!Among(Live(wq), Order(wq))
  BY OrderIsPairs DEF Abstract!Among
<1>5. ReadHolders' = With(p, "read") /\ WriteHolders' = With(p, "write")
  BY <1>1 DEF With, ReadHolders, WriteHolders
<1> QED
  BY <1>1, <1>3, <1>4, <1>5 DEF Abstract!AdmitNobody

LEMMA DrainAdmits ==
    ASSUME NEW r, NEW w, NEW ww, NEW rq, NEW wq, NEW p,
           Consistent(r, w, ww, rq, wq, p),
           Drain(r, w, ww, rq, wq, p)
    PROVE  Abstract!Admit(With(p, "read"), With(p, "write"),
                          Live(rq), Live(wq), Order(wq))
BY GrantWriterAdmits, GrantReadersAdmits, KeepWaitingAdmits
   DEF Drain, Abstract!Admit

\* Only the order among those who wait matters to Admit.
LEMMA AdmitAmong ==
    ASSUME NEW r, NEW w, NEW wr, NEW ww, NEW o,
           Abstract!Admit(r, w, wr, ww, Abstract!Among(ww, o))
    PROVE  Abstract!Admit(r, w, wr, ww, o)
<1>1. Abstract!First(ww, Abstract!Among(ww, o)) = Abstract!First(ww, o)
  BY DEF Abstract!First, Abstract!Among
<1>2. ASSUME NEW S, S \subseteq ww
      PROVE  Abstract!Among(S, Abstract!Among(ww, o)) = Abstract!Among(S, o)
  BY <1>2 DEF Abstract!Among
<1>3. /\ Abstract!Among(ww, Abstract!Among(ww, o)) = Abstract!Among(ww, o)
      /\ Abstract!Among(ww \ Abstract!First(ww, o), Abstract!Among(ww, o))
           = Abstract!Among(ww \ Abstract!First(ww, o), o)
  BY <1>2
<1>4. CASE Abstract!AdmitWriter(r, w, wr, ww, Abstract!Among(ww, o))
  BY <1>4, <1>1, <1>3 DEF Abstract!AdmitWriter, Abstract!Admit
<1>5. CASE Abstract!AdmitReaders(r, w, wr, ww, Abstract!Among(ww, o))
  BY <1>5 DEF Abstract!AdmitReaders, Abstract!Admit
<1>6. CASE Abstract!AdmitNobody(r, w, wr, ww, Abstract!Among(ww, o))
  BY <1>6, <1>3 DEF Abstract!AdmitNobody, Abstract!Admit
<1> QED
  BY <1>4, <1>5, <1>6 DEF Abstract!Admit

-----------------------------------------------------------------------------
(***************************************************************************)
(* The handlers.                                                           *)
(***************************************************************************)

LEMMA Holders ==
    /\ ReadHolders = With(promise, "read")
    /\ WriteHolders = With(promise, "write")
BY DEF ReadHolders, WriteHolders, With

LEMMA FreeIsAbsent ==
    ASSUME IInv, NEW t \in Tasks, Free(t)
    PROVE  t \notin Abstract!Present
BY Holders, Parts DEF Abstract!Present, Free, With

\* Between two handlers, what the counters say of the lock.
LEMMA CountersSay ==
    ASSUME IInv
    PROVE  /\ writer <=> WriteHolders # {}
           /\ readers > 0 <=> ReadHolders # {}
           /\ writerWaiting > 0 <=> Live(writerQueue) # {}
           /\ readers \in Nat /\ writerWaiting \in Nat
<1>1. Cardinality(Live(writerQueue)) = 0 <=> Live(writerQueue) = {}
  BY Parts, LiveTasks, FS_EmptySet
<1> QED
  BY <1>1, Holders, Parts, WithFinite

LEMMA AcquireReadAsks ==
    ASSUME IInv, NEW t \in Tasks, AcquireRead(t)
    PROVE  Abstract!AskToRead(t)
<1>1. /\ Free(t) /\ ~writer /\ writerWaiting = 0
      /\ promise' = [promise EXCEPT ![t] = "read"]
      /\ writerQueue' = writerQueue /\ readerQueue' = readerQueue
  BY DEF AcquireRead, ReadAdmissible, queues
<1>2. WriteHolders = {} /\ Live(writerQueue) = {}
  BY <1>1, CountersSay
<1>3. Live(readerQueue) = {}
  BY <1>1, Parts DEF IInv, Drained
<1>4. Order(writerQueue) = {}
  BY <1>2, OrderIsPairs
<1>5. ReadHolders' = ReadHolders \cup {t} /\ WriteHolders' = {}
  BY <1>1, <1>2, Parts DEF ReadHolders, WriteHolders
<1>6. Abstract!AdmitReaders(ReadHolders, WriteHolders, Live(readerQueue) \cup {t},
                            Live(writerQueue), Order(writerQueue))
  BY <1>1, <1>2, <1>3, <1>4, <1>5 DEF Abstract!AdmitReaders
<1> QED
  BY <1>1, <1>6, FreeIsAbsent DEF Abstract!AskToRead, Abstract!Admit

LEMMA EnqueueReadAsks ==
    ASSUME IInv, NEW t \in Tasks, EnqueueRead(t)
    PROVE  Abstract!AskToRead(t)
<1>1. /\ Free(t) /\ (writer \/ writerWaiting # 0)
      /\ promise' = [promise EXCEPT ![t] = "pending"]
      /\ writerQueue' = writerQueue
      /\ readerQueue' = Append(readerQueue, Waiter(t))
  BY DEF EnqueueRead, ReadAdmissible
<1>2. promise[t] \notin {"read", "write", "pending"}
  BY <1>1 DEF Free
<1>3. WriteHolders # {} \/ (ReadHolders # {} /\ Live(writerQueue) # {})
  BY <1>1, CountersSay DEF IInv, Drained
<1>4. t \notin Live(readerQueue)
  BY <1>2, Parts DEF With
<1>5. Live(readerQueue') = Live(readerQueue) \cup {t}
  BY <1>1, <1>4, Parts, LiveAppend
<1>6. ReadHolders' = ReadHolders /\ WriteHolders' = WriteHolders
  BY <1>1, <1>2, Parts DEF ReadHolders, WriteHolders
<1>7. Order(writerQueue) = Abstract!Among(Live(writerQueue), Order(writerQueue))
  BY OrderIsPairs DEF Abstract!Among
<1>8. Abstract!AdmitNobody(ReadHolders, WriteHolders, Live(readerQueue) \cup {t},
                           Live(writerQueue), Order(writerQueue))
  BY <1>1, <1>3, <1>5, <1>6, <1>7 DEF Abstract!AdmitNobody
<1> QED
  BY <1>1, <1>8, FreeIsAbsent DEF Abstract!AskToRead, Abstract!Admit

LEMMA AcquireWriteAsks ==
    ASSUME IInv, NEW t \in Tasks, AcquireWrite(t)
    PROVE  Abstract!AskToWrite(t)
<1>1. /\ Free(t) /\ ~writer /\ readers = 0 /\ writerWaiting = 0
      /\ promise' = [promise EXCEPT ![t] = "write"]
      /\ writerQueue' = writerQueue /\ readerQueue' = readerQueue
  BY DEF AcquireWrite, WriteAdmissible, queues
<1>2. ReadHolders = {} /\ WriteHolders = {} /\ Live(writerQueue) = {}
  BY <1>1, CountersSay
<1>3. Order(writerQueue) = {}
  BY <1>2, OrderIsPairs
<1> DEFINE o == Order(writerQueue) \cup (Live(writerQueue) \X {t})
           ww == Live(writerQueue) \cup {t}
<1>4. o = {} /\ ww = {t}
  BY <1>2, <1>3
<1>5. ReadHolders' = {} /\ WriteHolders' = {t}
  BY <1>1, <1>2, Parts DEF ReadHolders, WriteHolders
<1> HIDE DEF o, ww
<1>6. Abstract!First(ww, o) = {t} /\ Abstract!Among({}, o) = {}
  BY <1>4 DEF Abstract!First, Abstract!Among
<1>7. Abstract!AdmitWriter(ReadHolders, WriteHolders, Live(readerQueue), ww, o)
  BY <1>1, <1>2, <1>3, <1>4, <1>5, <1>6 DEF Abstract!AdmitWriter
<1> QED
  BY <1>1, <1>7, FreeIsAbsent DEF Abstract!AskToWrite, Abstract!Admit, o, ww

LEMMA EnqueueWriteAsks ==
    ASSUME IInv, NEW t \in Tasks, EnqueueWrite(t)
    PROVE  Abstract!AskToWrite(t)
<1> DEFINE p == [promise EXCEPT ![t] = "pending"]
           q == Append(writerQueue, Waiter(t))
<1>1. Abstract!Admit(With(p, "read"), With(p, "write"), Live(readerQueue), Live(q), Order(q))
  BY EnqueueWriteDrains, DrainAdmits
<1>2. With(p, "read") = ReadHolders /\ With(p, "write") = WriteHolders
  BY EnqueueWriteDrains, Holders
<1>3. Free(t)
  BY DEF EnqueueWrite
<1>4. t \notin Live(writerQueue)
  BY <1>3, FreeIsAbsent DEF Abstract!Present
<1>5. /\ Live(q) = Live(writerQueue) \cup {t}
      /\ Order(q) = Order(writerQueue) \cup (Live(writerQueue) \X {t})
  BY <1>4, Parts, LiveAppend, OrderAppend
<1> HIDE DEF p, q
<1> QED
  BY <1>1, <1>2, <1>3, <1>5, FreeIsAbsent DEF Abstract!AskToWrite

LEMMA TimeoutReadLeaves ==
    ASSUME IInv, NEW t \in Tasks, TimeoutRead(t)
    PROVE  Abstract!Leave(t)
<1> DEFINE p == [promise EXCEPT ![t] = "rejected"]
           q == Settle(readerQueue, t)
<1>1. Abstract!Admit(With(p, "read"), With(p, "write"), Live(q),
                     Live(writerQueue), Order(writerQueue))
  BY TimeoutReadDrains, DrainAdmits
<1>2. With(p, "read") = ReadHolders /\ With(p, "write") = WriteHolders
  BY TimeoutReadDrains, Holders
<1>3. t \in Live(readerQueue)
  BY DEF TimeoutRead
<1>4. Live(q) = Live(readerQueue) \ {t} /\ t \notin Live(writerQueue)
  BY <1>3, Parts, LiveSettle
<1>5. t \notin ReadHolders /\ t \notin WriteHolders
  BY <1>3, Holders, Parts DEF With
<1> HIDE DEF p, q
<1>6. /\ ReadHolders \ {t} = ReadHolders
      /\ WriteHolders \ {t} = WriteHolders
      /\ Live(writerQueue) \ {t} = Live(writerQueue)
  BY <1>4, <1>5
<1> QED
  BY <1>1, <1>2, <1>3, <1>4, <1>6 DEF Abstract!Leave, Abstract!Present

LEMMA TimeoutWriteLeaves ==
    ASSUME IInv, NEW t \in Tasks, TimeoutWrite(t)
    PROVE  Abstract!Leave(t)
<1> DEFINE p == [promise EXCEPT ![t] = "rejected"]
           q == Settle(writerQueue, t)
<1>1. Abstract!Admit(With(p, "read"), With(p, "write"), Live(readerQueue),
                     Live(q), Order(q))
  BY TimeoutWriteDrains, DrainAdmits
<1>2. With(p, "read") = ReadHolders /\ With(p, "write") = WriteHolders
  BY TimeoutWriteDrains, Holders
<1>3. t \in Live(writerQueue)
  BY DEF TimeoutWrite
<1>4. /\ Live(q) = Live(writerQueue) \ {t}
      /\ Order(q) = Abstract!Among(Live(writerQueue) \ {t}, Order(writerQueue))
      /\ t \notin Live(readerQueue)
  BY <1>3, Parts, LiveSettle, OrderSettle
<1>5. t \notin ReadHolders /\ t \notin WriteHolders
  BY <1>3, Holders, Parts DEF With
<1> HIDE DEF p, q
<1>6. /\ ReadHolders \ {t} = ReadHolders
      /\ WriteHolders \ {t} = WriteHolders
      /\ Live(readerQueue) \ {t} = Live(readerQueue)
  BY <1>4, <1>5
<1>7. Abstract!Admit(ReadHolders, WriteHolders, Live(readerQueue),
                     Live(writerQueue) \ {t}, Order(writerQueue))
  BY <1>1, <1>2, <1>4, AdmitAmong
<1> QED
  BY <1>3, <1>6, <1>7 DEF Abstract!Leave, Abstract!Present

LEMMA ReleaseReadLeaves ==
    ASSUME IInv, NEW t \in Tasks, ReleaseRead(t)
    PROVE  Abstract!Leave(t)
<1> DEFINE p == [promise EXCEPT ![t] = "released"]
<1>1. Abstract!Admit(With(p, "read"), With(p, "write"), Live(readerQueue),
                     Live(writerQueue), Order(writerQueue))
  BY ReleaseReadDrains, DrainAdmits
<1>2. With(p, "read") = ReadHolders \ {t} /\ With(p, "write") = WriteHolders \ {t}
  BY ReleaseReadDrains, Holders
<1>3. t \in ReadHolders /\ t \notin Live(readerQueue) /\ t \notin Live(writerQueue)
  BY Parts DEF ReleaseRead, ReadHolders, With
<1> HIDE DEF p
<1>4. Live(readerQueue) \ {t} = Live(readerQueue) /\ Live(writerQueue) \ {t} = Live(writerQueue)
  BY <1>3
<1> QED
  BY <1>1, <1>2, <1>3, <1>4 DEF Abstract!Leave, Abstract!Present

LEMMA ReleaseWriteLeaves ==
    ASSUME IInv, NEW t \in Tasks, ReleaseWrite(t)
    PROVE  Abstract!Leave(t)
<1> DEFINE p == [promise EXCEPT ![t] = "released"]
<1>1. Abstract!Admit(With(p, "read"), With(p, "write"), Live(readerQueue),
                     Live(writerQueue), Order(writerQueue))
  BY ReleaseWriteDrains, DrainAdmits
<1>2. With(p, "read") = ReadHolders \ {t} /\ With(p, "write") = WriteHolders \ {t}
  BY ReleaseWriteDrains, Holders
<1>3. t \in WriteHolders /\ t \notin Live(readerQueue) /\ t \notin Live(writerQueue)
  BY Parts DEF ReleaseWrite, WriteHolders, With
<1> HIDE DEF p
<1>4. Live(readerQueue) \ {t} = Live(readerQueue) /\ Live(writerQueue) \ {t} = Live(writerQueue)
  BY <1>3
<1> QED
  BY <1>1, <1>2, <1>3, <1>4 DEF Abstract!Leave, Abstract!Present

LEMMA FailFastStutters ==
    ASSUME IInv, NEW t \in Tasks, FailFast(t)
    PROVE  UNCHANGED Abstract!vars
<1>1. /\ promise[t] \notin {"read", "write"}
      /\ promise' = [promise EXCEPT ![t] = "rejected"]
      /\ writerQueue' = writerQueue /\ readerQueue' = readerQueue
  BY DEF FailFast, Free, queues
<1>2. ReadHolders' = ReadHolders /\ WriteHolders' = WriteHolders
  BY <1>1, Parts DEF ReadHolders, WriteHolders
<1> QED
  BY <1>1, <1>2 DEF Abstract!vars

LEMMA UnchangedStutters ==
    ASSUME UNCHANGED vars
    PROVE  UNCHANGED Abstract!vars
BY DEF vars, Abstract!vars, ReadHolders, WriteHolders

-----------------------------------------------------------------------------
LEMMA InitImplements == Init => Abstract!Init
<1> SUFFICES ASSUME Init PROVE Abstract!Init
  OBVIOUS
<1>1. Live(readerQueue) = {} /\ Live(writerQueue) = {}
  BY LiveEmpty DEF Init
<1>2. Order(writerQueue) = {}
  BY <1>1, OrderIsPairs
<1>3. ReadHolders = {} /\ WriteHolders = {}
  BY DEF Init, ReadHolders, WriteHolders
<1> QED
  BY <1>1, <1>2, <1>3 DEF Abstract!Init

LEMMA StepImplements ==
    ASSUME IInv, [Next]_vars
    PROVE  [Abstract!Next]_(Abstract!vars)
<1>1. ASSUME NEW t \in Tasks, AcquireRead(t) PROVE Abstract!Next
  BY <1>1, AcquireReadAsks DEF Abstract!Next
<1>2. ASSUME NEW t \in Tasks, EnqueueRead(t) PROVE Abstract!Next
  BY <1>2, EnqueueReadAsks DEF Abstract!Next
<1>3. ASSUME NEW t \in Tasks, AcquireWrite(t) PROVE Abstract!Next
  BY <1>3, AcquireWriteAsks DEF Abstract!Next
<1>4. ASSUME NEW t \in Tasks, EnqueueWrite(t) PROVE Abstract!Next
  BY <1>4, EnqueueWriteAsks DEF Abstract!Next
<1>5. ASSUME NEW t \in Tasks, FailFast(t) PROVE UNCHANGED Abstract!vars
  BY <1>5, FailFastStutters
<1>6. ASSUME NEW t \in Tasks, TimeoutRead(t) PROVE Abstract!Next
  BY <1>6, TimeoutReadLeaves DEF Abstract!Next
<1>7. ASSUME NEW t \in Tasks, TimeoutWrite(t) PROVE Abstract!Next
  BY <1>7, TimeoutWriteLeaves DEF Abstract!Next
<1>8. ASSUME NEW t \in Tasks, ReleaseRead(t) PROVE Abstract!Next
  BY <1>8, ReleaseReadLeaves DEF Abstract!Next
<1>9. ASSUME NEW t \in Tasks, ReleaseWrite(t) PROVE Abstract!Next
  BY <1>9, ReleaseWriteLeaves DEF Abstract!Next
<1>10. ASSUME NEW t \in Tasks, ReleaseAgain(t) PROVE UNCHANGED Abstract!vars
  BY <1>10, UnchangedStutters DEF ReleaseAgain
<1>11. CASE UNCHANGED vars
  BY <1>11, UnchangedStutters
<1> QED
  BY <1>1, <1>2, <1>3, <1>4, <1>5, <1>6, <1>7, <1>8, <1>9, <1>10, <1>11 DEF Next

\* rwLock.ts keeps its promise: whatever the counters, the settled entries
\* and the order of timeouts and releases, callers see many readers or one
\* writer, writers first and in the order they asked, and readers admitted
\* as one cohort.
THEOREM LockImplementsPriority == Spec => ImplementsWriterPriority
<1>1. Init => Abstract!Init
  BY InitImplements
<1>2. IInv /\ [Next]_vars => [Abstract!Next]_(Abstract!vars)
  BY StepImplements
<1> QED
  BY <1>1, <1>2, Invariance, PTL DEF Spec, ImplementsWriterPriority, Abstract!Spec
=============================================================================
