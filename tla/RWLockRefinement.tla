-------------------------- MODULE RWLockRefinement --------------------------
(***************************************************************************)
(* The lock of RWLock implements WriterPriority: forget the counters, and  *)
(* the entries of the writer queue whose timer has fired.                  *)
(***************************************************************************)
EXTENDS RWLock

\* The waiter of t stands before the waiter of u.
Precedes(q, t, u) ==
    \E i, j \in DOMAIN q : i < j /\ q[i] = Waiter(t) /\ q[j] = Waiter(u)
Order(q) == {p \in Live(q) \X Live(q) : Precedes(q, p[1], p[2])}

Abstract == INSTANCE WriterPriority WITH
    reading <- ReadHolders,
    writing <- WriteHolders,
    waitingToRead <- Live(readerQueue),
    waitingToWrite <- Live(writerQueue),
    before <- Order(writerQueue)

\* Every step of the lock, lazy deletion and all, is a step of the promise or
\* leaves it as it is: FIFO among writers, readers admitted as one cohort.
ImplementsWriterPriority == Abstract!Spec
=============================================================================
