--------------------------- MODULE LongPollProofs ---------------------------
(***************************************************************************)
(* Proofs about LongPoll, for any set of pullers, any batches and limit,   *)
(* and any of the hazards: a notification loop never runs off the entries, *)
(* the pending bit is set only while nobody sleeps, and no pull exceeds    *)
(* the limit.  The second half is about wake-ups: none is lost.            *)
(*                                                                         *)
(* The counts are right because a puller is in one place: it has one       *)
(* microtask, or waits for the lock, or sleeps with one live entry.  That  *)
(* again needs that one handler at a time has the lock, so the invariant   *)
(* has a part for the lock and one for the places.  The head cursor is a   *)
(* choice of the least number of entries to skip: that there is one is an  *)
(* induction, carried out with the least element of a set of numbers.      *)
(***************************************************************************)
EXTENDS LongPoll, FiniteSetTheorems, SequenceTheorems, WellFoundedInduction, TLAPS

-----------------------------------------------------------------------------
(***************************************************************************)
(* The invariant.                                                          *)
(***************************************************************************)

\* n live entries, of n pullers, and these are S.
LiveIn(q) == {i \in DOMAIN q : ~q[i].cancelled}
Waits(q, n, S) ==
    /\ n = Cardinality(LiveIn(q))
    /\ \A i, k \in LiveIn(q) : q[i].puller = q[k].puller => i = k
    /\ {q[i].puller : i \in LiveIn(q)} = S

\* The microtasks of the handler that has the lock.
Holding == {"section", "release"}
Holders(q) == {i \in DOMAIN q : q[i].step \in Holding}

\* One at most, and it is that of the first in line.
OneHolder ==
    \A i \in Holders(tasks) :
        /\ lock # <<>> /\ tasks[i].handler = lock[1]
        /\ \A k \in Holders(tasks) : i = k

\* A puller that has a microtask, or waits for the lock, is in no other place.
TaskOf(i, c) == i \in DOMAIN tasks /\ tasks[i].handler = Call("pull", c)
InLineOf(i, c) == i \in DOMAIN lock /\ i > 1 /\ lock[i] = Call("pull", c)
Awake(c) == pc[c] \in {"running", "served"}
PlaceOf(c) ==
    /\ \A i \in DOMAIN tasks : TaskOf(i, c) =>
          /\ Awake(c)
          /\ \A k \in DOMAIN tasks : TaskOf(k, c) => i = k
          /\ \A k \in DOMAIN lock : ~InLineOf(k, c)
    /\ \A i \in DOMAIN lock : InLineOf(i, c) =>
          /\ Awake(c)
          /\ \A k \in DOMAIN lock : InLineOf(k, c) => i = k
OnePlaceEach == \A c \in Pullers : PlaceOf(c)

\* The calls that are still to give back a slot: the first in line has done so
\* when it is about to release the lock.
Due == {i \in InLine(Releases) : i = 1 => \A k \in DOMAIN tasks : tasks[k].step # "release"}
SlotsInUse == Cardinality(Due) <= active /\ active <= Limit

IInv ==
    /\ TypeOK
    /\ Waits(entries, activeWaiters, Sleepers)
    /\ PendingMeansNobodySleeps
    /\ OneHolder
    /\ OnePlaceEach
    /\ SlotsInUse

-----------------------------------------------------------------------------
(***************************************************************************)
(* The head cursor.                                                        *)
(***************************************************************************)

LEMMA LeastNatural ==
    ASSUME NEW T \in SUBSET Nat, T # {}
    PROVE  \E m \in T : \A n \in T : m <= n
<1> DEFINE R == OpToRel(<, Nat)
<1>1. IsWellFoundedOn(R, Nat)
  BY NatLessThanWellFounded, Zenon
<1>2. \A x, y \in Nat : y < x => <<y, x>> \in R
  BY DEF OpToRel
<1> HIDE DEF R
<1>3. PICK m \in T : \A n \in T : ~(<<n, m>> \in R)
  BY <1>1, WFMin
<1>4. ASSUME NEW n \in T
      PROVE  m <= n
  <2>1. ~(n < m)
    BY <1>2, <1>3
  <2> QED
    BY <2>1
<1> QED
  BY <1>4

\* The live entries among the first h.
Upto(h) == {i \in Live : i <= h}

LEMMA UptoGrows ==
    ASSUME entries \in Seq(Entries), NEW h \in Nat
    PROVE  /\ IsFiniteSet(Live) /\ Upto(0) = {} /\ Upto(Len(entries)) = Live
           /\ IsFiniteSet(Upto(h)) /\ Cardinality(Upto(h)) \in Nat
           /\ h + 1 \in Live => Cardinality(Upto(h + 1)) = Cardinality(Upto(h)) + 1
           /\ h + 1 \notin Live => Cardinality(Upto(h + 1)) = Cardinality(Upto(h))
           /\ \A g \in 0..h : Cardinality(Upto(g)) <= Cardinality(Upto(h))
<1>1. Len(entries) \in Nat /\ \A i \in Live : i \in 1..Len(entries) /\ i \in Nat
  BY DEF Live
<1>2. IsFiniteSet(Live)
  <2>1. IsFiniteSet(1..Len(entries)) /\ Live \in SUBSET (1..Len(entries))
    BY <1>1, FS_Interval
  <2> QED
    BY <2>1, FS_Subset
<1>3. \A g \in Nat : IsFiniteSet(Upto(g)) /\ Cardinality(Upto(g)) \in Nat
  BY <1>2, FS_Subset, FS_CardinalityType DEF Upto
<1>4. \A g \in 0..h : Upto(g) \subseteq Upto(h)
  BY <1>1 DEF Upto
<1>5. \A g \in 0..h : Cardinality(Upto(g)) <= Cardinality(Upto(h))
  BY <1>3, <1>4, FS_Subset
<1>6. h + 1 \in Live => Upto(h + 1) = Upto(h) \cup {h + 1} /\ h + 1 \notin Upto(h)
  BY <1>1 DEF Upto
<1>7. h + 1 \notin Live => Upto(h + 1) = Upto(h)
  BY <1>1 DEF Upto
<1>8. h + 1 \in Live => Cardinality(Upto(h + 1)) = Cardinality(Upto(h)) + 1
  BY <1>3, <1>6, FS_AddElement
<1>9. h + 1 \notin Live => Cardinality(Upto(h + 1)) = Cardinality(Upto(h))
  BY <1>7
<1>10. Upto(0) = {} /\ Upto(Len(entries)) = Live
  BY <1>1 DEF Upto
<1> QED
  BY <1>2, <1>3, <1>5, <1>8, <1>9, <1>10

LEMMA CursorFound ==
    ASSUME entries \in Seq(Entries), NEW k \in Nat, k <= Cardinality(Live)
    PROVE  /\ CursorAfter(k) \in 0..Len(entries)
           /\ Cardinality(Upto(CursorAfter(k))) = k
           /\ \A g \in 0..(CursorAfter(k) - 1) : Cardinality(Upto(g)) < k
<1> DEFINE Reached == {h \in 0..Len(entries) : Cardinality(Upto(h)) >= k}
<1>1. Len(entries) \in Nat /\ Len(entries) \in Reached /\ Reached \in SUBSET Nat
  BY UptoGrows
<1>2. PICK h \in Reached : \A g \in Reached : h <= g
  <2> HIDE DEF Reached
  <2> QED
    BY <1>1, LeastNatural
<1>3. ASSUME NEW g \in 0..(h - 1)
      PROVE  Cardinality(Upto(g)) < k
  <2>1. h \in 0..Len(entries) /\ Len(entries) \in Nat
    BY <1>1, <1>2
  <2>2. g \in Nat /\ g \in 0..Len(entries) /\ ~(h <= g)
    BY <2>1
  <2>3. Cardinality(Upto(g)) \in Nat /\ ~(Cardinality(Upto(g)) >= k)
    BY <1>2, <2>2, UptoGrows
  <2> QED
    BY <2>3
<1>4. Cardinality(Upto(h)) = k
  <2>1. CASE h = 0
    <3>1. Cardinality(Upto(0)) = 0
      BY UptoGrows, FS_EmptySet
    <3> QED
      BY <1>2, <2>1, <3>1
  <2>2. CASE h # 0
    <3>1. h - 1 \in Nat /\ h - 1 \in 0..(h - 1) /\ (h - 1) + 1 = h
      BY <1>1, <1>2, <2>2
    <3>2. /\ Cardinality(Upto(h - 1)) < k /\ Cardinality(Upto(h - 1)) \in Nat
          /\ Cardinality(Upto((h - 1) + 1)) <= Cardinality(Upto(h - 1)) + 1
      <4>1. Cardinality(Upto(h - 1)) \in Nat
        BY <3>1, UptoGrows
      <4>2. Cardinality(Upto((h - 1) + 1)) \in {Cardinality(Upto(h - 1)), Cardinality(Upto(h - 1)) + 1}
        BY <3>1, UptoGrows
      <4>3. Cardinality(Upto(h - 1)) < k
        BY <1>3, <3>1
      <4> QED
        BY <4>1, <4>2, <4>3
    <3>3. Cardinality(Upto(h)) \in Nat /\ Cardinality(Upto(h)) >= k
      BY <1>2, <3>1, UptoGrows
    <3> QED
      BY <3>1, <3>2, <3>3
  <2> QED
    BY <2>1, <2>2
<1>5. \E c \in 0..Len(entries) :
        /\ Cardinality({i \in Live : i <= c}) = k
        /\ \A g \in 0..(c - 1) : Cardinality({i \in Live : i <= g}) < k
  BY <1>2, <1>3, <1>4 DEF Upto
<1> QED
  BY <1>5 DEF CursorAfter, Upto

\* The cursor stops behind each live entry in turn.
LEMMA CursorStops ==
    ASSUME entries \in Seq(Entries), NEW k \in Nat, k <= Cardinality(Live)
    PROVE  /\ \A i \in 1..k : CursorAfter(i) \in Upto(CursorAfter(k))
           /\ \A i, n \in 1..k : CursorAfter(i) = CursorAfter(n) => i = n
           /\ \A p \in Upto(CursorAfter(k)) : \E i \in 1..k : CursorAfter(i) = p
<1>1. \A i \in 0..k : /\ CursorAfter(i) \in 0..Len(entries)
                      /\ Cardinality(Upto(CursorAfter(i))) = i
                      /\ \A g \in 0..(CursorAfter(i) - 1) : Cardinality(Upto(g)) < i
  <2>1. Cardinality(Live) \in Nat /\ \A i \in 0..k : i \in Nat /\ i <= Cardinality(Live)
    BY UptoGrows, FS_CardinalityType
  <2> QED
    BY <2>1, CursorFound
<1>2. ASSUME NEW i \in 1..k
      PROVE  CursorAfter(i) \in Upto(CursorAfter(k))
  <2> DEFINE h == CursorAfter(i)
  <2>1. h \in Nat /\ Cardinality(Upto(h)) = i /\ \A g \in 0..(h - 1) : Cardinality(Upto(g)) < i
    BY <1>1
  <2>2. h # 0
    BY <2>1, UptoGrows, FS_EmptySet
  <2>3. h - 1 \in Nat /\ h - 1 \in 0..(h - 1) /\ (h - 1) + 1 = h
    BY <2>1, <2>2
  <2>4. h \in Live
    <3>1. Cardinality(Upto(h - 1)) < i
      BY <2>1, <2>3
    <3>2. h \notin Live => Cardinality(Upto(h)) = Cardinality(Upto(h - 1))
      BY <2>3, UptoGrows
    <3> QED
      BY <2>1, <2>3, <3>1, <3>2, UptoGrows
  <2>5. h <= CursorAfter(k)
    <3>1. CASE i = k
      BY <2>1, <3>1
    <3>2. CASE i < k /\ CursorAfter(k) < h
      <4>1. CursorAfter(k) \in 0..(h - 1) /\ k \in 0..k
        BY <1>1, <2>1, <3>2
      <4>2. Cardinality(Upto(CursorAfter(k))) < i
        BY <2>1, <4>1
      <4> QED
        BY <1>1, <3>2, <4>1, <4>2
    <3> QED
      BY <1>1, <2>1, <3>1, <3>2
  <2> QED
    BY <2>4, <2>5 DEF Upto
<1>3. ASSUME NEW p \in Upto(CursorAfter(k))
      PROVE  \E i \in 1..k : CursorAfter(i) = p
  <2> DEFINE i == Cardinality(Upto(p))
  <2>1. p \in Live /\ p \in 1..Len(entries) /\ p <= CursorAfter(k) /\ CursorAfter(k) \in Nat
    <3>1. k \in 0..k /\ CursorAfter(k) \in 0..Len(entries) /\ Len(entries) \in Nat
      BY <1>1
    <3>2. p \in Live /\ p <= CursorAfter(k)
      BY DEF Upto
    <3>3. p \in 1..Len(entries)
      BY <3>2 DEF Live
    <3> QED
      BY <3>1, <3>2, <3>3
  <2>2. i \in Nat /\ i <= k
    BY <1>1, <2>1, UptoGrows
  <2>3. p - 1 \in Nat /\ (p - 1) + 1 = p
    BY <2>1
  <2>4. i = Cardinality(Upto(p - 1)) + 1 /\ Cardinality(Upto(p - 1)) \in Nat
    BY <2>1, <2>3, UptoGrows
  <2>5. i \in 1..k
    BY <2>2, <2>4
  <2>6. \A g \in 0..(p - 1) : Cardinality(Upto(g)) < i
    <3>1. \A g \in 0..(p - 1) : Cardinality(Upto(g)) <= Cardinality(Upto(p - 1)) /\ Cardinality(Upto(g)) \in Nat
      BY <2>3, UptoGrows
    <3> QED
      BY <2>4, <3>1
  <2> DEFINE h == CursorAfter(i)
  <2>7. h \in 0..Len(entries) /\ Cardinality(Upto(h)) = i /\ \A g \in 0..(h - 1) : Cardinality(Upto(g)) < i
    BY <1>1, <2>5
  <2>8. ~(h < p)
    <3>1. ~(Cardinality(Upto(h)) < i)
      BY <2>2, <2>7
    <3>2. h \notin 0..(p - 1)
      BY <2>6, <3>1
    <3> QED
      BY <2>1, <2>7, <3>2
  <2>9. ~(p < h)
    BY <2>1, <2>2, <2>7
  <2> HIDE DEF i, h
  <2>10. h = p
    BY <2>1, <2>7, <2>8, <2>9
  <2> QED
    BY <2>5, <2>10 DEF h
<1> QED
  BY <1>1, <1>2, <1>3

-----------------------------------------------------------------------------
(***************************************************************************)
(* The waiters.                                                            *)
(***************************************************************************)

LEMMA LiveFinite ==
    ASSUME NEW q \in Seq(Entries)
    PROVE  IsFiniteSet(LiveIn(q)) /\ Cardinality(LiveIn(q)) \in Nat
<1>1. LiveIn(q) \in SUBSET (1..Len(q)) /\ IsFiniteSet(1..Len(q))
  BY FS_Interval DEF LiveIn
<1>2. IsFiniteSet(LiveIn(q))
  BY <1>1, FS_Subset
<1> QED
  BY <1>2, FS_CardinalityType

LEMMA WaitsSleep ==
    ASSUME NEW q \in Seq(Entries), NEW n, NEW S, Waits(q, n, S), NEW c \in Pullers, c \notin S
    PROVE  /\ Append(q, [puller |-> c, cancelled |-> FALSE]) \in Seq(Entries)
           /\ Waits(Append(q, [puller |-> c, cancelled |-> FALSE]), n + 1, S \cup {c})
<1> DEFINE e == [puller |-> c, cancelled |-> FALSE]
           r == Append(q, e)
<1>1. e \in Entries
  BY DEF Entries
<1>2. /\ r \in Seq(Entries) /\ Len(r) = Len(q) + 1 /\ Len(q) \in Nat
      /\ \A i \in 1..Len(q) : r[i] = q[i]
      /\ r[Len(q) + 1] = e /\ DOMAIN r = 1..(Len(q) + 1) /\ DOMAIN q = 1..Len(q)
  BY <1>1, AppendProperties
<1> HIDE DEF r
<1>3. LiveIn(r) = LiveIn(q) \cup {Len(q) + 1} /\ Len(q) + 1 \notin LiveIn(q)
  BY <1>2 DEF LiveIn
<1>4. Cardinality(LiveIn(r)) = n + 1
  BY <1>3, LiveFinite, FS_AddElement DEF Waits
<1>5. \A i \in LiveIn(q) : r[i] = q[i] /\ q[i].puller \in S
  BY <1>2 DEF LiveIn, Waits
<1>6. r[Len(q) + 1].puller = c
  BY <1>2
<1>7. {r[i].puller : i \in LiveIn(r)} = S \cup {c}
  BY <1>3, <1>5, <1>6 DEF Waits
<1>8. \A i, k \in LiveIn(r) : r[i].puller = r[k].puller => i = k
  BY <1>3, <1>5, <1>6 DEF Waits
<1> QED
  BY <1>2, <1>4, <1>7, <1>8 DEF Waits, r

LEMMA WaitsCompact ==
    ASSUME NEW q \in Seq(Entries), NEW n, NEW S, Waits(q, n, S)
    PROVE  Compact(q, n) \in Seq(Entries) /\ Waits(Compact(q, n), n, S)
<1>1. CASE n = 0
  <2>1. LiveIn(q) = {} /\ S = {}
    BY <1>1, LiveFinite, FS_EmptySet DEF Waits
  <2>2. LiveIn(<<>>) = {} /\ <<>> \in Seq(Entries)
    BY DEF LiveIn
  <2> QED
    BY <1>1, <2>1, <2>2, FS_EmptySet DEF Waits, Compact
<1>2. CASE n # 0
  BY <1>2 DEF Compact
<1> QED
  BY <1>1, <1>2

Cancelled(q, c) ==
    [i \in DOMAIN q |-> IF q[i].puller = c THEN [q[i] EXCEPT !.cancelled = TRUE] ELSE q[i]]

LEMMA WaitsCancel ==
    ASSUME NEW q \in Seq(Entries), NEW n \in Nat, NEW S, Waits(q, n, S), NEW c \in S
    PROVE  n - 1 \in Nat /\ Cancelled(q, c) \in Seq(Entries) /\ Waits(Cancelled(q, c), n - 1, S \ {c})
<1> DEFINE r == Cancelled(q, c)
<1>1. PICK p \in LiveIn(q) : q[p].puller = c
  BY DEF Waits
<1>2. Len(q) \in Nat /\ DOMAIN q = 1..Len(q) /\ \A i \in DOMAIN q : q[i] \in Entries
  OBVIOUS
<1>3. /\ DOMAIN r = DOMAIN q
      /\ \A i \in DOMAIN q : /\ r[i] \in Entries /\ r[i].puller = q[i].puller
                             /\ r[i].cancelled <=> q[i].cancelled \/ q[i].puller = c
  BY <1>2 DEF Cancelled, Entries
<1>4. r \in Seq(Entries)
  BY <1>2, <1>3 DEF Cancelled
<1> HIDE DEF r
<1>5. LiveIn(r) = LiveIn(q) \ {p}
  BY <1>1, <1>3 DEF LiveIn, Waits
<1>6. Cardinality(LiveIn(r)) = n - 1
  BY <1>1, <1>5, LiveFinite, FS_RemoveElement DEF Waits
<1>7. \A i, k \in LiveIn(r) : r[i].puller = r[k].puller => i = k
  BY <1>3, <1>5 DEF Waits, LiveIn
<1>8. {r[i].puller : i \in LiveIn(r)} = S \ {c}
  BY <1>1, <1>3, <1>5 DEF Waits, LiveIn
<1>9. n - 1 \in Nat
  BY <1>4, <1>6, LiveFinite
<1> QED
  BY <1>4, <1>6, <1>7, <1>8, <1>9 DEF Waits, r

\* The entries behind the cursor.
LEMMA WaitsRest ==
    ASSUME NEW q \in Seq(Entries), NEW n \in Nat, NEW S, Waits(q, n, S), NEW h \in 0..Len(q),
           NEW U, U = {i \in LiveIn(q) : i <= h}
    PROVE  /\ SubSeq(q, h + 1, Len(q)) \in Seq(Entries)
           /\ Waits(SubSeq(q, h + 1, Len(q)), n - Cardinality(U), S \ {q[i].puller : i \in U})
<1> DEFINE r == SubSeq(q, h + 1, Len(q))
           B == LiveIn(q) \ U
<1>1. /\ r \in Seq(Entries) /\ Len(q) \in Nat /\ Len(r) = Len(q) - h
      /\ \A i \in 1..Len(r) : r[i] = q[h + i]
      /\ DOMAIN r = 1..Len(r) /\ DOMAIN q = 1..Len(q)
  BY SubSeqProperties
<1> HIDE DEF r
<1>2. \A i \in LiveIn(r) : i \in Nat /\ i + h \in B /\ r[i] = q[i + h]
  BY <1>1 DEF LiveIn
<1>3. \A i \in B : i \in Nat /\ i - h \in LiveIn(r) /\ (i - h) + h = i
  BY <1>1 DEF LiveIn
<1>4. \A i \in B : q[i] = r[i - h]
  BY <1>2, <1>3
<1>5. Cardinality(LiveIn(r)) = Cardinality(B)
  <2> DEFINE f == [i \in LiveIn(r) |-> i + h]
  <2>1. f \in Bijection(LiveIn(r), B)
    <3>1. f \in [LiveIn(r) -> B]
      BY <1>2
    <3>2. \A i, k \in LiveIn(r) : f[i] = f[k] => i = k
      BY <1>2
    <3>3. \A i \in B : i - h \in LiveIn(r) /\ f[i - h] = i
      BY <1>3
    <3> HIDE DEF f
    <3> QED
      BY <3>1, <3>2, <3>3, Zenon DEF Bijection, Injection, Surjection, IsInjective
  <2>2. ExistsBijection(LiveIn(r), B)
    BY <2>1 DEF ExistsBijection
  <2> QED
    BY <1>1, <2>2, LiveFinite, FS_Bijection
<1>6. Cardinality(B) = n - Cardinality(U)
  <2>1. /\ IsFiniteSet(U) /\ IsFiniteSet(B) /\ U \cup B = LiveIn(q) /\ U \cap B = {}
        /\ Cardinality(U) \in Nat /\ Cardinality(B) \in Nat /\ Cardinality(U \cap B) = 0
    BY LiveFinite, FS_Subset, FS_CardinalityType, FS_EmptySet
  <2>2. Cardinality(U \cup B) = Cardinality(U) + Cardinality(B) - Cardinality(U \cap B)
    BY <2>1, FS_Union
  <2>3. Cardinality(U \cup B) = n
    BY <2>1 DEF Waits
  <2> QED
    BY <2>1, <2>2, <2>3
<1>7. \A i, k \in LiveIn(r) : r[i].puller = r[k].puller => i = k
  BY <1>2 DEF Waits
<1>8. {r[i].puller : i \in LiveIn(r)} = S \ {q[i].puller : i \in U}
  <2>1. {r[i].puller : i \in LiveIn(r)} = {q[i].puller : i \in B}
    <3>1. \A i \in LiveIn(r) : \E k \in B : r[i].puller = q[k].puller
      BY <1>2
    <3>2. \A k \in B : \E i \in LiveIn(r) : r[i].puller = q[k].puller
      BY <1>3, <1>4
    <3> HIDE DEF B
    <3> QED
      BY <3>1, <3>2
  <2>2. {q[i].puller : i \in B} = S \ {q[i].puller : i \in U}
    BY DEF Waits
  <2> QED
    BY <2>1, <2>2
<1> QED
  BY <1>1, <1>5, <1>6, <1>7, <1>8 DEF Waits, r

\* A notification wakes the sleepers at the first n live entries, each once.
LEMMA WokenAre ==
    ASSUME entries \in Seq(Entries), Waits(entries, activeWaiters, Sleepers), NEW n \in Nat
    PROVE  LET k == Smaller(n, activeWaiters)
               h == CursorAfter(k) IN
           /\ k \in Nat /\ k <= n /\ k <= activeWaiters /\ (k = n \/ k = activeWaiters)
           /\ h \in 0..Len(entries) /\ Cardinality(Upto(h)) = k
           /\ Woken(n) \in [1..k -> Sleepers]
           /\ {Woken(n)[i] : i \in DOMAIN Woken(n)} = {entries[i].puller : i \in Upto(h)}
           /\ \A i, j \in 1..k : Woken(n)[i] = Woken(n)[j] => i = j
<1> DEFINE k == Smaller(n, activeWaiters)
           h == CursorAfter(k)
<1>1. Live = LiveIn(entries) /\ activeWaiters \in Nat
  BY LiveFinite DEF Live, LiveIn, Waits
<1>2. k \in Nat /\ k <= n /\ k <= activeWaiters /\ (k = n \/ k = activeWaiters)
  BY <1>1 DEF Smaller
<1> HIDE DEF k
<1>3. k <= Cardinality(Live)
  BY <1>1, <1>2 DEF Waits
<1>4. h \in 0..Len(entries) /\ Cardinality(Upto(h)) = k
  BY <1>2, <1>3, CursorFound
<1>5. /\ \A i \in 1..k : CursorAfter(i) \in Upto(h)
      /\ \A i, j \in 1..k : CursorAfter(i) = CursorAfter(j) => i = j
      /\ \A p \in Upto(h) : \E i \in 1..k : CursorAfter(i) = p
  BY <1>2, <1>3, CursorStops
<1> HIDE DEF h
<1>6. Woken(n) = [i \in 1..k |-> entries[CursorAfter(i)].puller]
  BY DEF Woken, k
<1>7. \A i \in 1..k : CursorAfter(i) \in LiveIn(entries)
  BY <1>1, <1>5 DEF Upto
<1>8. \A i \in 1..k : Woken(n)[i] = entries[CursorAfter(i)].puller /\ Woken(n)[i] \in Sleepers
  BY <1>6, <1>7 DEF Waits
<1>9. Woken(n) \in [1..k -> Sleepers] /\ DOMAIN Woken(n) = 1..k
  BY <1>6, <1>8
<1>10. {Woken(n)[i] : i \in DOMAIN Woken(n)} = {entries[i].puller : i \in Upto(h)}
  BY <1>5, <1>8, <1>9
<1>11. \A i, j \in 1..k : Woken(n)[i] = Woken(n)[j] => i = j
  BY <1>5, <1>7, <1>8 DEF Waits
<1> QED
  BY <1>2, <1>4, <1>9, <1>10, <1>11 DEF k, h

LEMMA WakesAre ==
    ASSUME entries \in Seq(Entries), Waits(entries, activeWaiters, Sleepers), NEW n \in Nat
    PROVE  /\ Wakes(n) \in Seq(Tasks)
           /\ DOMAIN Wakes(n) = DOMAIN Woken(n)
           /\ \A i \in DOMAIN Wakes(n) :
                 Woken(n)[i] \in Sleepers /\ Wakes(n)[i] = Task("woken", Call("pull", Woken(n)[i]))
           /\ \A i, j \in DOMAIN Wakes(n) : Wakes(n)[i].handler = Wakes(n)[j].handler => i = j
<1>1. PICK k \in Nat : /\ Woken(n) \in [1..k -> Sleepers]
                       /\ \A i, j \in 1..k : Woken(n)[i] = Woken(n)[j] => i = j
  BY WokenAre
<1>2. /\ DOMAIN Wakes(n) = 1..k /\ DOMAIN Woken(n) = 1..k
      /\ \A i \in 1..k : Woken(n)[i] \in Sleepers /\ Wakes(n)[i] = Task("woken", Call("pull", Woken(n)[i]))
  BY <1>1 DEF Wakes
<1>3. \A c \in Sleepers : Task("woken", Call("pull", c)) \in Tasks
  BY DEF Task, Call, Tasks, Handlers, Sleepers
<1>4. Wakes(n) \in [1..k -> Tasks]
  BY <1>2, <1>3 DEF Wakes
<1>5. Wakes(n) \in Seq(Tasks)
  BY <1>4
<1>6. \A i, j \in 1..k : Wakes(n)[i].handler = Wakes(n)[j].handler => Woken(n)[i] = Woken(n)[j]
  BY <1>2 DEF Task, Call
<1> QED
  BY <1>1, <1>2, <1>5, <1>6

LEMMA NotifyEffect ==
    ASSUME TypeOK, Waits(entries, activeWaiters, Sleepers), PendingMeansNobodySleeps,
           NEW n \in Nat, Notify(n)
    PROVE  /\ entries' \in Seq(Entries) /\ activeWaiters' \in Nat /\ pending' \in BOOLEAN
           /\ pc' \in [Pullers -> {"idle", "running", "served", "asleep"}]
           /\ timer' \in [Pullers -> {"deadline", "nextRun", "due"}] /\ overdue' = overdue
           /\ Waits(entries', activeWaiters', Sleepers') /\ PendingMeansNobodySleeps'
           /\ \A c \in Pullers : pc'[c] = IF \E i \in DOMAIN Woken(n) : Woken(n)[i] = c
                                          THEN "running" ELSE pc[c]
<1> DEFINE k == Smaller(n, activeWaiters)
           h == CursorAfter(k)
           W == {Woken(n)[i] : i \in DOMAIN Woken(n)}
           rest == SubSeq(entries, h + 1, Len(entries))
<1>1. entries \in Seq(Entries) /\ activeWaiters \in Nat /\ Live = LiveIn(entries)
  BY DEF TypeOK, Live, LiveIn
<1>2. /\ k \in Nat /\ k <= n /\ k <= activeWaiters /\ (k = n \/ k = activeWaiters)
      /\ h \in 0..Len(entries) /\ Cardinality(Upto(h)) = k
      /\ Woken(n) \in [1..k -> Sleepers]
      /\ W = {entries[i].puller : i \in Upto(h)}
  BY <1>1, WokenAre
<1>3. Upto(h) = {i \in LiveIn(entries) : i <= h}
  BY <1>1 DEF Upto
<1>4. /\ activeWaiters' = activeWaiters - k
      /\ entries' = Compact(rest, activeWaiters')
      /\ pending' = (pending \/ k < n)
      /\ pc' = [c \in Pullers |-> IF c \in W THEN "running" ELSE pc[c]]
      /\ timer' = [c \in Pullers |-> IF c \in W THEN "deadline" ELSE timer[c]]
      /\ overdue' = overdue
  BY DEF Notify, NotifyQueue
<1> HIDE DEF k, h, W
<1>5. rest \in Seq(Entries) /\ Waits(rest, activeWaiters - k, Sleepers \ W)
  BY <1>1, <1>2, <1>3, WaitsRest
<1>6. Sleepers' = Sleepers \ W
  BY <1>4 DEF Sleepers
<1>7. activeWaiters' \in Nat
  BY <1>1, <1>2, <1>4
<1>8. entries' \in Seq(Entries) /\ Waits(entries', activeWaiters', Sleepers')
  BY <1>4, <1>5, <1>6, WaitsCompact
<1>9. PendingMeansNobodySleeps'
  <2>1. CASE pending
    BY <1>6, <2>1 DEF PendingMeansNobodySleeps
  <2>2. CASE ~pending /\ pending'
    <3>1. activeWaiters' = 0
      <4>1. k < n
        BY <1>4, <2>2
      <4>2. k = activeWaiters
        BY <1>2, <4>1
      <4> QED
        BY <1>1, <1>4, <4>2
    <3>2. LiveIn(entries') = {}
      BY <1>8, <3>1, LiveFinite, FS_EmptySet DEF Waits
    <3> QED
      BY <1>8, <3>2 DEF Waits, PendingMeansNobodySleeps
  <2> QED
    BY <2>1, <2>2 DEF PendingMeansNobodySleeps
<1>10. pending' \in BOOLEAN
  BY <1>4 DEF TypeOK
<1>11. /\ pc' \in [Pullers -> {"idle", "running", "served", "asleep"}]
       /\ timer' \in [Pullers -> {"deadline", "nextRun", "due"}]
  BY <1>4 DEF TypeOK
<1>12. \A c \in Pullers : pc'[c] = IF \E i \in DOMAIN Woken(n) : Woken(n)[i] = c THEN "running" ELSE pc[c]
  BY <1>4 DEF W
<1> QED
  BY <1>4, <1>7, <1>8, <1>9, <1>10, <1>11, <1>12

-----------------------------------------------------------------------------
(***************************************************************************)
(* The microtask queue and the lock.                                       *)
(***************************************************************************)

\* The first d tasks go, the tasks of next come at the end.
GoesOn(d, next) ==
    /\ d \in {0, 1} /\ tasks' \in Seq(Tasks)
    /\ \A i \in DOMAIN tasks' :
          \/ i \in Nat /\ i + d \in DOMAIN tasks /\ tasks'[i] = tasks[i + d]
          \/ \E k \in DOMAIN next : i = Len(tasks) - d + k /\ tasks'[i] = next[k]
    /\ \A k \in DOMAIN tasks : k > d => \E i \in DOMAIN tasks' : tasks'[i] = tasks[k]
    /\ \A k \in DOMAIN next : \E i \in DOMAIN tasks' : tasks'[i] = next[k]

LEMMA QueueGrows ==
    ASSUME tasks \in Seq(Tasks), NEW next \in Seq(Tasks), tasks' = tasks \o next
    PROVE  GoesOn(0, next)
<1>1. /\ tasks' \in Seq(Tasks) /\ Len(tasks) \in Nat /\ Len(next) \in Nat
      /\ DOMAIN tasks' = 1..(Len(tasks) + Len(next)) /\ DOMAIN tasks = 1..Len(tasks)
      /\ DOMAIN next = 1..Len(next)
      /\ \A i \in 1..(Len(tasks) + Len(next)) :
            tasks'[i] = IF i <= Len(tasks) THEN tasks[i] ELSE next[i - Len(tasks)]
  BY ConcatProperties
<1>2. ASSUME NEW i \in DOMAIN tasks'
      PROVE  \/ i \in Nat /\ i + 0 \in DOMAIN tasks /\ tasks'[i] = tasks[i + 0]
             \/ \E k \in DOMAIN next : i = Len(tasks) - 0 + k /\ tasks'[i] = next[k]
  <2>1. CASE i <= Len(tasks)
    BY <1>1, <2>1
  <2>2. CASE ~(i <= Len(tasks))
    <3>1. i - Len(tasks) \in DOMAIN next /\ i = Len(tasks) - 0 + (i - Len(tasks))
          /\ tasks'[i] = next[i - Len(tasks)]
      BY <1>1, <2>2
    <3> QED
      BY <3>1
  <2> QED
    BY <2>1, <2>2
<1>3. ASSUME NEW k \in DOMAIN tasks
      PROVE  \E i \in DOMAIN tasks' : tasks'[i] = tasks[k]
  BY <1>1
<1>4. ASSUME NEW k \in DOMAIN next
      PROVE  \E i \in DOMAIN tasks' : tasks'[i] = next[k]
  <2>1. Len(tasks) + k \in DOMAIN tasks' /\ tasks'[Len(tasks) + k] = next[k]
    BY <1>1
  <2> QED
    BY <2>1
<1> QED
  BY <1>1, <1>2, <1>3, <1>4 DEF GoesOn

LEMMA QueueContinues ==
    ASSUME tasks \in Seq(Tasks), tasks # <<>>, NEW next \in Seq(Tasks), Continue(next)
    PROVE  GoesOn(1, next)
<1> DEFINE rest == Tail(tasks)
<1>1. /\ rest \in Seq(Tasks) /\ Len(rest) = Len(tasks) - 1 /\ Len(tasks) \in Nat /\ Len(tasks) > 0
      /\ \A i \in 1..Len(rest) : rest[i] = tasks[i + 1]
      /\ DOMAIN rest = 1..Len(rest) /\ DOMAIN tasks = 1..Len(tasks)
  BY HeadTailProperties
<1>2. tasks' = rest \o next
  BY DEF Continue
<1> HIDE DEF rest
<1>3. /\ tasks' \in Seq(Tasks) /\ Len(next) \in Nat /\ Len(rest) \in Nat
      /\ DOMAIN tasks' = 1..(Len(rest) + Len(next)) /\ DOMAIN next = 1..Len(next)
      /\ \A i \in 1..(Len(rest) + Len(next)) :
            tasks'[i] = IF i <= Len(rest) THEN rest[i] ELSE next[i - Len(rest)]
  BY <1>1, <1>2, ConcatProperties
<1>4. ASSUME NEW i \in DOMAIN tasks'
      PROVE  \/ i \in Nat /\ i + 1 \in DOMAIN tasks /\ tasks'[i] = tasks[i + 1]
             \/ \E k \in DOMAIN next : i = Len(tasks) - 1 + k /\ tasks'[i] = next[k]
  <2>1. CASE i <= Len(rest)
    <3>1. i \in Nat /\ i \in 1..Len(rest) /\ i + 1 \in 1..Len(tasks)
      BY <1>1, <1>3, <2>1
    <3>2. tasks'[i] = rest[i] /\ rest[i] = tasks[i + 1]
      BY <1>1, <1>3, <2>1, <3>1
    <3> QED
      BY <1>1, <3>1, <3>2
  <2>2. CASE ~(i <= Len(rest))
    <3>1. i - Len(rest) \in DOMAIN next /\ i = Len(tasks) - 1 + (i - Len(rest))
          /\ tasks'[i] = next[i - Len(rest)]
      BY <1>1, <1>3, <2>2
    <3> QED
      BY <3>1
  <2> QED
    BY <2>1, <2>2
<1>5. ASSUME NEW k \in DOMAIN tasks, k > 1
      PROVE  \E i \in DOMAIN tasks' : tasks'[i] = tasks[k]
  <2>1. k - 1 \in 1..Len(rest) /\ (k - 1) + 1 = k
    BY <1>1, <1>5
  <2>2. k - 1 \in DOMAIN tasks' /\ tasks'[k - 1] = rest[k - 1] /\ rest[k - 1] = tasks[(k - 1) + 1]
    BY <1>1, <1>3, <2>1
  <2> QED
    BY <2>1, <2>2
<1>6. ASSUME NEW k \in DOMAIN next
      PROVE  \E i \in DOMAIN tasks' : tasks'[i] = next[k]
  <2>1. Len(rest) + k \in DOMAIN tasks' /\ tasks'[Len(rest) + k] = next[k]
    BY <1>3
  <2> QED
    BY <2>1
<1> QED
  BY <1>3, <1>4, <1>5, <1>6 DEF GoesOn

SoleHolder(q, h) == \A i \in Holders(q) : q[i].handler = h /\ \A k \in Holders(q) : i = k

LEMMA HolderAfter ==
    ASSUME TypeOK, OneHolder, NEW d, NEW next, GoesOn(d, next), SoleHolder(next, lock'[1]),
           Holders(next) = {} \/ (lock' # <<>> /\ \A k \in Holders(tasks) : k <= d),
           \A k \in Holders(tasks) : k > d => lock' # <<>> /\ lock'[1] = lock[1]
    PROVE  OneHolder'
<1>1. \A k \in DOMAIN tasks : k \in Nat
  BY DEF TypeOK
<1>2. ASSUME NEW i \in Holders(tasks)'
      PROVE  \/ i \in Nat /\ i + d \in Holders(tasks) /\ tasks'[i] = tasks[i + d] /\ i + d > d
             \/ \E k \in Holders(next) : i = Len(tasks) - d + k /\ tasks'[i] = next[k]
  <2>1. i \in DOMAIN tasks' /\ tasks'[i].step \in Holding /\ i > 0 /\ d \in {0, 1}
    BY DEF Holders, GoesOn
  <2> QED
    BY <2>1 DEF GoesOn, Holders
<1>3. ASSUME NEW i \in Holders(tasks)'
      PROVE  /\ lock' # <<>> /\ tasks'[i].handler = lock'[1]
             /\ \A k \in Holders(tasks)' : i = k
  <2>1. CASE i \in Nat /\ i + d \in Holders(tasks) /\ tasks'[i] = tasks[i + d] /\ i + d > d
    <3>1. Holders(next) = {} /\ d \in {0, 1}
      <4>1. d \in {0, 1} /\ ~(i + d <= d)
        BY <2>1 DEF GoesOn
      <4> QED
        BY <2>1, <4>1
    <3>2. ASSUME NEW k \in Holders(tasks)'
          PROVE  i = k
      <4>1. k \in Nat /\ k + d \in Holders(tasks)
        BY <1>2, <3>1
      <4>2. i + d = k + d
        BY <2>1, <4>1 DEF OneHolder
      <4> QED
        BY <2>1, <3>1, <4>1, <4>2
    <3> QED
      BY <2>1, <3>2 DEF OneHolder
  <2>2. CASE \E k \in Holders(next) : i = Len(tasks) - d + k /\ tasks'[i] = next[k]
    <3>1. PICK k \in Holders(next) : i = Len(tasks) - d + k /\ tasks'[i] = next[k]
      BY <2>2
    <3>2. ASSUME NEW j \in Holders(tasks)'
          PROVE  i = j
      <4>1. ~(j + d \in Holders(tasks) /\ j + d > d)
        <5>1. \A m \in Holders(tasks) : m <= d /\ m \in Nat
          BY <1>1, <3>1 DEF Holders
        <5>2. d \in {0, 1}
          BY DEF GoesOn
        <5> QED
          BY <5>1, <5>2
      <4> QED
        BY <1>2, <3>1, <4>1 DEF SoleHolder
    <3> QED
      BY <3>1, <3>2 DEF SoleHolder
  <2> QED
    BY <1>2, <2>1, <2>2
<1> QED
  BY <1>3 DEF OneHolder

\* A puller's places after a step that leaves others of its tasks alone.
NoneOf(q, c) == \A i \in DOMAIN q : q[i].handler # Call("pull", c)
OneOf(q, c) ==
    \A i, k \in DOMAIN q :
        q[i].handler = Call("pull", c) /\ q[k].handler = Call("pull", c) => i = k

LEMMA PlaceAfter ==
    ASSUME TypeOK, NEW c \in Pullers, PlaceOf(c), NEW d, NEW next, GoesOn(d, next), OneOf(next, c),
           \A i, k \in DOMAIN lock' : InLineOf(i, c)' /\ InLineOf(k, c)' => i = k,
           NoneOf(next, c) \/
              /\ Awake(c)'
              /\ \A k \in DOMAIN tasks : TaskOf(k, c) => k <= d
              /\ \A k \in DOMAIN lock' : ~InLineOf(k, c)',
           \A i \in DOMAIN lock' : InLineOf(i, c)' =>
              /\ Awake(c)'
              /\ \A k \in DOMAIN tasks : TaskOf(k, c) => k <= d,
           \A k \in DOMAIN tasks : TaskOf(k, c) /\ k > d => Awake(c)'
    PROVE  PlaceOf(c)'
<1>1. (\A k \in DOMAIN tasks : k \in Nat) /\ d \in {0, 1} /\ \A k \in DOMAIN tasks' : k \in Nat /\ k > 0
  BY DEF TypeOK, GoesOn
<1>2. ASSUME NEW i \in DOMAIN tasks', TaskOf(i, c)'
      PROVE  \/ i + d \in DOMAIN tasks /\ TaskOf(i + d, c) /\ i + d > d
             \/ \E k \in DOMAIN next : i = Len(tasks) - d + k /\ next[k].handler = Call("pull", c)
  BY <1>1, <1>2 DEF GoesOn, TaskOf
<1>3. ASSUME NEW i \in DOMAIN tasks', TaskOf(i, c)'
      PROVE  /\ Awake(c)'
             /\ \A k \in DOMAIN tasks' : TaskOf(k, c)' => i = k
             /\ \A k \in DOMAIN lock' : ~InLineOf(k, c)'
  <2>1. CASE i + d \in DOMAIN tasks /\ TaskOf(i + d, c) /\ i + d > d
    <3>1. \A k \in DOMAIN next : next[k].handler # Call("pull", c)
      <4>1. ~(i + d <= d)
        BY <1>1
      <4> QED
        BY <2>1, <4>1 DEF NoneOf
    <3>2. ASSUME NEW k \in DOMAIN tasks', TaskOf(k, c)'
          PROVE  i = k
      <4>1. k + d \in DOMAIN tasks /\ TaskOf(k + d, c)
        BY <1>2, <3>1, <3>2
      <4>2. i + d = k + d
        BY <2>1, <4>1 DEF PlaceOf
      <4> QED
        BY <1>1, <4>2
    <3>3. \A k \in DOMAIN lock' : ~InLineOf(k, c)'
      BY <1>1, <2>1
    <3> QED
      BY <2>1, <3>2, <3>3
  <2>2. CASE \E k \in DOMAIN next : i = Len(tasks) - d + k /\ next[k].handler = Call("pull", c)
    <3>1. PICK k \in DOMAIN next : i = Len(tasks) - d + k /\ next[k].handler = Call("pull", c)
      BY <2>2
    <3>2. ASSUME NEW j \in DOMAIN tasks', TaskOf(j, c)'
          PROVE  i = j
      <4>1. ~(j + d \in DOMAIN tasks /\ TaskOf(j + d, c) /\ j + d > d)
        <5>1. \A m \in DOMAIN tasks : TaskOf(m, c) => m <= d /\ m \in Nat
          BY <1>1, <3>1 DEF NoneOf
        <5> QED
          BY <1>1, <5>1
      <4>2. PICK m \in DOMAIN next : j = Len(tasks) - d + m /\ next[m].handler = Call("pull", c)
        BY <1>2, <3>2, <4>1
      <4> QED
        BY <3>1, <4>2 DEF OneOf
    <3> QED
      BY <3>1, <3>2 DEF NoneOf
  <2> QED
    BY <1>2, <1>3, <2>1, <2>2
<1>4. \A i \in DOMAIN lock' : InLineOf(i, c)' =>
         Awake(c)' /\ \A k \in DOMAIN lock' : InLineOf(k, c)' => i = k
  OBVIOUS
<1> QED
  BY <1>3, <1>4, Zenon DEF PlaceOf

\* The line before the lock moves up by e.
LineMoves(e, c) ==
    /\ e \in {0, 1} /\ lock' \in Seq(Handlers)
    /\ \A i \in DOMAIN lock' : InLineOf(i, c)' => InLineOf(i + e, c)

LEMMA PlaceKept ==
    ASSUME TypeOK, NEW c \in Pullers, PlaceOf(c), NEW d, NEW next, GoesOn(d, next), NEW e, LineMoves(e, c),
           NoneOf(next, c), pc'[c] = pc[c] \/ Awake(c)'
    PROVE  PlaceOf(c)'
<1>1. \A i, k \in DOMAIN lock' : InLineOf(i, c)' /\ InLineOf(k, c)' => i = k
  <2> SUFFICES ASSUME NEW i \in DOMAIN lock', NEW k \in DOMAIN lock', InLineOf(i, c)', InLineOf(k, c)'
               PROVE  i = k
    OBVIOUS
  <2>1. InLineOf(i + e, c) /\ InLineOf(k + e, c) /\ e \in {0, 1}
    BY DEF LineMoves
  <2>2. i + e = k + e
    BY <2>1 DEF PlaceOf, InLineOf
  <2>3. i \in Nat /\ k \in Nat
    BY DEF LineMoves
  <2> QED
    BY <2>1, <2>2, <2>3
<1>2. \A i \in DOMAIN lock' : InLineOf(i, c)' =>
         Awake(c)' /\ \A k \in DOMAIN tasks : TaskOf(k, c) => k <= d
  BY DEF PlaceOf, LineMoves, InLineOf, Awake
<1>3. \A k \in DOMAIN tasks : TaskOf(k, c) => Awake(c)'
  BY DEF PlaceOf, Awake
<1>4. OneOf(next, c)
  BY DEF NoneOf, OneOf
<1> QED
  BY <1>1, <1>2, <1>3, <1>4, PlaceAfter

LEMMA PlaceMoved ==
    ASSUME TypeOK, NEW c \in Pullers, NEW d, NEW next, GoesOn(d, next), NEW e, LineMoves(e, c),
           \A k \in DOMAIN tasks : TaskOf(k, c) => k <= d,
           \A k \in DOMAIN lock : ~InLineOf(k, c),
           PlaceOf(c), OneOf(next, c), NoneOf(next, c) \/ Awake(c)'
    PROVE  PlaceOf(c)'
<1>1. \A k \in DOMAIN lock' : ~InLineOf(k, c)'
  BY DEF LineMoves, InLineOf
<1>2. \A k \in DOMAIN tasks : TaskOf(k, c) /\ k > d => Awake(c)'
  <2>1. d \in {0, 1} /\ \A k \in DOMAIN tasks : k \in Nat
    BY DEF GoesOn, TypeOK
  <2> QED
    BY <2>1
<1> QED
  BY <1>1, <1>2, PlaceAfter

LEMMA LockPassed ==
    ASSUME lock \in Seq(Handlers), lock # <<>>, Release
    PROVE  /\ lock' \in Seq(Handlers) /\ DOMAIN lock' = 1..(Len(lock) - 1)
           /\ \A i \in DOMAIN lock' : lock'[i] = lock[i + 1]
BY HeadTailProperties DEF Release

LEMMA LineFacts ==
    ASSUME TypeOK, NEW c \in Pullers
    PROVE  /\ lock' = lock => LineMoves(0, c)
           /\ lock # <<>> /\ Release => LineMoves(1, c)
           /\ \A h \in Handlers : Acquire(h) /\ (lock = <<>> \/ h # Call("pull", c)) => LineMoves(0, c)
<1>1. lock \in Seq(Handlers) /\ Len(lock) \in Nat /\ DOMAIN lock = 1..Len(lock)
  BY DEF TypeOK
<1>2. ASSUME lock' = lock
      PROVE  LineMoves(0, c)
  BY <1>1, <1>2 DEF LineMoves, InLineOf
<1>3. ASSUME lock # <<>>, Release
      PROVE  LineMoves(1, c)
  <2>1. /\ lock' \in Seq(Handlers) /\ DOMAIN lock' = 1..(Len(lock) - 1)
        /\ \A i \in DOMAIN lock' : lock'[i] = lock[i + 1]
    BY <1>1, <1>3, LockPassed
  <2> QED
    BY <1>1, <2>1 DEF LineMoves, InLineOf
<1>4. ASSUME NEW h \in Handlers, Acquire(h), lock = <<>> \/ h # Call("pull", c)
      PROVE  LineMoves(0, c)
  <2>1. /\ lock' \in Seq(Handlers) /\ DOMAIN lock' = 1..(Len(lock) + 1)
        /\ \A i \in 1..Len(lock) : lock'[i] = lock[i]
        /\ lock'[Len(lock) + 1] = h
    BY <1>1, <1>4, AppendProperties DEF Acquire
  <2>2. lock = <<>> => Len(lock) = 0
    OBVIOUS
  <2> QED
    BY <1>1, <1>4, <2>1, <2>2 DEF LineMoves, InLineOf
<1> QED
  BY <1>2, <1>3, <1>4

-----------------------------------------------------------------------------
(***************************************************************************)
(* Slots that are to be given back.                                        *)
(***************************************************************************)

LEMMA DueFinite ==
    ASSUME lock \in Seq(Handlers)
    PROVE  /\ IsFiniteSet(Due) /\ Cardinality(Due) \in Nat
           /\ IsFiniteSet(InLine(Releases)) /\ Cardinality(InLine(Releases)) \in Nat
           /\ \A S \in SUBSET Due : IsFiniteSet(S) /\ Cardinality(S) <= Cardinality(Due)
           /\ Cardinality(Due) <= Cardinality(InLine(Releases))
<1>1. InLine(Releases) \in SUBSET (1..Len(lock)) /\ IsFiniteSet(1..Len(lock))
  BY FS_Interval DEF InLine
<1>2. IsFiniteSet(InLine(Releases))
  BY <1>1, FS_Subset
<1>3. Due \in SUBSET InLine(Releases)
  BY DEF Due
<1>4. IsFiniteSet(Due) /\ Cardinality(Due) <= Cardinality(InLine(Releases))
  BY <1>2, <1>3, FS_Subset
<1> QED
  BY <1>2, <1>4, FS_Subset, FS_CardinalityType

LEMMA DueKept ==
    ASSUME TypeOK, SlotsInUse, lock' \in Seq(Handlers), Due' \in SUBSET Due,
           active' \in Nat, active <= active', active' <= Limit
    PROVE  SlotsInUse'
<1>1. Cardinality(Due') <= Cardinality(Due) /\ Cardinality(Due') \in Nat /\ Cardinality(Due) \in Nat
  BY DueFinite, FS_CardinalityType DEF TypeOK
<1> QED
  BY <1>1, CountAssumption DEF SlotsInUse, TypeOK

LEMMA DuePaid ==
    ASSUME TypeOK, SlotsInUse, Due' \in SUBSET Due, 1 \in Due, 1 \notin Due', active' = active - 1
    PROVE  active' \in Nat /\ SlotsInUse'
<1>1. IsFiniteSet(Due) /\ IsFiniteSet(Due \ {1}) /\ Cardinality(Due \ {1}) = Cardinality(Due) - 1
      /\ Cardinality(Due) \in Nat
  BY DueFinite, FS_RemoveElement DEF TypeOK
<1>2. Due' \in SUBSET (Due \ {1})
  OBVIOUS
<1>3. Cardinality(Due') <= Cardinality(Due \ {1}) /\ Cardinality(Due') \in Nat
  BY <1>1, <1>2, FS_Subset, FS_CardinalityType
<1> QED
  BY <1>1, <1>3, CountAssumption DEF SlotsInUse, TypeOK

\* The line moves up behind a handler that has no slot to give back.
LEMMA DueMovesUp ==
    ASSUME TypeOK, SlotsInUse, lock # <<>>, Release, 1 \notin Due, active' = active
    PROVE  SlotsInUse'
<1>1. /\ Len(lock) \in Nat /\ DOMAIN lock = 1..Len(lock)
      /\ lock' \in Seq(Handlers) /\ DOMAIN lock' = 1..(Len(lock) - 1)
      /\ \A i \in DOMAIN lock' : lock'[i] = lock[i + 1]
  BY LockPassed DEF TypeOK
<1>2. \A i \in Due' : i \in Nat /\ i + 1 \in Due
  BY <1>1 DEF Due, InLine
<1> DEFINE f == [i \in Due' |-> i + 1]
<1>3. f \in [Due' -> Due] /\ \A i, k \in Due' : f[i] = f[k] => i = k
  BY <1>2
<1> HIDE DEF f
<1>4. f \in Injection(Due', Due)
  BY <1>3, Zenon DEF Injection, IsInjective
<1>5. Cardinality(Due') <= Cardinality(Due) /\ IsFiniteSet(Due')
  BY <1>4, DueFinite, FS_Injection DEF TypeOK
<1>6. Cardinality(Due') \in Nat /\ Cardinality(Due) \in Nat
  BY <1>5, DueFinite, FS_CardinalityType DEF TypeOK
<1> QED
  BY <1>5, <1>6 DEF SlotsInUse, TypeOK

-----------------------------------------------------------------------------
(***************************************************************************)
(* Microtasks, by what they leave behind.                                  *)
(***************************************************************************)

LEMMA RunsFacts ==
    ASSUME TypeOK, OneHolder, OnePlaceEach, NEW step, NEW ops, Runs(step, ops)
    PROVE  /\ tasks # <<>> /\ 1 \in DOMAIN tasks /\ tasks[1].handler = Now /\ tasks[1].step = step
           /\ Now \in Handlers /\ Now.op \in ops
           /\ step \in Holding => /\ lock # <<>> /\ Now = lock[1]
                                  /\ \A k \in Holders(tasks) : k = 1
           /\ step \notin Holding => \A k \in Holders(tasks) : k > 1
           /\ \A c \in Pullers : Now = Call("pull", c) =>
                 /\ Awake(c)
                 /\ \A k \in DOMAIN tasks : TaskOf(k, c) => k = 1
                 /\ \A k \in DOMAIN lock : ~InLineOf(k, c)
           /\ Now.op = "pull" => Now.arg \in Pullers /\ Now = Call("pull", Now.arg)
<1>1. /\ tasks # <<>> /\ 1 \in DOMAIN tasks /\ Head(tasks) = tasks[1] /\ tasks[1] \in Tasks
      /\ DOMAIN tasks = 1..Len(tasks) /\ Len(tasks) \in Nat
  BY DEF TypeOK, Runs
<1>2. tasks[1].handler = Now /\ tasks[1].step = step /\ Now \in Handlers /\ Now.op \in ops
  <2>1. Now = tasks[1].handler /\ tasks[1].step = step /\ Now.op \in ops
    BY <1>1 DEF Runs, Now
  <2>2. \A t \in Tasks : t.handler \in Handlers
    <3> HIDE DEF Handlers
    <3> QED
      BY DEF Tasks
  <2> QED
    BY <1>1, <2>1, <2>2
<1>3. ASSUME step \in Holding
      PROVE  lock # <<>> /\ Now = lock[1] /\ \A k \in Holders(tasks) : k = 1
  <2>1. 1 \in Holders(tasks)
    BY <1>1, <1>2, <1>3 DEF Holders
  <2> QED
    BY <1>2, <2>1 DEF OneHolder
<1>4. ASSUME step \notin Holding, NEW k \in Holders(tasks)
      PROVE  k > 1
  BY <1>1, <1>2, <1>4 DEF Holders
<1>5. ASSUME NEW c \in Pullers, Now = Call("pull", c)
      PROVE  /\ Awake(c)
             /\ \A k \in DOMAIN tasks : TaskOf(k, c) => k = 1
             /\ \A k \in DOMAIN lock : ~InLineOf(k, c)
  <2>1. TaskOf(1, c) /\ PlaceOf(c)
    BY <1>1, <1>2, <1>5 DEF TaskOf, OnePlaceEach
  <2> QED
    BY <1>1, <2>1 DEF PlaceOf
<1>6. Now.op = "pull" => Now.arg \in Pullers /\ Now = Call("pull", Now.arg)
  BY <1>2 DEF Handlers, Call, Pushes, Releases, Silent
<1> QED
  BY <1>1, <1>2, <1>3, <1>4, <1>5, <1>6

\* What a microtask may leave behind.
OwnTask(t, step) ==
    t.handler = Now /\ (t.step \in Holding => step \in Holding /\ lock' = lock)
WokenTask(t) ==
    t.step \notin Holding /\ \E c \in Sleepers : t.handler = Call("pull", c) /\ Awake(c)'
HandedTask(t, step) ==
    step \in Holding /\ Release /\ Len(lock) > 1 /\ t = Task("section", lock[2])

\* They concern one handler each, and one at most has the lock.
Leaves(next, step) ==
    /\ next \in Seq(Tasks)
    /\ \A i \in DOMAIN next :
          OwnTask(next[i], step) \/ WokenTask(next[i]) \/ HandedTask(next[i], step)
    /\ SoleHolder(next, lock'[1])
    /\ \A c \in Pullers : OneOf(next, c)

LEMMA WokenPuller ==
    ASSUME NEW t, WokenTask(t), NEW c \in Pullers, t.handler = Call("pull", c)
    PROVE  c \in Sleepers /\ Awake(c)'
BY DEF WokenTask, Call

LEMMA MovesOn ==
    ASSUME TypeOK, OneHolder, OnePlaceEach, NEW step, NEW ops, Runs(step, ops),
           NEW next, Leaves(next, step), Continue(next),
           lock' = lock \/ (step \in Holding /\ Release),
           \A c \in Pullers : \/ pc'[c] = pc[c] \/ Awake(c)'
                              \/ Now = Call("pull", c) /\ NoneOf(next, c)
    PROVE  /\ tasks' \in Seq(Tasks) /\ lock' \in Seq(Handlers) /\ OneHolder' /\ OnePlaceEach'
           /\ GoesOn(1, next)
<1>1. /\ next \in Seq(Tasks)
      /\ \A i \in DOMAIN next :
            OwnTask(next[i], step) \/ WokenTask(next[i]) \/ HandedTask(next[i], step)
      /\ SoleHolder(next, lock'[1])
      /\ \A c \in Pullers : OneOf(next, c)
  BY DEF Leaves
<1>2. GoesOn(1, next)
  BY <1>1, QueueContinues, RunsFacts DEF TypeOK
<1>3. /\ step \in Holding => /\ lock # <<>> /\ Now = lock[1]
                             /\ \A k \in Holders(tasks) : k = 1
      /\ step \notin Holding => \A k \in Holders(tasks) : k > 1
  BY RunsFacts
<1>4. /\ lock \in Seq(Handlers) /\ Len(lock) \in Nat /\ DOMAIN lock = 1..Len(lock)
      /\ (lock # <<>> => Len(lock) > 0)
  BY DEF TypeOK
<1>5. ASSUME lock # <<>>, Release
      PROVE  /\ lock' \in Seq(Handlers)
             /\ Len(lock) > 1 => lock' # <<>> /\ lock'[1] = lock[2]
  <2>1. /\ lock' \in Seq(Handlers) /\ DOMAIN lock' = 1..(Len(lock) - 1)
        /\ \A i \in DOMAIN lock' : lock'[i] = lock[i + 1]
    BY <1>4, <1>5, LockPassed
  <2>2. ASSUME Len(lock) > 1
        PROVE  lock' # <<>> /\ lock'[1] = lock[2]
    <3>1. 1 \in DOMAIN lock' /\ 1 + 1 = 2
      BY <1>4, <2>1, <2>2
    <3> QED
      BY <2>1, <3>1
  <2> QED
    BY <2>1, <2>2
<1>6. OneHolder'
  <2>1. ASSUME NEW k \in Holders(tasks), k > 1
        PROVE  lock' # <<>> /\ lock'[1] = lock[1]
    <3>1. step \notin Holding /\ lock' = lock
      BY <1>3, <2>1
    <3> QED
      BY <3>1 DEF OneHolder
  <2>2. ASSUME NEW i \in Holders(next)
        PROVE  lock' # <<>> /\ \A k \in Holders(tasks) : k <= 1
    <3>1. i \in DOMAIN next /\ next[i].step \in Holding
      BY DEF Holders
    <3>2. step \in Holding /\ (lock' = lock \/ HandedTask(next[i], step))
      BY <1>1, <3>1 DEF OwnTask, WokenTask, HandedTask
    <3> QED
      BY <1>3, <1>5, <3>2 DEF HandedTask
  <2> QED
    BY <1>1, <1>2, <2>1, <2>2, HolderAfter
<1>7. ASSUME NEW c \in Pullers
      PROVE  PlaceOf(c)'
  <2>1. PlaceOf(c)
    BY DEF OnePlaceEach
  <2>2. PICK e \in {0, 1} : LineMoves(e, c)
    BY <1>3, LineFacts
  <2>3. CASE NoneOf(next, c) /\ Now # Call("pull", c)
    BY <1>2, <2>1, <2>2, <2>3, PlaceKept
  <2>4. CASE Now = Call("pull", c)
    <3>1. /\ Awake(c) /\ \A k \in DOMAIN tasks : TaskOf(k, c) => k <= 1
          /\ \A k \in DOMAIN lock : ~InLineOf(k, c)
      BY <2>4, RunsFacts
    <3>2. NoneOf(next, c) \/ Awake(c)'
      BY <3>1 DEF Awake
    <3> QED
      BY <1>1, <1>2, <2>1, <2>2, <3>1, <3>2, PlaceMoved
  <2>5. CASE ~NoneOf(next, c) /\ Now # Call("pull", c)
    <3>1. PICK i \in DOMAIN next : next[i].handler = Call("pull", c)
      BY <2>5 DEF NoneOf
    <3>2. WokenTask(next[i]) \/ HandedTask(next[i], step)
      BY <1>1, <2>5, <3>1 DEF OwnTask
    <3>3. CASE WokenTask(next[i])
      <4>1. c \in Sleepers /\ Awake(c)'
        BY <3>1, <3>3 DEF WokenTask, Call
      <4>2. ~Awake(c)
        BY <4>1 DEF Sleepers, Awake
      <4>3. /\ \A k \in DOMAIN tasks : ~TaskOf(k, c)
            /\ \A k \in DOMAIN lock : ~InLineOf(k, c)
        BY <2>1, <4>2 DEF PlaceOf
      <4> QED
        BY <1>1, <1>2, <2>1, <2>2, <4>1, <4>3, PlaceMoved
    <3>4. CASE HandedTask(next[i], step)
      <4>1. InLineOf(2, c) /\ lock # <<>> /\ Release
        BY <1>3, <1>4, <3>1, <3>4 DEF HandedTask, InLineOf, Task
      <4>2. Awake(c) /\ (\A k \in DOMAIN tasks : ~TaskOf(k, c)) /\ \A k \in DOMAIN lock : InLineOf(k, c) => k = 2
        BY <2>1, <4>1 DEF PlaceOf, InLineOf
      <4>3. LineMoves(1, c)
        BY <4>1, LineFacts
      <4>4. ASSUME NEW k \in DOMAIN lock'
            PROVE  ~InLineOf(k, c)'
        <5>1. InLineOf(k, c)' => InLineOf(k + 1, c) /\ k \in Nat /\ k > 1
          BY <4>3 DEF LineMoves, InLineOf
        <5>2. InLineOf(k + 1, c) => k + 1 = 2
          BY <4>2 DEF InLineOf
        <5> QED
          BY <5>1, <5>2
      <4>5. Awake(c)'
        BY <2>5, <4>2 DEF Awake
      <4> QED
        BY <1>1, <1>2, <2>1, <4>2, <4>4, <4>5, PlaceAfter
    <3> QED
      BY <3>2, <3>3, <3>4
  <2> QED
    BY <2>3, <2>4, <2>5
<1>8. tasks' \in Seq(Tasks) /\ lock' \in Seq(Handlers)
  BY <1>2, <1>3, <1>5 DEF GoesOn, TypeOK
<1> QED
  BY <1>2, <1>6, <1>7, <1>8 DEF OnePlaceEach

LEMMA LeavesNothing ==
    ASSUME NEW step
    PROVE  Leaves(<<>>, step)
BY DEF Leaves, SoleHolder, Holders, OneOf

LEMMA LeavesOwn ==
    ASSUME NEW step, NEW t \in Tasks, OwnTask(t, step), t.step \in Holding => Now = lock'[1]
    PROVE  Leaves(<<t>>, step)
<1>1. <<t>> \in Seq(Tasks) /\ DOMAIN <<t>> = {1} /\ <<t>>[1] = t
  OBVIOUS
<1>2. SoleHolder(<<t>>, lock'[1])
  BY <1>1 DEF SoleHolder, Holders, OwnTask
<1> QED
  BY <1>1, <1>2 DEF Leaves, OneOf

LEMMA LeavesWakes ==
    ASSUME TypeOK, Waits(entries, activeWaiters, Sleepers), PendingMeansNobodySleeps,
           NEW n \in Nat, Notify(n), NEW step
    PROVE  Leaves(Wakes(n), step) /\ \A i \in DOMAIN Wakes(n) : WokenTask(Wakes(n)[i])
<1>1. /\ Wakes(n) \in Seq(Tasks)
      /\ DOMAIN Wakes(n) = DOMAIN Woken(n)
      /\ \A i \in DOMAIN Wakes(n) :
            Woken(n)[i] \in Sleepers /\ Wakes(n)[i] = Task("woken", Call("pull", Woken(n)[i]))
      /\ \A i, j \in DOMAIN Wakes(n) : Wakes(n)[i].handler = Wakes(n)[j].handler => i = j
  BY WakesAre DEF TypeOK
<1>2. \A c \in Pullers : (\E i \in DOMAIN Woken(n) : Woken(n)[i] = c) => pc'[c] = "running"
  BY NotifyEffect
<1>3. ASSUME NEW i \in DOMAIN Wakes(n)
      PROVE  WokenTask(Wakes(n)[i]) /\ Wakes(n)[i].step \notin Holding
  <2>1. PICK c \in Sleepers : c = Woken(n)[i]
    BY <1>1
  <2>2. Awake(c)'
    BY <1>1, <1>2, <2>1 DEF Sleepers, Awake
  <2>3. Wakes(n)[i].step = "woken" /\ Wakes(n)[i].handler = Call("pull", c)
    BY <1>1, <2>1 DEF Task
  <2> QED
    BY <2>2, <2>3 DEF WokenTask, Holding
<1>4. SoleHolder(Wakes(n), lock'[1])
  BY <1>3 DEF SoleHolder, Holders
<1>5. \A c \in Pullers : OneOf(Wakes(n), c)
  BY <1>1 DEF OneOf
<1> QED
  BY <1>1, <1>3, <1>4, <1>5 DEF Leaves

LEMMA LeavesHandover ==
    ASSUME TypeOK, NEW step \in Holding, lock # <<>>, Release
    PROVE  /\ Leaves(Handover, step) /\ \A i \in DOMAIN Handover : HandedTask(Handover[i], step)
           /\ \A c \in Pullers : (\A k \in DOMAIN lock : ~InLineOf(k, c)) => NoneOf(Handover, c)
<1>1. lock \in Seq(Handlers) /\ Len(lock) \in Nat /\ DOMAIN lock = 1..Len(lock)
  BY DEF TypeOK
<1>2. CASE Len(lock) > 1
  <2> DEFINE t == Task("section", lock[2])
  <2>1. 2 \in DOMAIN lock /\ lock[2] \in Handlers /\ Handover = <<t>>
    BY <1>1, <1>2 DEF Handover
  <2>2. t \in Tasks /\ t.step = "section" /\ t.handler = lock[2]
    BY <2>1 DEF Task, Tasks
  <2>3. <<t>> \in Seq(Tasks) /\ DOMAIN <<t>> = {1} /\ <<t>>[1] = t
    BY <2>2
  <2>4. HandedTask(t, step)
    BY <1>2 DEF HandedTask
  <2>5. lock'[1] = lock[2]
    <3>1. 1 \in 1..(Len(lock) - 1) /\ 1 + 1 = 2
      BY <1>1, <1>2
    <3> QED
      BY <1>1, <3>1, LockPassed
  <2>6. \A c \in Pullers : (\A k \in DOMAIN lock : ~InLineOf(k, c)) => lock[2] # Call("pull", c)
    BY <2>1 DEF InLineOf
  <2> HIDE DEF t
  <2> QED
    BY <2>1, <2>2, <2>3, <2>4, <2>5, <2>6 DEF Leaves, SoleHolder, Holders, OneOf, NoneOf
<1>3. CASE ~(Len(lock) > 1)
  <2>1. Handover = <<>>
    BY <1>3 DEF Handover
  <2> QED
    BY <2>1, LeavesNothing DEF NoneOf
<1> QED
  BY <1>2, <1>3

LEMMA LeavesBoth ==
    ASSUME NEW step, NEW A, NEW B, Leaves(A, step), Leaves(B, step),
           Holders(A) = {} \/ Holders(B) = {},
           \A c \in Pullers : NoneOf(A, c) \/ NoneOf(B, c)
    PROVE  Leaves(A \o B, step)
<1> DEFINE r == A \o B
<1>1. /\ A \in Seq(Tasks) /\ B \in Seq(Tasks) /\ Len(A) \in Nat /\ Len(B) \in Nat
      /\ DOMAIN A = 1..Len(A) /\ DOMAIN B = 1..Len(B)
  BY DEF Leaves
<1>2. /\ r \in Seq(Tasks) /\ DOMAIN r = 1..(Len(A) + Len(B))
      /\ \A i \in DOMAIN r : r[i] = IF i <= Len(A) THEN A[i] ELSE B[i - Len(A)]
  BY <1>1, ConcatProperties
<1> HIDE DEF r
<1>3. \A i \in DOMAIN r : \/ i <= Len(A) /\ i \in DOMAIN A /\ r[i] = A[i]
                          \/ i > Len(A) /\ i - Len(A) \in DOMAIN B /\ r[i] = B[i - Len(A)]
  BY <1>1, <1>2
<1>4. \A i, k \in DOMAIN r : i - Len(A) = k - Len(A) => i = k
  BY <1>1, <1>2
<1>5. \A i \in DOMAIN r : OwnTask(r[i], step) \/ WokenTask(r[i]) \/ HandedTask(r[i], step)
  BY <1>3 DEF Leaves
<1>6. ASSUME NEW i \in Holders(r)
      PROVE  r[i].handler = lock'[1] /\ \A k \in Holders(r) : i = k
  <2>1. \A k \in Holders(r) : \/ k \in Holders(A) /\ r[k] = A[k]
                              \/ k - Len(A) \in Holders(B) /\ r[k] = B[k - Len(A)]
    BY <1>3 DEF Holders
  <2> QED
    BY <1>4, <2>1 DEF Leaves, SoleHolder, Holders
<1>7. ASSUME NEW c \in Pullers, NEW i \in DOMAIN r, NEW k \in DOMAIN r,
             r[i].handler = Call("pull", c), r[k].handler = Call("pull", c)
      PROVE  i = k
  <2>1. OneOf(A, c) /\ OneOf(B, c)
    BY DEF Leaves
  <2>2. CASE NoneOf(A, c)
    BY <1>3, <1>4, <1>7, <2>1, <2>2 DEF NoneOf, OneOf
  <2>3. CASE NoneOf(B, c)
    BY <1>3, <1>7, <2>1, <2>3 DEF NoneOf, OneOf
  <2> QED
    BY <2>2, <2>3
<1>8. SoleHolder(r, lock'[1])
  BY <1>6 DEF SoleHolder
<1>9. \A c \in Pullers : OneOf(r, c)
  BY <1>7 DEF OneOf
<1> QED
  BY <1>2, <1>5, <1>8, <1>9 DEF Leaves, r

-----------------------------------------------------------------------------
(***************************************************************************)
(* Handlers that ask for the lock, and steps beside the microtasks.        *)
(***************************************************************************)

LEMMA AcquireKeeps ==
    ASSUME TypeOK, OneHolder, OnePlaceEach, NEW h \in Handlers, Acquire(h),
           NEW d, GoesOn(d, Granted(h)), \A k \in Holders(tasks) : k > d,
           \A c \in Pullers : h = Call("pull", c) =>
              /\ Awake(c)'
              /\ \A k \in DOMAIN tasks : TaskOf(k, c) => k <= d
              /\ \A k \in DOMAIN lock : ~InLineOf(k, c),
           \A c \in Pullers : pc'[c] = pc[c] \/ Awake(c)'
    PROVE  lock' \in Seq(Handlers) /\ OneHolder' /\ OnePlaceEach'
<1>1. /\ lock \in Seq(Handlers) /\ Len(lock) \in Nat /\ DOMAIN lock = 1..Len(lock)
      /\ (lock = <<>> => Len(lock) = 0) /\ (lock # <<>> => Len(lock) > 0)
  BY DEF TypeOK
<1>2. /\ lock' \in Seq(Handlers) /\ DOMAIN lock' = 1..(Len(lock) + 1)
      /\ \A i \in 1..Len(lock) : lock'[i] = lock[i]
      /\ lock'[Len(lock) + 1] = h /\ lock' # <<>>
  BY <1>1, AppendProperties DEF Acquire
<1>3. /\ lock = <<>> => Granted(h) = <<Task("section", h)>> /\ lock'[1] = h
      /\ lock # <<>> => Granted(h) = <<>> /\ lock'[1] = lock[1]
  BY <1>1, <1>2 DEF Granted
<1>4. DOMAIN <<Task("section", h)>> = {1} /\ <<Task("section", h)>>[1].handler = h
  BY DEF Task
<1>5. OneHolder'
  <2>1. SoleHolder(Granted(h), lock'[1])
    BY <1>3, <1>4 DEF SoleHolder, Holders
  <2>2. Holders(Granted(h)) = {} \/ (lock' # <<>> /\ \A k \in Holders(tasks) : k <= d)
    BY <1>2, <1>3 DEF Holders, OneHolder
  <2>3. \A k \in Holders(tasks) : k > d => lock' # <<>> /\ lock'[1] = lock[1]
    BY <1>2, <1>3 DEF OneHolder
  <2> QED
    BY <2>1, <2>2, <2>3, HolderAfter
<1>6. ASSUME NEW c \in Pullers
      PROVE  PlaceOf(c)'
  <2>1. PlaceOf(c) /\ OneOf(Granted(h), c)
    BY <1>3, <1>4 DEF OnePlaceEach, OneOf
  <2>2. CASE h # Call("pull", c)
    <3>1. NoneOf(Granted(h), c)
      BY <1>3, <1>4, <2>2 DEF NoneOf
    <3> QED
      BY <2>1, <2>2, <3>1, LineFacts, PlaceKept
  <2>3. CASE h = Call("pull", c) /\ lock = <<>>
    BY <2>1, <2>3, LineFacts, PlaceMoved
  <2>4. CASE h = Call("pull", c) /\ lock # <<>>
    <3>1. NoneOf(Granted(h), c)
      BY <1>3, <2>4 DEF NoneOf
    <3>2. \A i \in DOMAIN lock' : InLineOf(i, c)' => i = Len(lock) + 1
      BY <1>1, <1>2, <2>4 DEF InLineOf
    <3>3. /\ \A i, k \in DOMAIN lock' : InLineOf(i, c)' /\ InLineOf(k, c)' => i = k
          /\ Awake(c)' /\ \A k \in DOMAIN tasks : TaskOf(k, c) => k <= d
      BY <2>4, <3>2
    <3> QED
      BY <2>1, <3>1, <3>3, PlaceAfter
  <2> QED
    BY <2>2, <2>3, <2>4
<1> QED
  BY <1>2, <1>5, <1>6 DEF OnePlaceEach

\* Outside the handlers of the lock only sleepers move.
LEMMA LoopGrows ==
    ASSUME TypeOK, OneHolder, OnePlaceEach, NEW next \in Seq(Tasks), tasks' = tasks \o next,
           lock' = lock, \A i \in DOMAIN next : WokenTask(next[i]),
           \A c \in Pullers : OneOf(next, c),
           \A c \in Pullers : pc'[c] = pc[c] \/ Awake(c)' \/ (pc[c] = "asleep" /\ NoneOf(next, c))
    PROVE  tasks' \in Seq(Tasks) /\ GoesOn(0, next) /\ OneHolder' /\ OnePlaceEach'
<1>1. GoesOn(0, next) /\ tasks' \in Seq(Tasks)
  BY QueueGrows DEF TypeOK, GoesOn
<1>2. Holders(next) = {}
  BY DEF Holders, WokenTask
<1>3. OneHolder'
  <2>1. SoleHolder(next, lock'[1])
    BY <1>2 DEF SoleHolder
  <2>2. \A k \in Holders(tasks) : lock' # <<>> /\ lock'[1] = lock[1]
    BY DEF OneHolder
  <2> QED
    BY <1>1, <1>2, <2>1, <2>2, HolderAfter
<1>4. ASSUME NEW c \in Pullers
      PROVE  PlaceOf(c)'
  <2>1. PlaceOf(c) /\ LineMoves(0, c)
    BY LineFacts DEF OnePlaceEach
  <2>2. CASE pc[c] = "asleep"
    <3>1. /\ \A k \in DOMAIN tasks : ~TaskOf(k, c)
          /\ \A k \in DOMAIN lock : ~InLineOf(k, c)
      BY <2>1, <2>2 DEF PlaceOf, Awake
    <3>2. NoneOf(next, c) \/ Awake(c)'
      BY WokenPuller DEF NoneOf
    <3> QED
      BY <1>1, <2>1, <3>1, <3>2, PlaceMoved
  <2>3. CASE pc[c] # "asleep"
    <3>1. NoneOf(next, c)
      BY <2>3, WokenPuller DEF NoneOf, Sleepers
    <3> QED
      BY <1>1, <2>1, <2>3, <3>1, PlaceKept
  <2> QED
    BY <2>2, <2>3
<1> QED
  BY <1>1, <1>3, <1>4 DEF OnePlaceEach

\* No new release is due unless it is asked for, and none is due twice.
LEMMA DueStays ==
    ASSUME TypeOK, NEW d, NEW next, GoesOn(d, next),
           lock # <<>> => lock' # <<>> /\ lock'[1] = lock[1],
           InLine(Releases)' \in SUBSET InLine(Releases),
           1 \in InLine(Releases) =>
              \/ \A k \in DOMAIN tasks : tasks[k].step = "release" => k > d
              \/ \E k \in DOMAIN next : next[k].step = "release"
    PROVE  Due' \in SUBSET Due
<1> SUFFICES ASSUME NEW i \in Due'
             PROVE  i \in Due
  OBVIOUS
<1>1. i \in InLine(Releases)
  BY DEF Due
<1>2. ASSUME i = 1, NEW k \in DOMAIN tasks, tasks[k].step = "release"
      PROVE  FALSE
  <2>1. \A m \in DOMAIN tasks' : tasks'[m].step # "release"
    BY <1>2 DEF Due
  <2>2. \E m \in DOMAIN tasks' : tasks'[m].step = "release"
    BY <1>1, <1>2 DEF GoesOn
  <2> QED
    BY <2>1, <2>2
<1> QED
  BY <1>1, <1>2 DEF Due

LEMMA GrantedTask ==
    ASSUME NEW h \in Handlers
    PROVE  /\ Granted(h) \in Seq(Tasks)
           /\ \A k \in DOMAIN Granted(h) : Granted(h)[k].step = "section"
<1>1. Task("section", h) \in Tasks /\ Task("section", h).step = "section"
  BY DEF Task, Tasks
<1> QED
  BY <1>1 DEF Granted

\* Who asks for the lock and has no slot to give back.
LEMMA AskKeepsSlots ==
    ASSUME TypeOK, SlotsInUse, NEW h \in Handlers, h.op \notin Releases, Acquire(h),
           NEW d, GoesOn(d, Granted(h)), \A k \in Holders(tasks) : k > d, active' = active
    PROVE  SlotsInUse'
<1>1. /\ lock \in Seq(Handlers) /\ Len(lock) \in Nat /\ DOMAIN lock = 1..Len(lock)
      /\ (lock # <<>> => Len(lock) > 0)
  BY DEF TypeOK
<1>2. /\ lock' \in Seq(Handlers) /\ DOMAIN lock' = 1..(Len(lock) + 1)
      /\ \A i \in 1..Len(lock) : lock'[i] = lock[i]
      /\ lock'[Len(lock) + 1] = h
  BY <1>1, AppendProperties DEF Acquire
<1>3. InLine(Releases)' \in SUBSET InLine(Releases)
  BY <1>1, <1>2 DEF InLine
<1>4. lock # <<>> => lock' # <<>> /\ lock'[1] = lock[1]
  BY <1>1, <1>2
<1>5. \A k \in DOMAIN tasks : tasks[k].step = "release" => k > d
  BY DEF Holders, Holding
<1>6. Due' \in SUBSET Due
  BY <1>3, <1>4, <1>5, DueStays
<1>7. active \in Nat /\ active <= Limit
  BY DEF TypeOK, SlotsInUse
<1> QED
  BY <1>2, <1>6, <1>7, DueKept

LEMMA WaitersKept ==
    ASSUME Waits(entries, activeWaiters, Sleepers), PendingMeansNobodySleeps,
           UNCHANGED waiterVars, Sleepers' = Sleepers
    PROVE  Waits(entries', activeWaiters', Sleepers') /\ PendingMeansNobodySleeps'
BY DEF waiterVars, PendingMeansNobodySleeps

LEMMA TakingKeepsSlots ==
    ASSUME TypeOK, OneHolder, OnePlaceEach, SlotsInUse, NEW step, NEW ops, Runs(step, ops),
           step \notin Holding \/ Now.op \notin Releases,
           NEW next, GoesOn(1, next), lock' = lock,
           active' \in Nat, active <= active', active' <= Limit
    PROVE  SlotsInUse'
<1>1. /\ step \in Holding => lock # <<>> /\ Now = lock[1]
      /\ step \notin Holding => \A k \in Holders(tasks) : k > 1
  BY RunsFacts
<1>2. 1 \in InLine(Releases) => \A k \in DOMAIN tasks : tasks[k].step = "release" => k > 1
  BY <1>1 DEF InLine, Holders, Holding
<1>3. InLine(Releases)' \in SUBSET InLine(Releases) /\ lock' \in Seq(Handlers)
  BY DEF InLine, TypeOK
<1>4. Due' \in SUBSET Due
  BY <1>2, <1>3, DueStays
<1> QED
  BY <1>3, <1>4, DueKept

LEMMA ReleasingKeepsSlots ==
    ASSUME TypeOK, OneHolder, OnePlaceEach, SlotsInUse, NEW step \in Holding, NEW ops, Runs(step, ops),
           step = "release" \/ Now.op \notin Releases, Release, active' = active
    PROVE  SlotsInUse'
<1>1. lock # <<>> /\ Now = lock[1] /\ 1 \in DOMAIN tasks /\ tasks[1].step = step
  BY RunsFacts
<1>2. 1 \notin Due
  BY <1>1 DEF Due, InLine
<1> QED
  BY <1>1, <1>2, DueMovesUp

LEMMA GivingBackKeepsSlots ==
    ASSUME TypeOK, OneHolder, OnePlaceEach, SlotsInUse, NEW ops, ops \subseteq Releases,
           Runs("section", ops), NEW next, GoesOn(1, next), lock' = lock, active' = active - 1,
           \E k \in DOMAIN next : next[k].step = "release"
    PROVE  active' \in Nat /\ SlotsInUse'
<1>1. /\ lock # <<>> /\ Now = lock[1] /\ 1 \in DOMAIN tasks /\ tasks[1].step = "section"
      /\ Now.op \in Releases /\ \A k \in Holders(tasks) : k = 1
  <2>1. "section" \in Holding
    BY DEF Holding
  <2> QED
    BY <2>1, RunsFacts
<1>2. 1 \in DOMAIN lock
  BY <1>1 DEF TypeOK
<1>3. \A k \in DOMAIN tasks : tasks[k].step # "release"
  BY <1>1 DEF Holders, Holding
<1>4. 1 \in Due
  BY <1>1, <1>2, <1>3 DEF Due, InLine
<1>5. InLine(Releases)' \in SUBSET InLine(Releases)
  BY DEF InLine
<1>6. Due' \in SUBSET Due
  BY <1>5, DueStays
<1>7. \E k \in DOMAIN tasks' : tasks'[k].step = "release"
  BY DEF GoesOn
<1>8. 1 \notin Due'
  BY <1>7 DEF Due
<1> QED
  BY <1>4, <1>6, <1>8, DuePaid

-----------------------------------------------------------------------------
(***************************************************************************)
(* The actions.                                                            *)
(***************************************************************************)

LEMMA PullKeeps ==
    ASSUME IInv, UNCHANGED hazards, NEW c \in Pullers, Pull(c)
    PROVE  IInv'
<1> DEFINE h == Call("pull", c)
<1>1. /\ TypeOK /\ OneHolder /\ OnePlaceEach /\ SlotsInUse /\ PendingMeansNobodySleeps
      /\ Waits(entries, activeWaiters, Sleepers)
  BY DEF IInv
<1>2. /\ pc[c] = "idle" /\ pc' = [pc EXCEPT ![c] = "running"]
      /\ overdue' \in [Pullers -> BOOLEAN]
      /\ Acquire(h) /\ tasks' = tasks \o Granted(h)
      /\ UNCHANGED <<jobVars, waiterVars, timer>>
  BY <1>1 DEF Pull, TypeOK
<1>3. h \in Handlers /\ h.op = "pull"
  BY DEF Handlers, Call
<1>4. Granted(h) \in Seq(Tasks)
  BY <1>3, GrantedTask
<1>5. GoesOn(0, Granted(h))
  BY <1>1, <1>2, <1>4, QueueGrows DEF TypeOK
<1>6. pc \in [Pullers -> {"idle", "running", "served", "asleep"}] /\ pc'[c] = "running"
  BY <1>1, <1>2 DEF TypeOK
<1>7. \A b \in Pullers : pc'[b] = pc[b] \/ Awake(b)'
  BY <1>2, <1>6 DEF Awake
<1>8. \A b \in Pullers : h = Call("pull", b) =>
         /\ Awake(b)'
         /\ \A k \in DOMAIN tasks : TaskOf(k, b) => k <= 0
         /\ \A k \in DOMAIN lock : ~InLineOf(k, b)
  <2>1. PlaceOf(c) /\ ~Awake(c) /\ Awake(c)'
    BY <1>1, <1>2, <1>6 DEF OnePlaceEach, Awake
  <2>2. \A b \in Pullers : h = Call("pull", b) => b = c
    BY DEF Call
  <2> QED
    BY <2>1, <2>2 DEF PlaceOf
<1>9. \A k \in Holders(tasks) : k > 0
  BY <1>1 DEF TypeOK, Holders
<1> HIDE DEF h
<1>10. lock' \in Seq(Handlers) /\ OneHolder' /\ OnePlaceEach'
  BY <1>1, <1>2, <1>3, <1>5, <1>7, <1>8, <1>9, AcquireKeeps
<1>11. SlotsInUse'
  BY <1>1, <1>2, <1>3, <1>5, <1>9, AskKeepsSlots DEF Releases, Silent, jobVars
<1>12. Sleepers' = Sleepers
  BY <1>2, <1>6 DEF Sleepers
<1>13. Waits(entries', activeWaiters', Sleepers') /\ PendingMeansNobodySleeps'
  BY <1>1, <1>2, <1>12, WaitersKept
<1>14. TypeOK'
  BY <1>1, <1>2, <1>5, <1>6, <1>10 DEF TypeOK, GoesOn, jobVars, waiterVars
<1> QED
  BY <1>10, <1>11, <1>13, <1>14 DEF IInv

LEMMA CallsComeInKeeps ==
    ASSUME IInv, UNCHANGED hazards, NEW h \in Handlers, CallsComeIn(h)
    PROVE  IInv'
<1>1. /\ TypeOK /\ OneHolder /\ OnePlaceEach /\ SlotsInUse /\ PendingMeansNobodySleeps
      /\ Waits(entries, activeWaiters, Sleepers)
  BY DEF IInv
<1>2. /\ h.op # "pull" /\ Acquire(h) /\ tasks' = tasks \o Granted(h)
      /\ h.op \in Releases => Cardinality(InLine(Releases)) < active
      /\ UNCHANGED <<jobVars, waiterVars, pullerVars>>
  BY DEF CallsComeIn
<1>3. GoesOn(0, Granted(h))
  BY <1>1, <1>2, GrantedTask, QueueGrows DEF TypeOK
<1>4. \A c \in Pullers : h # Call("pull", c)
  BY <1>2 DEF Call
<1>5. \A k \in Holders(tasks) : k > 0
  BY <1>1 DEF TypeOK, Holders
<1>6. \A c \in Pullers : pc'[c] = pc[c]
  BY <1>2 DEF pullerVars
<1>7. lock' \in Seq(Handlers) /\ OneHolder' /\ OnePlaceEach'
  BY <1>1, <1>2, <1>3, <1>4, <1>5, <1>6, AcquireKeeps
<1>8. SlotsInUse'
  <2>1. CASE h.op \notin Releases
    BY <1>1, <1>2, <1>3, <1>5, <2>1, AskKeepsSlots DEF jobVars
  <2>2. CASE h.op \in Releases
    <3>1. /\ lock \in Seq(Handlers) /\ Len(lock) \in Nat /\ DOMAIN lock = 1..Len(lock)
          /\ DOMAIN lock' = 1..(Len(lock) + 1)
          /\ \A i \in 1..Len(lock) : lock'[i] = lock[i]
          /\ lock'[Len(lock) + 1] = h
      BY <1>1, <1>2, AppendProperties DEF Acquire, TypeOK
    <3>2. InLine(Releases)' = InLine(Releases) \cup {Len(lock) + 1} /\ Len(lock) + 1 \notin InLine(Releases)
      BY <2>2, <3>1 DEF InLine
    <3>3. IsFiniteSet(InLine(Releases)) /\ Cardinality(InLine(Releases)) \in Nat
      BY <3>1, DueFinite
    <3>4. IsFiniteSet(InLine(Releases)') /\ Cardinality(InLine(Releases)') = Cardinality(InLine(Releases)) + 1
      BY <3>2, <3>3, FS_AddElement
    <3>5. Cardinality(Due') <= Cardinality(InLine(Releases)') /\ Cardinality(Due') \in Nat
      <4>1. Due' \in SUBSET (InLine(Releases)')
        BY DEF Due
      <4> QED
        BY <3>4, <4>1, FS_Subset, FS_CardinalityType
    <3>6. Cardinality(InLine(Releases)) < active /\ active \in Nat /\ active' = active /\ active <= Limit
      BY <1>1, <1>2, <2>2 DEF TypeOK, jobVars, SlotsInUse
    <3> QED
      BY <3>3, <3>4, <3>5, <3>6 DEF SlotsInUse
  <2> QED
    BY <2>1, <2>2
<1>9. Sleepers' = Sleepers
  BY <1>2 DEF Sleepers, pullerVars
<1>10. Waits(entries', activeWaiters', Sleepers') /\ PendingMeansNobodySleeps'
  BY <1>1, <1>2, <1>9, WaitersKept
<1>11. TypeOK'
  BY <1>1, <1>2, <1>3, <1>7 DEF TypeOK, GoesOn, jobVars, waiterVars, pullerVars
<1> QED
  BY <1>7, <1>8, <1>10, <1>11 DEF IInv

LEMMA TryAgainKeeps ==
    ASSUME IInv, UNCHANGED hazards, TryAgain
    PROVE  IInv'
<1>1. /\ TypeOK /\ OneHolder /\ OnePlaceEach /\ SlotsInUse /\ PendingMeansNobodySleeps
      /\ Waits(entries, activeWaiters, Sleepers)
  BY DEF IInv
<1>2. /\ Runs("again", {"pull"}) /\ Acquire(Now) /\ Continue(Granted(Now))
      /\ UNCHANGED <<jobVars, waiterVars, pullerVars>>
  BY DEF TryAgain
<1>3. /\ tasks # <<>> /\ Now \in Handlers /\ Now.op = "pull"
      /\ \A k \in Holders(tasks) : k > 1
      /\ \A c \in Pullers : Now = Call("pull", c) =>
            /\ Awake(c)
            /\ \A k \in DOMAIN tasks : TaskOf(k, c) => k <= 1
            /\ \A k \in DOMAIN lock : ~InLineOf(k, c)
  <2>1. "again" \notin Holding
    BY DEF Holding
  <2> QED
    BY <1>1, <1>2, <2>1, RunsFacts
<1>4. GoesOn(1, Granted(Now))
  BY <1>1, <1>2, <1>3, GrantedTask, QueueContinues DEF TypeOK
<1>5. \A c \in Pullers : pc'[c] = pc[c] /\ (Awake(c) => Awake(c)')
  BY <1>2 DEF pullerVars, Awake
<1>6. lock' \in Seq(Handlers) /\ OneHolder' /\ OnePlaceEach'
  BY <1>1, <1>2, <1>3, <1>4, <1>5, AcquireKeeps
<1>7. SlotsInUse'
  BY <1>1, <1>2, <1>3, <1>4, AskKeepsSlots DEF Releases, Silent, jobVars
<1>8. Sleepers' = Sleepers
  BY <1>2 DEF Sleepers, pullerVars
<1>9. Waits(entries', activeWaiters', Sleepers') /\ PendingMeansNobodySleeps'
  BY <1>1, <1>2, <1>8, WaitersKept
<1>10. TypeOK'
  BY <1>1, <1>2, <1>4, <1>6 DEF TypeOK, GoesOn, jobVars, waiterVars, pullerVars
<1> QED
  BY <1>6, <1>7, <1>9, <1>10 DEF IInv

LEMMA PullSectionKeeps ==
    ASSUME IInv, UNCHANGED hazards, PullSection
    PROVE  IInv'
<1> DEFINE c == Now.arg
           taken == Takes(IF c \in Batchers THEN Count ELSE 1)
           t == Task("release", Now)
<1>1. /\ TypeOK /\ OneHolder /\ OnePlaceEach /\ SlotsInUse /\ PendingMeansNobodySleeps
      /\ Waits(entries, activeWaiters, Sleepers)
  BY DEF IInv
<1>2. /\ Runs("section", {"pull"}) /\ Continue(<<t>>)
      /\ ready' = ready - taken /\ active' = active + taken
      /\ UNCHANGED <<delayed, paused, waiterVars, lock, overdue>>
      /\ \/ pc' = [pc EXCEPT ![c] = "served"] /\ timer' = timer
         \/ /\ pc' = pc
            /\ \E seen \in {"deadline", "nextRun"} : timer' = [timer EXCEPT ![c] = seen]
  BY DEF PullSection
<1>3. /\ lock # <<>> /\ Now = lock[1] /\ Now \in Handlers /\ Now.op = "pull"
      /\ c \in Pullers /\ Now = Call("pull", c) /\ Awake(c)
  <2>1. "section" \in Holding
    BY DEF Holding
  <2> QED
    BY <1>1, <1>2, <2>1, RunsFacts
<1>4. taken \in Nat /\ taken <= ready /\ active + taken <= Limit
  <2>1. ready \in Nat /\ active \in Nat /\ active <= Limit /\ Limit \in Nat /\ Count \in Nat
    BY <1>1, CountAssumption DEF TypeOK, SlotsInUse
  <2> QED
    BY <2>1 DEF Takes, Smaller
<1>5. t \in Tasks /\ OwnTask(t, "section") /\ Now = lock'[1]
  BY <1>2, <1>3 DEF Task, Tasks, OwnTask, Holding
<1> HIDE DEF taken, t
<1>6. Leaves(<<t>>, "section")
  BY <1>5, LeavesOwn
<1>7. /\ pc \in [Pullers -> {"idle", "running", "served", "asleep"}]
      /\ timer \in [Pullers -> {"deadline", "nextRun", "due"}]
  BY <1>1 DEF TypeOK
<1>8. /\ pc' \in [Pullers -> {"idle", "running", "served", "asleep"}]
      /\ timer' \in [Pullers -> {"deadline", "nextRun", "due"}]
      /\ \A b \in Pullers : pc'[b] = pc[b] \/ Awake(b)'
      /\ Sleepers' = Sleepers
  BY <1>2, <1>3, <1>7 DEF Awake, Sleepers
<1>9. tasks' \in Seq(Tasks) /\ lock' \in Seq(Handlers) /\ OneHolder' /\ OnePlaceEach' /\ GoesOn(1, <<t>>)
  BY <1>1, <1>2, <1>6, <1>8, MovesOn
<1>10. ready' \in Nat /\ active' \in Nat /\ active <= active' /\ active' <= Limit
  BY <1>1, <1>2, <1>4 DEF TypeOK
<1>11. SlotsInUse'
  <2>1. Now.op \notin Releases
    BY <1>3 DEF Releases, Silent
  <2> QED
    BY <1>1, <1>2, <1>9, <1>10, <2>1, TakingKeepsSlots
<1>12. Waits(entries', activeWaiters', Sleepers') /\ PendingMeansNobodySleeps'
  BY <1>1, <1>2, <1>8, WaitersKept
<1>13. TypeOK'
  BY <1>1, <1>2, <1>8, <1>9, <1>10 DEF TypeOK, waiterVars
<1> QED
  BY <1>9, <1>11, <1>12, <1>13 DEF IInv

LEMMA ReleaseSectionKeeps ==
    ASSUME IInv, UNCHANGED hazards, ReleaseSection
    PROVE  IInv'
<1> DEFINE own == IF Now.op = "pull" THEN <<Task("tried", Now)>> ELSE <<>>
<1>1. /\ TypeOK /\ OneHolder /\ OnePlaceEach /\ SlotsInUse /\ PendingMeansNobodySleeps
      /\ Waits(entries, activeWaiters, Sleepers)
  BY DEF IInv
<1>2. /\ Runs("release", {"pull"} \cup Releases)
      /\ Release /\ Continue(Handover \o own)
      /\ UNCHANGED <<jobVars, waiterVars, pullerVars>>
  BY DEF ReleaseSection
<1>3. "release" \in Holding
  BY DEF Holding
<1>4. /\ lock # <<>> /\ Now \in Handlers
      /\ \A c \in Pullers : Now = Call("pull", c) => \A k \in DOMAIN lock : ~InLineOf(k, c)
  BY <1>1, <1>2, <1>3, RunsFacts
<1>5. Leaves(own, "release") /\ Holders(own) = {} /\ \A c \in Pullers : Now # Call("pull", c) => NoneOf(own, c)
  <2>1. CASE Now.op = "pull"
    <3> DEFINE t == Task("tried", Now)
    <3>1. t \in Tasks /\ t.step \notin Holding /\ t.handler = Now
      BY <1>4 DEF Task, Tasks, Holding
    <3> HIDE DEF t
    <3>2. Leaves(<<t>>, "release")
      BY <3>1, LeavesOwn DEF OwnTask
    <3>3. Holders(<<t>>) = {} /\ \A c \in Pullers : Now # Call("pull", c) => NoneOf(<<t>>, c)
      BY <3>1 DEF Holders, NoneOf
    <3> QED
      BY <2>1, <3>2, <3>3 DEF t
  <2>2. CASE Now.op # "pull"
    BY <2>2, LeavesNothing DEF Holders, NoneOf
  <2> QED
    BY <2>1, <2>2
<1> HIDE DEF own
<1>6. /\ Leaves(Handover, "release")
      /\ \A c \in Pullers : (\A k \in DOMAIN lock : ~InLineOf(k, c)) => NoneOf(Handover, c)
  BY <1>1, <1>2, <1>3, <1>4, LeavesHandover
<1>7. Leaves(Handover \o own, "release")
  BY <1>4, <1>5, <1>6, LeavesBoth
<1>8. tasks' \in Seq(Tasks) /\ lock' \in Seq(Handlers) /\ OneHolder' /\ OnePlaceEach'
  BY <1>1, <1>2, <1>3, <1>7, MovesOn DEF pullerVars
<1>9. SlotsInUse'
  BY <1>1, <1>2, <1>3, ReleasingKeepsSlots DEF jobVars
<1>10. Sleepers' = Sleepers
  BY <1>2 DEF Sleepers, pullerVars
<1>11. Waits(entries', activeWaiters', Sleepers') /\ PendingMeansNobodySleeps'
  BY <1>1, <1>2, <1>10, WaitersKept
<1>12. TypeOK'
  BY <1>1, <1>2, <1>8 DEF TypeOK, jobVars, waiterVars, pullerVars
<1> QED
  BY <1>8, <1>9, <1>11, <1>12 DEF IInv

\* A puller's own next microtask, away from the lock.
LEMMA LeavesStep ==
    ASSUME NEW step, NEW next \in {"decide", "again", "woken"}, Now \in Handlers
    PROVE  Leaves(<<Task(next, Now)>>, step)
<1> DEFINE t == Task(next, Now)
<1>1. t \in Tasks /\ t.step \notin Holding /\ t.handler = Now
  BY DEF Task, Tasks, Holding
<1> HIDE DEF t
<1>2. Leaves(<<t>>, step)
  BY <1>1, LeavesOwn DEF OwnTask
<1> QED
  BY <1>2 DEF t

LEMMA AwaitKeeps ==
    ASSUME IInv, UNCHANGED hazards, Await
    PROVE  IInv'
<1>1. /\ TypeOK /\ OneHolder /\ OnePlaceEach /\ SlotsInUse /\ PendingMeansNobodySleeps
      /\ Waits(entries, activeWaiters, Sleepers)
  BY DEF IInv
<1>2. PICK step \in {"tried", "woken"}, next \in {"decide", "again"} :
         Runs(step, {"pull"}) /\ Continue(<<Task(next, Now)>>)
  BY DEF Await
<1>3. UNCHANGED <<jobVars, waiterVars, lock, pullerVars>> /\ step \notin Holding
  BY DEF Await, Holding
<1>4. Now \in Handlers
  BY <1>1, <1>2, RunsFacts
<1>5. Leaves(<<Task(next, Now)>>, step)
  BY <1>4, LeavesStep
<1>6. /\ tasks' \in Seq(Tasks) /\ lock' \in Seq(Handlers) /\ OneHolder' /\ OnePlaceEach'
      /\ GoesOn(1, <<Task(next, Now)>>)
  BY <1>1, <1>2, <1>3, <1>5, MovesOn DEF pullerVars
<1>7. SlotsInUse'
  <2>1. active' = active /\ active \in Nat /\ active <= Limit
    BY <1>1, <1>3 DEF TypeOK, SlotsInUse, jobVars
  <2> QED
    BY <1>1, <1>2, <1>3, <1>6, <2>1, TakingKeepsSlots
<1>8. Sleepers' = Sleepers
  BY <1>3 DEF Sleepers, pullerVars
<1>9. Waits(entries', activeWaiters', Sleepers') /\ PendingMeansNobodySleeps'
  BY <1>1, <1>3, <1>8, WaitersKept
<1>10. TypeOK'
  BY <1>1, <1>3, <1>6 DEF TypeOK, jobVars, waiterVars, pullerVars
<1> QED
  BY <1>6, <1>7, <1>9, <1>10 DEF IInv

LEMMA ReturnFromPullKeeps ==
    ASSUME IInv, UNCHANGED hazards, ReturnFromPull
    PROVE  IInv'
<1>1. /\ TypeOK /\ OneHolder /\ OnePlaceEach /\ SlotsInUse /\ PendingMeansNobodySleeps
      /\ Waits(entries, activeWaiters, Sleepers)
  BY DEF IInv
<1>2. /\ Runs("decide", {"pull"}) /\ Return(Now.arg) /\ Continue(<<>>)
      /\ UNCHANGED <<jobVars, waiterVars, lock>> /\ "decide" \notin Holding
  BY DEF ReturnFromPull, Holding
<1>3. Now.arg \in Pullers /\ Now = Call("pull", Now.arg) /\ Awake(Now.arg)
  BY <1>1, <1>2, RunsFacts
<1>4. /\ pc \in [Pullers -> {"idle", "running", "served", "asleep"}]
      /\ timer \in [Pullers -> {"deadline", "nextRun", "due"}]
      /\ overdue \in [Pullers -> BOOLEAN]
  BY <1>1 DEF TypeOK
<1>5. /\ pc' \in [Pullers -> {"idle", "running", "served", "asleep"}]
      /\ timer' \in [Pullers -> {"deadline", "nextRun", "due"}]
      /\ overdue' \in [Pullers -> BOOLEAN]
      /\ \A c \in Pullers : pc'[c] = pc[c] \/ c = Now.arg
      /\ Sleepers' = Sleepers
  BY <1>2, <1>3, <1>4 DEF Return, Awake, Sleepers
<1>6. \A c \in Pullers : pc'[c] = pc[c] \/ (Now = Call("pull", c) /\ NoneOf(<<>>, c))
  BY <1>3, <1>5 DEF NoneOf
<1>7. /\ tasks' \in Seq(Tasks) /\ lock' \in Seq(Handlers) /\ OneHolder' /\ OnePlaceEach'
      /\ GoesOn(1, <<>>)
  BY <1>1, <1>2, <1>6, LeavesNothing, MovesOn
<1>8. SlotsInUse'
  <2>1. active' = active /\ active \in Nat /\ active <= Limit
    BY <1>1, <1>2 DEF TypeOK, SlotsInUse, jobVars
  <2> QED
    BY <1>1, <1>2, <1>7, <2>1, TakingKeepsSlots
<1>9. Waits(entries', activeWaiters', Sleepers') /\ PendingMeansNobodySleeps'
  BY <1>1, <1>2, <1>5, WaitersKept
<1>10. TypeOK'
  BY <1>1, <1>2, <1>5, <1>7 DEF TypeOK, jobVars, waiterVars
<1> QED
  BY <1>7, <1>8, <1>9, <1>10 DEF IInv

LEMMA WaitForJobKeeps ==
    ASSUME IInv, UNCHANGED hazards, WaitForJob
    PROVE  IInv'
<1> DEFINE c == Now.arg
<1>1. /\ TypeOK /\ OneHolder /\ OnePlaceEach /\ SlotsInUse /\ PendingMeansNobodySleeps
      /\ Waits(entries, activeWaiters, Sleepers)
  BY DEF IInv
<1>2. /\ Runs("decide", {"pull"}) /\ "decide" \notin Holding /\ pc[c] = "running"
      /\ UNCHANGED <<jobVars, lock, overdue>>
  BY DEF WaitForJob, MustWait, Holding
<1>3. Now \in Handlers /\ c \in Pullers /\ Now = Call("pull", c)
  BY <1>1, <1>2, RunsFacts
<1>4. /\ pc \in [Pullers -> {"idle", "running", "served", "asleep"}]
      /\ timer \in [Pullers -> {"deadline", "nextRun", "due"}]
      /\ entries \in Seq(Entries) /\ activeWaiters \in Nat
      /\ active' = active /\ active \in Nat /\ active <= Limit
  BY <1>1, <1>2 DEF TypeOK, SlotsInUse, jobVars
<1>5. CASE /\ pending /\ pending' = FALSE
           /\ timer' = [timer EXCEPT ![c] = "deadline"]
           /\ Continue(<<Task("woken", Now)>>)
           /\ UNCHANGED <<entries, activeWaiters, pc>>
  <2>1. Leaves(<<Task("woken", Now)>>, "decide")
    BY <1>3, LeavesStep
  <2>2. /\ tasks' \in Seq(Tasks) /\ lock' \in Seq(Handlers) /\ OneHolder' /\ OnePlaceEach'
        /\ GoesOn(1, <<Task("woken", Now)>>)
    BY <1>1, <1>2, <1>5, <2>1, MovesOn
  <2>3. SlotsInUse'
    BY <1>1, <1>2, <1>4, <2>2, TakingKeepsSlots
  <2>4. Waits(entries', activeWaiters', Sleepers') /\ PendingMeansNobodySleeps'
    BY <1>1, <1>5 DEF Sleepers, PendingMeansNobodySleeps
  <2>5. TypeOK'
    BY <1>1, <1>2, <1>4, <1>5, <2>2 DEF TypeOK, jobVars
  <2> QED
    BY <2>2, <2>3, <2>4, <2>5 DEF IInv
<1>6. CASE ~pending /\ Sleep /\ UNCHANGED <<pending, timer>>
  <2>1. /\ entries' = Append(entries, [puller |-> c, cancelled |-> FALSE])
        /\ activeWaiters' = activeWaiters + 1
        /\ pc' = [pc EXCEPT ![c] = "asleep"]
        /\ Continue(<<>>)
    BY <1>6 DEF Sleep
  <2>2. \A b \in Pullers : pc'[b] = pc[b] \/ (Now = Call("pull", b) /\ NoneOf(<<>>, b))
    BY <1>3, <1>4, <2>1 DEF NoneOf
  <2>3. /\ tasks' \in Seq(Tasks) /\ lock' \in Seq(Handlers) /\ OneHolder' /\ OnePlaceEach'
        /\ GoesOn(1, <<>>)
    BY <1>1, <1>2, <2>1, <2>2, LeavesNothing, MovesOn
  <2>4. SlotsInUse'
    BY <1>1, <1>2, <1>4, <2>3, TakingKeepsSlots
  <2>5. c \notin Sleepers /\ Sleepers' = Sleepers \cup {c}
    BY <1>2, <1>3, <1>4, <2>1 DEF Sleepers
  <2>6. entries' \in Seq(Entries) /\ Waits(entries', activeWaiters', Sleepers')
    BY <1>1, <1>3, <1>4, <2>1, <2>5, WaitsSleep
  <2>7. PendingMeansNobodySleeps'
    BY <1>6 DEF PendingMeansNobodySleeps
  <2>8. pc' \in [Pullers -> {"idle", "running", "served", "asleep"}] /\ activeWaiters' \in Nat
    BY <1>3, <1>4, <2>1
  <2>9. TypeOK'
    BY <1>1, <1>2, <1>6, <2>3, <2>6, <2>8 DEF TypeOK, jobVars
  <2> QED
    BY <2>3, <2>4, <2>6, <2>7, <2>9 DEF IInv
<1> QED
  BY <1>5, <1>6 DEF WaitForJob

LEMMA LoopKeepsSlots ==
    ASSUME TypeOK, SlotsInUse, NEW next, GoesOn(0, next), lock' = lock, active' = active
    PROVE  SlotsInUse'
<1>1. InLine(Releases)' \in SUBSET InLine(Releases) /\ lock' \in Seq(Handlers)
  BY DEF InLine, TypeOK
<1>2. \A k \in DOMAIN tasks : k > 0
  BY DEF TypeOK
<1>3. Due' \in SUBSET Due
  BY <1>1, <1>2, DueStays
<1>4. active \in Nat /\ active <= Limit
  BY DEF TypeOK, SlotsInUse
<1> QED
  BY <1>1, <1>3, <1>4, DueKept

LEMMA LoopStays ==
    ASSUME TypeOK, OneHolder, OnePlaceEach, SlotsInUse, tasks' = tasks, lock' = lock, active' = active,
           \A c \in Pullers : pc'[c] = pc[c] \/ pc[c] = "asleep"
    PROVE  OneHolder' /\ OnePlaceEach' /\ SlotsInUse'
<1>1. <<>> \in Seq(Tasks) /\ tasks' = tasks \o <<>>
  BY ConcatEmptySeq DEF TypeOK
<1>2. \A c \in Pullers : OneOf(<<>>, c) /\ NoneOf(<<>>, c)
  BY DEF OneOf, NoneOf
<1>3. \A i \in DOMAIN <<>> : WokenTask(<<>>[i])
  OBVIOUS
<1>4. GoesOn(0, <<>>) /\ OneHolder' /\ OnePlaceEach'
  BY <1>1, <1>2, <1>3, LoopGrows
<1> QED
  BY <1>4, LoopKeepsSlots

LEMMA SettleEffect ==
    ASSUME TypeOK, Waits(entries, activeWaiters, Sleepers), PendingMeansNobodySleeps,
           NEW c \in Pullers, pc[c] = "asleep", Settle(c), Sleepers' = Sleepers \ {c}
    PROVE  /\ entries' \in Seq(Entries) /\ activeWaiters' \in Nat /\ pending' \in BOOLEAN
           /\ Waits(entries', activeWaiters', Sleepers') /\ PendingMeansNobodySleeps'
<1>1. entries \in Seq(Entries) /\ activeWaiters \in Nat /\ c \in Sleepers
  BY DEF TypeOK, Sleepers
<1>2. /\ activeWaiters' = activeWaiters - 1 /\ pending' = pending
      /\ entries' = Compact(Cancelled(entries, c), activeWaiters')
  BY DEF Settle, Cancelled
<1>3. /\ activeWaiters - 1 \in Nat /\ Cancelled(entries, c) \in Seq(Entries)
      /\ Waits(Cancelled(entries, c), activeWaiters - 1, Sleepers \ {c})
  BY <1>1, WaitsCancel
<1>4. entries' \in Seq(Entries) /\ Waits(entries', activeWaiters', Sleepers')
  BY <1>2, <1>3, WaitsCompact
<1>5. PendingMeansNobodySleeps'
  BY <1>1, <1>2 DEF PendingMeansNobodySleeps
<1> QED
  BY <1>2, <1>3, <1>4, <1>5 DEF TypeOK

LEMMA TimeoutKeeps ==
    ASSUME IInv, UNCHANGED hazards, NEW c \in Pullers, Timeout(c)
    PROVE  IInv'
<1> DEFINE t == Task("woken", Call("pull", c))
<1>1. /\ TypeOK /\ OneHolder /\ OnePlaceEach /\ SlotsInUse /\ PendingMeansNobodySleeps
      /\ Waits(entries, activeWaiters, Sleepers)
  BY DEF IInv
<1>2. /\ pc[c] = "asleep" /\ tasks = <<>> /\ Settle(c)
      /\ pc' = [pc EXCEPT ![c] = "running"] /\ timer' = [timer EXCEPT ![c] = "deadline"]
      /\ tasks' = <<t>> /\ UNCHANGED <<jobVars, lock, overdue>>
  BY DEF Timeout, Quiet
<1>3. t \in Tasks /\ t.step \notin Holding /\ t.handler = Call("pull", c)
  BY DEF Task, Call, Tasks, Handlers, Holding
<1> HIDE DEF t
<1>4. /\ pc \in [Pullers -> {"idle", "running", "served", "asleep"}]
      /\ timer \in [Pullers -> {"deadline", "nextRun", "due"}]
  BY <1>1 DEF TypeOK
<1>5. /\ pc' \in [Pullers -> {"idle", "running", "served", "asleep"}]
      /\ timer' \in [Pullers -> {"deadline", "nextRun", "due"}]
      /\ Sleepers' = Sleepers \ {c} /\ c \in Sleepers
      /\ \A b \in Pullers : pc'[b] = pc[b] \/ Awake(b)'
      /\ Awake(c)'
  BY <1>2, <1>4 DEF Sleepers, Awake
<1>6. /\ entries' \in Seq(Entries) /\ activeWaiters' \in Nat /\ pending' \in BOOLEAN
      /\ Waits(entries', activeWaiters', Sleepers') /\ PendingMeansNobodySleeps'
  BY <1>1, <1>2, <1>5, SettleEffect
<1>7. <<t>> \in Seq(Tasks) /\ DOMAIN <<t>> = {1} /\ <<t>>[1] = t
  BY <1>3
<1>8. WokenTask(t)
  BY <1>3, <1>5 DEF WokenTask
<1>9. tasks' = tasks \o <<t>>
  BY <1>2, <1>7, ConcatEmptySeq
<1>10. (\A i \in DOMAIN <<t>> : WokenTask(<<t>>[i])) /\ \A b \in Pullers : OneOf(<<t>>, b)
  BY <1>7, <1>8 DEF OneOf
<1>11. tasks' \in Seq(Tasks) /\ GoesOn(0, <<t>>) /\ OneHolder' /\ OnePlaceEach'
  BY <1>1, <1>2, <1>5, <1>7, <1>9, <1>10, LoopGrows
<1>12. SlotsInUse'
  BY <1>1, <1>2, <1>11, LoopKeepsSlots DEF jobVars
<1>13. TypeOK'
  BY <1>1, <1>2, <1>5, <1>6, <1>11 DEF TypeOK, jobVars
<1> QED
  BY <1>6, <1>11, <1>12, <1>13 DEF IInv

LEMMA AbortKeeps ==
    ASSUME IInv, UNCHANGED hazards, NEW c \in Pullers, Abort(c)
    PROVE  IInv'
<1>1. /\ TypeOK /\ OneHolder /\ OnePlaceEach /\ SlotsInUse /\ PendingMeansNobodySleeps
      /\ Waits(entries, activeWaiters, Sleepers)
  BY DEF IInv
<1>2. /\ pc[c] = "asleep" /\ Settle(c) /\ UNCHANGED <<jobVars, tasks, lock>>
      /\ pc' = [pc EXCEPT ![c] = "idle"] /\ timer' = [timer EXCEPT ![c] = "deadline"]
      /\ overdue' = [overdue EXCEPT ![c] = FALSE]
  BY DEF Abort, Return
<1>3. /\ pc \in [Pullers -> {"idle", "running", "served", "asleep"}]
      /\ timer \in [Pullers -> {"deadline", "nextRun", "due"}]
      /\ overdue \in [Pullers -> BOOLEAN]
  BY <1>1 DEF TypeOK
<1>4. /\ pc' \in [Pullers -> {"idle", "running", "served", "asleep"}]
      /\ timer' \in [Pullers -> {"deadline", "nextRun", "due"}]
      /\ overdue' \in [Pullers -> BOOLEAN]
      /\ Sleepers' = Sleepers \ {c}
      /\ \A b \in Pullers : pc'[b] = pc[b] \/ pc[b] = "asleep"
  BY <1>2, <1>3 DEF Sleepers
<1>5. /\ entries' \in Seq(Entries) /\ activeWaiters' \in Nat /\ pending' \in BOOLEAN
      /\ Waits(entries', activeWaiters', Sleepers') /\ PendingMeansNobodySleeps'
  BY <1>1, <1>2, <1>4, SettleEffect
<1>6. OneHolder' /\ OnePlaceEach' /\ SlotsInUse'
  BY <1>1, <1>2, <1>4, LoopStays DEF jobVars
<1>7. TypeOK'
  BY <1>1, <1>2, <1>4, <1>5 DEF TypeOK, jobVars
<1> QED
  BY <1>5, <1>6, <1>7 DEF IInv

LEMMA TimeKeeps ==
    ASSUME IInv, UNCHANGED hazards, PauseQueue \/ Mature \/ \E c \in Pullers : DeadlinePasses(c)
    PROVE  IInv'
<1>1. /\ TypeOK /\ OneHolder /\ OnePlaceEach /\ SlotsInUse /\ PendingMeansNobodySleeps
      /\ Waits(entries, activeWaiters, Sleepers)
  BY DEF IInv
<1>2. UNCHANGED <<active, waiterVars, tasks, lock, pc>>
  BY DEF PauseQueue, Mature, DeadlinePasses, pullerVars, jobVars
<1>3. Sleepers' = Sleepers
  BY <1>2 DEF Sleepers
<1>4. OneHolder' /\ OnePlaceEach' /\ SlotsInUse'
  BY <1>1, <1>2, LoopStays
<1>5. Waits(entries', activeWaiters', Sleepers') /\ PendingMeansNobodySleeps'
  BY <1>1, <1>2, <1>3, WaitersKept
<1>6. /\ ready' \in Nat /\ delayed' \in BOOLEAN /\ paused' \in BOOLEAN
      /\ timer' \in [Pullers -> {"deadline", "nextRun", "due"}]
      /\ overdue' \in [Pullers -> BOOLEAN]
  <2>1. /\ ready \in Nat /\ delayed \in BOOLEAN /\ paused \in BOOLEAN
        /\ timer \in [Pullers -> {"deadline", "nextRun", "due"}]
        /\ overdue \in [Pullers -> BOOLEAN]
    BY <1>1 DEF TypeOK
  <2>2. CASE PauseQueue
    BY <2>1, <2>2 DEF PauseQueue, pullerVars
  <2>3. CASE Mature
    <3>1. timer' \in [Pullers -> {"deadline", "nextRun", "due"}]
      BY <2>1, <2>3 DEF Mature
    <3>2. /\ ready' = ready + 1 /\ delayed' = FALSE
          /\ paused' = paused /\ overdue' = overdue
      BY <2>3 DEF Mature
    <3>3. ready' \in Nat
      BY <2>1, <3>2
    <3>4. delayed' \in BOOLEAN /\ paused' \in BOOLEAN /\ overdue' \in [Pullers -> BOOLEAN]
      BY <2>1, <3>2, Zenon
    <3> QED
      BY <3>1, <3>3, <3>4
  <2>4. ASSUME NEW c \in Pullers, DeadlinePasses(c)
        PROVE  /\ ready' \in Nat /\ delayed' \in BOOLEAN /\ paused' \in BOOLEAN
               /\ timer' \in [Pullers -> {"deadline", "nextRun", "due"}]
               /\ overdue' \in [Pullers -> BOOLEAN]
    BY <2>1, <2>4 DEF DeadlinePasses, jobVars
  <2> QED
    BY <2>2, <2>3, <2>4
<1>7. TypeOK'
  BY <1>1, <1>2, <1>6 DEF TypeOK, waiterVars
<1> QED
  BY <1>4, <1>5, <1>7 DEF IInv

\* What a notification does, whatever step it is part of.
LEMMA NotifyFacts ==
    ASSUME IInv, NEW n \in Nat, Notify(n), NEW step
    PROVE  /\ entries' \in Seq(Entries) /\ activeWaiters' \in Nat /\ pending' \in BOOLEAN
           /\ pc' \in [Pullers -> {"idle", "running", "served", "asleep"}]
           /\ timer' \in [Pullers -> {"deadline", "nextRun", "due"}] /\ overdue' = overdue
           /\ Waits(entries', activeWaiters', Sleepers') /\ PendingMeansNobodySleeps'
           /\ \A c \in Pullers : pc'[c] = pc[c] \/ Awake(c)'
           /\ Leaves(Wakes(n), step) /\ \A i \in DOMAIN Wakes(n) : WokenTask(Wakes(n)[i])
           /\ Holders(Wakes(n)) = {}
           /\ \A c \in Pullers : Awake(c) => NoneOf(Wakes(n), c)
<1>1. /\ TypeOK /\ Waits(entries, activeWaiters, Sleepers) /\ PendingMeansNobodySleeps
  BY DEF IInv
<1>2. /\ entries' \in Seq(Entries) /\ activeWaiters' \in Nat /\ pending' \in BOOLEAN
      /\ pc' \in [Pullers -> {"idle", "running", "served", "asleep"}]
      /\ timer' \in [Pullers -> {"deadline", "nextRun", "due"}] /\ overdue' = overdue
      /\ Waits(entries', activeWaiters', Sleepers') /\ PendingMeansNobodySleeps'
      /\ \A c \in Pullers : pc'[c] = IF \E i \in DOMAIN Woken(n) : Woken(n)[i] = c
                                     THEN "running" ELSE pc[c]
  BY <1>1, NotifyEffect
<1>3. Leaves(Wakes(n), step) /\ \A i \in DOMAIN Wakes(n) : WokenTask(Wakes(n)[i])
  BY <1>1, LeavesWakes
<1>4. \A c \in Pullers : pc'[c] = pc[c] \/ Awake(c)'
  BY <1>2 DEF Awake
<1>5. Holders(Wakes(n)) = {}
  BY <1>3 DEF Holders, WokenTask
<1>6. ASSUME NEW c \in Pullers, Awake(c)
      PROVE  NoneOf(Wakes(n), c)
  <2>1. c \notin Sleepers
    BY <1>6 DEF Awake, Sleepers
  <2> QED
    BY <1>3, <2>1, WokenPuller DEF NoneOf
<1> QED
  BY <1>2, <1>3, <1>4, <1>5, <1>6

LEMMA ResumeQueueKeeps ==
    ASSUME IInv, UNCHANGED hazards, ResumeQueue
    PROVE  IInv'
<1>1. /\ TypeOK /\ OneHolder /\ OnePlaceEach /\ SlotsInUse
  BY DEF IInv
<1>2. /\ paused' = FALSE /\ Notify(1) /\ tasks' = tasks \o Wakes(1)
      /\ ready' = ready /\ delayed' = delayed /\ active' = active /\ lock' = lock
  BY DEF ResumeQueue
<1>3. /\ entries' \in Seq(Entries) /\ activeWaiters' \in Nat /\ pending' \in BOOLEAN
      /\ pc' \in [Pullers -> {"idle", "running", "served", "asleep"}]
      /\ timer' \in [Pullers -> {"deadline", "nextRun", "due"}] /\ overdue' = overdue
      /\ Waits(entries', activeWaiters', Sleepers') /\ PendingMeansNobodySleeps'
      /\ \A c \in Pullers : pc'[c] = pc[c] \/ Awake(c)'
      /\ Leaves(Wakes(1), "again") /\ \A i \in DOMAIN Wakes(1) : WokenTask(Wakes(1)[i])
  BY <1>2, NotifyFacts
<1>4. tasks' \in Seq(Tasks) /\ GoesOn(0, Wakes(1)) /\ OneHolder' /\ OnePlaceEach'
  BY <1>1, <1>2, <1>3, LoopGrows DEF Leaves
<1>5. SlotsInUse'
  BY <1>1, <1>2, <1>4, LoopKeepsSlots
<1>6. paused' \in BOOLEAN
  BY <1>2, Zenon
<1>7. TypeOK'
  BY <1>1, <1>2, <1>3, <1>4, <1>6 DEF TypeOK
<1> QED
  BY <1>3, <1>4, <1>5, <1>7 DEF IInv

LEMMA PutBack ==
    ASSUME ready \in Nat, delayed \in BOOLEAN,
           \/ ready' = ready + 1 /\ delayed' = delayed
           \/ delayed' = TRUE /\ ready' = ready
    PROVE  ready' \in Nat /\ delayed' \in BOOLEAN
<1>1. ready' \in {ready, ready + 1} /\ delayed' \in {delayed, TRUE}
  BY Zenon
<1>2. ready' \in Nat
  BY <1>1
<1>3. delayed' \in BOOLEAN
  BY <1>1, Zenon
<1> QED
  BY <1>2, <1>3

LEMMA PushSectionKeeps ==
    ASSUME IInv, UNCHANGED hazards, PushSection
    PROVE  IInv'
<1>1. /\ TypeOK /\ OneHolder /\ OnePlaceEach /\ SlotsInUse
  BY DEF IInv
<1>2. /\ Runs("section", Pushes) /\ Notify(1) /\ Release /\ Continue(Wakes(1) \o Handover)
      /\ active' = active /\ paused' = paused
      /\ \/ ready' = ready + 1 /\ delayed' = delayed
         \/ delayed' = TRUE /\ ready' = ready
  BY DEF PushSection
<1>3. "section" \in Holding
  BY DEF Holding
<1>4. lock # <<>> /\ Now.op \in Pushes
  BY <1>1, <1>2, <1>3, RunsFacts
<1>5. /\ entries' \in Seq(Entries) /\ activeWaiters' \in Nat /\ pending' \in BOOLEAN
      /\ pc' \in [Pullers -> {"idle", "running", "served", "asleep"}]
      /\ timer' \in [Pullers -> {"deadline", "nextRun", "due"}] /\ overdue' = overdue
      /\ Waits(entries', activeWaiters', Sleepers') /\ PendingMeansNobodySleeps'
      /\ \A c \in Pullers : pc'[c] = pc[c] \/ Awake(c)'
      /\ Leaves(Wakes(1), "section") /\ Holders(Wakes(1)) = {}
      /\ \A c \in Pullers : Awake(c) => NoneOf(Wakes(1), c)
  BY <1>2, NotifyFacts
<1>6. /\ Leaves(Handover, "section")
      /\ \A c \in Pullers : (\A k \in DOMAIN lock : ~InLineOf(k, c)) => NoneOf(Handover, c)
  BY <1>1, <1>2, <1>3, <1>4, LeavesHandover
<1>7. \A c \in Pullers : NoneOf(Wakes(1), c) \/ NoneOf(Handover, c)
  BY <1>1, <1>5, <1>6 DEF OnePlaceEach, PlaceOf
<1>8. Leaves(Wakes(1) \o Handover, "section")
  BY <1>5, <1>6, <1>7, LeavesBoth
<1>9. tasks' \in Seq(Tasks) /\ lock' \in Seq(Handlers) /\ OneHolder' /\ OnePlaceEach'
  BY <1>1, <1>2, <1>3, <1>5, <1>8, MovesOn
<1>10. SlotsInUse'
  <2>1. Now.op \notin Releases
    BY <1>4 DEF Pushes, Releases, Silent
  <2> QED
    BY <1>1, <1>2, <1>3, <2>1, ReleasingKeepsSlots
<1>11. ready' \in Nat /\ delayed' \in BOOLEAN
  BY <1>1, <1>2, PutBack DEF TypeOK
<1>12. TypeOK'
  BY <1>1, <1>2, <1>5, <1>9, <1>11 DEF TypeOK
<1> QED
  BY <1>5, <1>9, <1>10, <1>12 DEF IInv

LEMMA BatchSize ==
    ASSUME NEW h \in Handlers, h.op = "batch"
    PROVE  h.arg \in Nat
BY DEF Handlers, Pushes, Releases, Silent

LEMMA BatchSectionKeeps ==
    ASSUME IInv, UNCHANGED hazards, BatchSection
    PROVE  IInv'
<1> DEFINE t == Task("notify", Now)
<1>1. /\ TypeOK /\ OneHolder /\ OnePlaceEach /\ SlotsInUse /\ PendingMeansNobodySleeps
      /\ Waits(entries, activeWaiters, Sleepers)
  BY DEF IInv
<1>2. /\ Runs("section", {"batch"}) /\ ready' = ready + Now.arg
      /\ Release /\ Continue(Handover \o <<t>>)
      /\ UNCHANGED <<delayed, active, paused, waiterVars, pullerVars>>
  BY DEF BatchSection
<1>3. "section" \in Holding
  BY DEF Holding
<1>4. lock # <<>> /\ Now \in Handlers /\ Now.op = "batch" /\ Now.arg \in Nat
      /\ \A c \in Pullers : Now # Call("pull", c)
  <2>1. lock # <<>> /\ Now \in Handlers /\ Now.op = "batch"
    BY <1>1, <1>2, <1>3, RunsFacts
  <2>2. Now.arg \in Nat
    BY <2>1, BatchSize
  <2> QED
    BY <2>1, <2>2 DEF Call
<1>5. t \in Tasks /\ t.step \notin Holding /\ t.handler = Now
  BY <1>4 DEF Task, Tasks, Holding
<1> HIDE DEF t
<1>6. Leaves(<<t>>, "section")
  BY <1>5, LeavesOwn DEF OwnTask
<1>7. Holders(<<t>>) = {} /\ \A c \in Pullers : NoneOf(<<t>>, c)
  BY <1>4, <1>5 DEF Holders, NoneOf
<1>8. Leaves(Handover, "section")
  BY <1>1, <1>2, <1>3, <1>4, LeavesHandover
<1>9. Leaves(Handover \o <<t>>, "section")
  BY <1>6, <1>7, <1>8, LeavesBoth
<1>10. tasks' \in Seq(Tasks) /\ lock' \in Seq(Handlers) /\ OneHolder' /\ OnePlaceEach'
  BY <1>1, <1>2, <1>3, <1>9, MovesOn DEF pullerVars
<1>11. SlotsInUse'
  <2>1. Now.op \notin Releases
    BY <1>4 DEF Releases, Silent
  <2> QED
    BY <1>1, <1>2, <1>3, <2>1, ReleasingKeepsSlots
<1>12. Sleepers' = Sleepers
  BY <1>2 DEF Sleepers, pullerVars
<1>13. Waits(entries', activeWaiters', Sleepers') /\ PendingMeansNobodySleeps'
  BY <1>1, <1>2, <1>12, WaitersKept
<1>14. ready' \in Nat
  BY <1>1, <1>2, <1>4 DEF TypeOK
<1>15. TypeOK'
  BY <1>1, <1>2, <1>10, <1>14 DEF TypeOK, waiterVars, pullerVars
<1> QED
  BY <1>10, <1>11, <1>13, <1>15 DEF IInv

LEMMA NotifyBatchKeeps ==
    ASSUME IInv, UNCHANGED hazards, NotifyBatch
    PROVE  IInv'
<1> DEFINE n == Now.arg
<1>1. /\ TypeOK /\ OneHolder /\ OnePlaceEach /\ SlotsInUse
  BY DEF IInv
<1>2. /\ Runs("notify", {"batch"}) /\ Notify(n) /\ Continue(Wakes(n))
      /\ UNCHANGED <<jobVars, lock>> /\ "notify" \notin Holding
  BY DEF NotifyBatch, Holding
<1>3. n \in Nat
  <2>1. Now \in Handlers /\ Now.op = "batch"
    BY <1>1, <1>2, RunsFacts
  <2> QED
    BY <2>1, BatchSize
<1> HIDE DEF n
<1>4. /\ entries' \in Seq(Entries) /\ activeWaiters' \in Nat /\ pending' \in BOOLEAN
      /\ pc' \in [Pullers -> {"idle", "running", "served", "asleep"}]
      /\ timer' \in [Pullers -> {"deadline", "nextRun", "due"}] /\ overdue' = overdue
      /\ Waits(entries', activeWaiters', Sleepers') /\ PendingMeansNobodySleeps'
      /\ \A c \in Pullers : pc'[c] = pc[c] \/ Awake(c)'
      /\ Leaves(Wakes(n), "notify")
  BY <1>2, <1>3, NotifyFacts
<1>5. tasks' \in Seq(Tasks) /\ lock' \in Seq(Handlers) /\ OneHolder' /\ OnePlaceEach' /\ GoesOn(1, Wakes(n))
  BY <1>1, <1>2, <1>4, MovesOn
<1>6. SlotsInUse'
  <2>1. active' = active /\ active \in Nat /\ active <= Limit
    BY <1>1, <1>2 DEF TypeOK, SlotsInUse, jobVars
  <2> QED
    BY <1>1, <1>2, <1>5, <2>1, TakingKeepsSlots
<1>7. TypeOK'
  BY <1>1, <1>2, <1>4, <1>5 DEF TypeOK, jobVars
<1> QED
  BY <1>4, <1>5, <1>6, <1>7 DEF IInv

\* A call that gives back a slot releases the lock in a microtask of its own.
LEMMA LeavesRelease ==
    ASSUME TypeOK, OneHolder, OnePlaceEach, NEW ops, ops \subseteq Releases, Runs("section", ops),
           lock' = lock
    PROVE  /\ Leaves(<<Task("release", Now)>>, "section")
           /\ <<Task("release", Now)>>[1].step = "release"
           /\ \A c \in Pullers : NoneOf(<<Task("release", Now)>>, c)
           /\ \A w \in Seq(Tasks) : Leaves(w, "section") /\ Holders(w) = {} =>
                 /\ Leaves(w \o <<Task("release", Now)>>, "section")
                 /\ \E k \in DOMAIN (w \o <<Task("release", Now)>>) :
                       (w \o <<Task("release", Now)>>)[k].step = "release"
<1> DEFINE t == Task("release", Now)
<1>1. Now \in Handlers /\ Now = lock[1] /\ Now.op \in Releases
  <2>1. "section" \in Holding
    BY DEF Holding
  <2> QED
    BY <2>1, RunsFacts
<1>2. t \in Tasks /\ t.step = "release" /\ t.handler = Now
  BY <1>1 DEF Task, Tasks
<1>3. \A c \in Pullers : Now # Call("pull", c)
  BY <1>1 DEF Call, Releases, Silent
<1> HIDE DEF t
<1>4. Leaves(<<t>>, "section")
  BY <1>1, <1>2, LeavesOwn DEF OwnTask, Holding
<1>5. \A c \in Pullers : NoneOf(<<t>>, c)
  BY <1>2, <1>3 DEF NoneOf
<1>6. ASSUME NEW w \in Seq(Tasks), Leaves(w, "section"), Holders(w) = {}
      PROVE  /\ Leaves(w \o <<t>>, "section")
             /\ \E k \in DOMAIN (w \o <<t>>) : (w \o <<t>>)[k].step = "release"
  <2>1. Leaves(w \o <<t>>, "section")
    BY <1>4, <1>5, <1>6, LeavesBoth
  <2>2. (w \o <<t>>)[Len(w) + 1] = t /\ Len(w) + 1 \in DOMAIN (w \o <<t>>)
    <3>1. <<t>> \in Seq(Tasks) /\ Len(<<t>>) = 1 /\ <<t>>[1] = t /\ Len(w) \in Nat
      BY <1>2
    <3>2. /\ DOMAIN (w \o <<t>>) = 1..(Len(w) + 1)
          /\ \A i \in 1..(Len(w) + 1) : (w \o <<t>>)[i] = IF i <= Len(w) THEN w[i] ELSE <<t>>[i - Len(w)]
      BY <3>1, ConcatProperties
    <3> QED
      BY <3>1, <3>2
  <2> QED
    BY <1>2, <2>1, <2>2
<1> QED
  BY <1>2, <1>4, <1>5, <1>6 DEF t

LEMMA AckOrRetryKeeps ==
    ASSUME IInv, UNCHANGED hazards, AckSection \/ RetrySection
    PROVE  IInv'
<1> DEFINE next == Wakes(1) \o <<Task("release", Now)>>
<1>1. /\ TypeOK /\ OneHolder /\ OnePlaceEach /\ SlotsInUse
  BY DEF IInv
<1>2. PICK ops \in {{"ack"}, {"retry", "retryLater"}} : Runs("section", ops)
  BY DEF AckSection, RetrySection
<1>3. /\ Notify(1) /\ Continue(next)
      /\ active' = active - 1 /\ paused' = paused /\ lock' = lock
  BY DEF AckSection, RetrySection
<1>4. ready' \in Nat /\ delayed' \in BOOLEAN
  <2>1. \/ ready' = ready /\ delayed' = delayed
        \/ ready' = ready + 1 /\ delayed' = delayed
        \/ delayed' = TRUE /\ ready' = ready
    BY DEF AckSection, RetrySection
  <2> QED
    BY <1>1, <2>1, PutBack DEF TypeOK
<1>5. /\ entries' \in Seq(Entries) /\ activeWaiters' \in Nat /\ pending' \in BOOLEAN
      /\ pc' \in [Pullers -> {"idle", "running", "served", "asleep"}]
      /\ timer' \in [Pullers -> {"deadline", "nextRun", "due"}] /\ overdue' = overdue
      /\ Waits(entries', activeWaiters', Sleepers') /\ PendingMeansNobodySleeps'
      /\ \A c \in Pullers : pc'[c] = pc[c] \/ Awake(c)'
      /\ Leaves(Wakes(1), "section") /\ Holders(Wakes(1)) = {}
  BY <1>3, NotifyFacts
<1>6. ops \subseteq Releases
  BY <1>2 DEF Releases
<1>7. Leaves(next, "section") /\ \E k \in DOMAIN next : next[k].step = "release"
  BY <1>1, <1>2, <1>3, <1>5, <1>6, LeavesRelease DEF Leaves
<1> HIDE DEF next
<1>8. tasks' \in Seq(Tasks) /\ lock' \in Seq(Handlers) /\ OneHolder' /\ OnePlaceEach' /\ GoesOn(1, next)
  BY <1>1, <1>2, <1>3, <1>5, <1>7, MovesOn
<1>9. active' \in Nat /\ SlotsInUse'
  BY <1>1, <1>2, <1>3, <1>6, <1>7, <1>8, GivingBackKeepsSlots
<1>10. TypeOK'
  BY <1>1, <1>3, <1>4, <1>5, <1>8, <1>9 DEF TypeOK
<1> QED
  BY <1>5, <1>8, <1>9, <1>10 DEF IInv

LEMMA SilentSectionKeeps ==
    ASSUME IInv, UNCHANGED hazards, SilentSection
    PROVE  IInv'
<1> DEFINE next == <<Task("release", Now)>>
<1>1. /\ TypeOK /\ OneHolder /\ OnePlaceEach /\ SlotsInUse /\ PendingMeansNobodySleeps
      /\ Waits(entries, activeWaiters, Sleepers)
  BY DEF IInv
<1>2. /\ Runs("section", Silent) /\ Continue(next) /\ active' = active - 1
      /\ UNCHANGED <<paused, waiterVars, lock, pullerVars>>
  BY DEF SilentSection
<1>3. ready' \in Nat /\ delayed' \in BOOLEAN
  <2>1. ready' \in {ready, ready + 1}
    BY DEF SilentSection
  <2>2. delayed' \in BOOLEAN
    BY Zenon DEF SilentSection
  <2> QED
    BY <1>1, <2>1, <2>2 DEF TypeOK
<1>4. Silent \subseteq Releases
  BY DEF Releases
<1>5. Leaves(next, "section") /\ next[1].step = "release"
  BY <1>1, <1>2, <1>4, LeavesRelease
<1>6. 1 \in DOMAIN next
  OBVIOUS
<1> HIDE DEF next
<1>7. tasks' \in Seq(Tasks) /\ lock' \in Seq(Handlers) /\ OneHolder' /\ OnePlaceEach' /\ GoesOn(1, next)
  BY <1>1, <1>2, <1>5, MovesOn DEF pullerVars
<1>8. active' \in Nat /\ SlotsInUse'
  BY <1>1, <1>2, <1>4, <1>5, <1>6, <1>7, GivingBackKeepsSlots
<1>9. Sleepers' = Sleepers
  BY <1>2 DEF Sleepers, pullerVars
<1>10. Waits(entries', activeWaiters', Sleepers') /\ PendingMeansNobodySleeps'
  BY <1>1, <1>2, <1>9, WaitersKept
<1>11. TypeOK'
  BY <1>1, <1>2, <1>3, <1>7, <1>8 DEF TypeOK, waiterVars, pullerVars
<1> QED
  BY <1>7, <1>8, <1>10, <1>11 DEF IInv

-----------------------------------------------------------------------------
(***************************************************************************)
(* The theorems.                                                           *)
(***************************************************************************)

LEMMA InitInv ==
    ASSUME Init
    PROVE  IInv
<1>1. Sleepers = {} /\ LiveIn(<<>>) = {} /\ DOMAIN <<>> = {}
  BY DEF Init, Sleepers, LiveIn
<1>2. TypeOK
  <2>1. delayed \in BOOLEAN /\ paused \in BOOLEAN /\ pending \in BOOLEAN
    BY Zenon DEF Init
  <2>2. /\ pc \in [Pullers -> {"idle", "running", "served", "asleep"}]
        /\ timer \in [Pullers -> {"deadline", "nextRun", "due"}]
        /\ overdue \in [Pullers -> BOOLEAN]
    BY DEF Init
  <2>3. /\ hazards \in HazardSets /\ ready \in Nat /\ active \in Nat /\ activeWaiters \in Nat
        /\ entries \in Seq(Entries) /\ tasks \in Seq(Tasks) /\ lock \in Seq(Handlers)
    BY DEF Init
  <2> QED
    BY <2>1, <2>2, <2>3 DEF TypeOK
<1>3. Waits(entries, activeWaiters, Sleepers) /\ PendingMeansNobodySleeps
  BY <1>1, FS_EmptySet DEF Init, Waits, PendingMeansNobodySleeps
<1>4. OneHolder /\ OnePlaceEach
  BY DEF Init, OneHolder, Holders, OnePlaceEach, PlaceOf, TaskOf, InLineOf
<1>5. SlotsInUse
  <2>1. Due = {}
    BY DEF Init, Due, InLine
  <2> QED
    BY <2>1, FS_EmptySet, CountAssumption DEF Init, SlotsInUse
<1> QED
  BY <1>2, <1>3, <1>4, <1>5 DEF IInv

LEMMA StandStill ==
    ASSUME IInv, UNCHANGED vars
    PROVE  IInv'
<1>1. UNCHANGED <<hazards, ready, delayed, active, paused, entries, activeWaiters, pending,
                  tasks, lock, pc, timer, overdue>>
  BY DEF vars, broker, jobVars, waiterVars, pullerVars
<1>2. TypeOK' /\ Waits(entries', activeWaiters', Sleepers') /\ PendingMeansNobodySleeps'
  BY <1>1 DEF IInv, TypeOK, Sleepers, PendingMeansNobodySleeps
<1>3. OneHolder' /\ OnePlaceEach'
  BY <1>1 DEF IInv, OneHolder, OnePlaceEach, PlaceOf, TaskOf, InLineOf, Awake
<1>4. SlotsInUse'
  BY <1>1 DEF IInv, SlotsInUse, Due, InLine
<1> QED
  BY <1>2, <1>3, <1>4 DEF IInv

LEMMA NextInv ==
    ASSUME IInv, Next
    PROVE  IInv'
<1>1. UNCHANGED hazards /\ Steps
  BY DEF Next
<1>2. CASE Microtask
  BY <1>1, <1>2, PullSectionKeeps, ReleaseSectionKeeps, AwaitKeeps, ReturnFromPullKeeps,
     WaitForJobKeeps, TryAgainKeeps, PushSectionKeeps, BatchSectionKeeps, NotifyBatchKeeps,
     AckOrRetryKeeps, SilentSectionKeeps
     DEF Microtask
<1>3. ASSUME NEW c \in Pullers, Pull(c) \/ Timeout(c) \/ Abort(c) \/ DeadlinePasses(c)
      PROVE  IInv'
  BY <1>1, <1>3, PullKeeps, TimeoutKeeps, AbortKeeps, TimeKeeps
<1>4. ASSUME NEW h \in Handlers, CallsComeIn(h)
      PROVE  IInv'
  BY <1>1, <1>4, CallsComeInKeeps
<1>5. CASE PauseQueue \/ ResumeQueue \/ Mature
  BY <1>1, <1>5, TimeKeeps, ResumeQueueKeeps
<1> QED
  BY <1>1, <1>2, <1>3, <1>4, <1>5 DEF Steps

\* The invariant holds in every state: the waiters and the count, one handler
\* in the lock, every puller in one place, no slot given back twice.
THEOREM Invariance == Spec => []IInv
<1>1. Init => IInv
  BY InitInv
<1>2. IInv /\ [Next]_vars => IInv'
  BY NextInv, StandStill
<1> QED
  BY <1>1, <1>2, PTL DEF Spec

\* The state is typed, and the count of waiters is that of the live entries,
\* which are the sleepers: the loop of notifyQueue finds an entry for each
\* waiter that it counts.
THEOREM WaitersCounted == Spec => []ActiveCountsLive
<1>1. IInv => ActiveCountsLive
  BY DEF IInv, ActiveCountsLive, Waits, Live, LiveIn
<1> QED
  BY <1>1, Invariance, PTL

\* No puller sleeps beside a set pending bit, in whatever order tries,
\* notifications, timers and closing connections come.
THEOREM PendingIsUsed == Spec => []PendingMeansNobodySleeps
<1>1. IInv => PendingMeansNobodySleeps
  BY DEF IInv
<1> QED
  BY <1>1, Invariance, PTL

\* Single and batch pulls together stay within the concurrency limit.
THEOREM LimitHolds == Spec => []ActiveWithinLimit
<1>1. IInv => ActiveWithinLimit
  BY DEF IInv, SlotsInUse, ActiveWithinLimit
<1> QED
  BY <1>1, Invariance, PTL

-----------------------------------------------------------------------------
(***************************************************************************)
(* Wake-ups.  Between a try that failed and the sleep that follows it a    *)
(* puller is in the gap.  Each job that could be taken is promised: to a   *)
(* puller on its way to the lock, or by a batch to be announced.  Who is   *)
(* in the gap counts on the pending bit, which is one notification.  It    *)
(* is enough because two pullers are in the gap only while one job at most *)
(* can be taken, and that is a matter of the order of the microtasks.      *)
(*                                                                         *)
(* A delayed job is promised like the others when it is pushed.  The       *)
(* puller that it has woken, and finds it not due, leaves the promise to   *)
(* its timer: one job may be promised by the timer of the last that goes   *)
(* to sleep.  Notifications take the oldest first, so as long as anybody   *)
(* sleeps that timer is set.                                               *)
(***************************************************************************)

\* While wake-ups are promised the queue is not paused and no slot is given up
\* in silence; and either no job is delayed, or no poll that sleeps is over.
NothingElse ==
    /\ ~paused /\ \A i \in DOMAIN lock : lock[i].op \notin Silent
    /\ IF "leave" \in hazards
       THEN /\ ~delayed /\ \A i \in DOMAIN lock : lock[i].op \notin Delays
            /\ \A c \in Pullers : timer[c] = "deadline"
       ELSE \A c \in Sleepers : ~overdue[c]

\* A handler that has the lock has a microtask.
LockRuns == lock # <<>> => Holders(tasks) # {}

\* One failed try at a time is on its way to its decision, and one decision is
\* to come.  Both at once come before the next section.
InOrder(q) ==
    \A i, j \in DOMAIN q :
        /\ q[i].step = "tried" =>
              /\ q[j].step = "tried" => i = j
              /\ q[j].step = "release" => i < j
        /\ q[i].step = "decide" =>
              /\ q[j].step = "decide" => i = j
              /\ q[j].step = "tried" =>
                    i < j /\ \A k \in Holders(q) : i < k

\* Who is on its way to the lock, and who is in the gap.  A poll that does not
\* wait is not counted when jobs may be delayed: it would not set its timer.
ToTheLock == {"section", "woken", "again"}
AfterTheTry == {"release", "tried", "decide"}
Stays(c) == "leave" \in hazards \/ ~overdue[c]
OnTheWay(c) ==
    \/ \E i \in DOMAIN tasks : TaskOf(i, c) /\ tasks[i].step \in ToTheLock
    \/ \E i \in DOMAIN lock : InLineOf(i, c)
InGap(c, step) == \E i \in DOMAIN tasks : TaskOf(i, c) /\ tasks[i].step = step
Coming == {c \in Pullers : Stays(c) /\ pc[c] = "running" /\ OnTheWay(c)}
Gap == {c \in Pullers : Stays(c) /\ pc[c] = "running" /\ \E step \in AfterTheTry : InGap(c, step)}

\* The last of those in the gap, or else of the sleepers, has its timer in S.
Earlier == {<<"decide", "tried">>, <<"decide", "release">>, <<"tried", "release">>}
Precedes(b, c) == \E p \in Earlier : InGap(b, p[1]) /\ InGap(c, p[2])
LastInGap(S) == \E c \in Gap : timer[c] \in S /\ \A b \in Gap \ {c} : Precedes(b, c)
Youngest(S) ==
    \E i \in LiveIn(entries) :
        timer[entries[i].puller] \in S /\ \A k \in LiveIn(entries) : k <= i
Last(S) == LastInGap(S) \/ (Gap = {} /\ Youngest(S))
Told == {"nextRun", "due"}

\* The notifications of the batches that are not announced yet, one by one.
Announced(q) == {p \in (DOMAIN q) \X (1..MaxBatch) :
    q[p[1]].step = "notify" /\ q[p[1]].handler.op = "batch" /\ p[2] <= q[p[1]].handler.arg}

\* What can be taken, now and when the delayed job is due.
Takeable == Smaller(ready, Limit - active)
TakeableSoon == Smaller(ready + (IF delayed THEN 1 ELSE 0), Limit - active)
Promises == Cardinality(Coming) + Cardinality(Announced(tasks))
Enough ==
    \/ TakeableSoon <= Promises
    \/ /\ TakeableSoon <= Promises + 1 /\ Last(Told)
       /\ Takeable <= Promises \/ Last({"due"})
Promised ==
    /\ Sleepers # {} => Enough
    /\ Gap # {} /\ ~pending => Enough
    /\ \A b, c \in Gap : b # c => TakeableSoon <= 1

WInv == IInv /\ LockRuns /\ InOrder(tasks) /\ (WakeupsPromised => NothingElse /\ Promised)

-----------------------------------------------------------------------------
(***************************************************************************)
(* The notifications of the batches.                                       *)
(***************************************************************************)

LEMMA AnnouncedFinite ==
    ASSUME NEW q \in Seq(Tasks)
    PROVE  IsFiniteSet(Announced(q)) /\ Cardinality(Announced(q)) \in Nat
<1>1. DOMAIN q = 1..Len(q) /\ Len(q) \in Nat /\ MaxBatch \in Nat
  BY BoundsAssumption
<1>2. IsFiniteSet(DOMAIN q) /\ IsFiniteSet(1..MaxBatch)
  BY <1>1, FS_Interval
<1>3. IsFiniteSet((DOMAIN q) \X (1..MaxBatch))
  BY <1>2, FS_Product
<1>4. Announced(q) \in SUBSET ((DOMAIN q) \X (1..MaxBatch))
  BY DEF Announced
<1>5. IsFiniteSet(Announced(q))
  BY <1>3, <1>4, FS_Subset
<1> QED
  BY <1>5, FS_CardinalityType

LEMMA AnnouncedJoin ==
    ASSUME NEW q \in Seq(Tasks), NEW r \in Seq(Tasks)
    PROVE  Cardinality(Announced(q \o r)) = Cardinality(Announced(q)) + Cardinality(Announced(r))
<1> DEFINE s == q \o r
           f == [p \in Announced(r) |-> <<p[1] + Len(q), p[2]>>]
           B == {f[p] : p \in Announced(r)}
<1>1. /\ Len(q) \in Nat /\ Len(r) \in Nat /\ DOMAIN q = 1..Len(q) /\ DOMAIN r = 1..Len(r)
      /\ DOMAIN s = 1..(Len(q) + Len(r))
      /\ \A i \in DOMAIN s : s[i] = IF i <= Len(q) THEN q[i] ELSE r[i - Len(q)]
  BY ConcatProperties
<1> HIDE DEF s
<1>2. \A p \in Announced(r) : /\ p = <<p[1], p[2]>> /\ p[1] \in 1..Len(r)
                              /\ f[p] = <<p[1] + Len(q), p[2]>>
  BY <1>1 DEF Announced
<1>3. ASSUME NEW p \in Announced(r), NEW o \in Announced(r), f[p] = f[o]
      PROVE  p = o
  <2> HIDE DEF f
  <2>1. p[1] + Len(q) = o[1] + Len(q) /\ p[2] = o[2]
    BY <1>2, <1>3
  <2>2. p[1] \in 1..Len(r) /\ o[1] \in 1..Len(r)
    BY <1>2
  <2>3. p[1] = o[1]
    BY <1>1, <2>1, <2>2
  <2> QED
    BY <1>2, <2>1, <2>3
<1>4. ExistsBijection(Announced(r), B)
  <2>1. f \in [Announced(r) -> B] /\ \A b \in B : \E p \in Announced(r) : f[p] = b
    OBVIOUS
  <2> HIDE DEF f, B
  <2>2. f \in Bijection(Announced(r), B)
    BY <1>3, <2>1, Zenon DEF Bijection, Injection, IsInjective, Surjection
  <2> QED
    BY <2>2, Zenon DEF ExistsBijection
<1>5. IsFiniteSet(B) /\ Cardinality(B) = Cardinality(Announced(r))
  BY <1>4, AnnouncedFinite, FS_Bijection
<1>6. Announced(s) = Announced(q) \cup B
  <2>1. ASSUME NEW p \in Announced(s), p[1] > Len(q)
        PROVE  p \in B
    <3> DEFINE o == <<p[1] - Len(q), p[2]>>
    <3>1. /\ p = <<p[1], p[2]>> /\ p[1] \in DOMAIN s /\ p[2] \in 1..MaxBatch
          /\ s[p[1]].step = "notify" /\ s[p[1]].handler.op = "batch" /\ p[2] <= s[p[1]].handler.arg
      BY DEF Announced
    <3>2. p[1] - Len(q) \in DOMAIN r /\ s[p[1]] = r[p[1] - Len(q)] /\ (p[1] - Len(q)) + Len(q) = p[1]
      BY <1>1, <2>1, <3>1
    <3>3. o \in (DOMAIN r) \X (1..MaxBatch) /\ o[1] = p[1] - Len(q) /\ o[2] = p[2]
      BY <3>1, <3>2
    <3>4. o \in Announced(r)
      BY <3>1, <3>2, <3>3 DEF Announced
    <3>5. f[o] = p
      BY <1>2, <3>1, <3>2, <3>3, <3>4
    <3> QED
      BY <3>4, <3>5
  <2>2. ASSUME NEW p \in Announced(s), ~(p[1] > Len(q))
        PROVE  p \in Announced(q)
    <3>1. p \in (DOMAIN q) \X (1..MaxBatch) /\ s[p[1]] = q[p[1]]
      BY <1>1, <2>2 DEF Announced
    <3> QED
      BY <3>1 DEF Announced
  <2>3. ASSUME NEW p \in Announced(q)
        PROVE  p \in Announced(s)
    <3>1. p \in (DOMAIN s) \X (1..MaxBatch) /\ s[p[1]] = q[p[1]]
      BY <1>1 DEF Announced
    <3> QED
      BY <3>1 DEF Announced
  <2>4. ASSUME NEW o \in Announced(r)
        PROVE  f[o] \in Announced(s)
    <3>1. /\ o[1] \in 1..Len(r) /\ o[2] \in 1..MaxBatch
          /\ r[o[1]].step = "notify" /\ r[o[1]].handler.op = "batch" /\ o[2] <= r[o[1]].handler.arg
      BY <1>1 DEF Announced
    <3>2. o[1] + Len(q) \in DOMAIN s /\ s[o[1] + Len(q)] = r[o[1]]
      BY <1>1, <3>1
    <3>3. f[o] = <<o[1] + Len(q), o[2]>>
      BY <1>2
    <3> HIDE DEF f
    <3> QED
      BY <3>1, <3>2, <3>3 DEF Announced
  <2> QED
    BY <2>1, <2>2, <2>3, <2>4
<1>7. Announced(q) \cap B = {}
  <2>1. \A b \in B : b[1] > Len(q)
    BY <1>1, <1>2
  <2> HIDE DEF B
  <2>2. \A p \in Announced(q) : p[1] \in 1..Len(q)
    BY <1>1 DEF Announced
  <2> QED
    BY <1>1, <2>1, <2>2
<1>8. IsFiniteSet(Announced(q)) /\ Cardinality(Announced(q)) \in Nat /\ Cardinality(Announced(r)) \in Nat
  BY AnnouncedFinite
<1> HIDE DEF B
<1>9. Cardinality(Announced(s)) = Cardinality(Announced(q)) + Cardinality(B) - Cardinality({})
  BY <1>5, <1>6, <1>7, <1>8, FS_Union
<1> QED
  BY <1>5, <1>8, <1>9, FS_EmptySet DEF s

\* A batch is promised as many notifications as it has jobs.
LEMMA AnnouncedOne ==
    ASSUME NEW t \in Tasks
    PROVE  Cardinality(Announced(<<t>>)) =
              IF t.step = "notify" /\ t.handler.op = "batch" THEN t.handler.arg ELSE 0
<1>1. <<t>>[1] = t /\ DOMAIN <<t>> = {1}
  OBVIOUS
<1>2. CASE t.step = "notify" /\ t.handler.op = "batch"
  <2>1. t.handler.arg \in 2..MaxBatch /\ MaxBatch \in Nat
    <3>1. t.handler \in Handlers
      <4> HIDE DEF Handlers
      <4> QED
        BY DEF Tasks
    <3> QED
      BY <1>2, <3>1, BoundsAssumption DEF Handlers, Pushes, Releases, Silent
  <2> DEFINE n == t.handler.arg
             f == [k \in 1..n |-> <<1, k>>]
  <2> HIDE DEF n
  <2>2. Announced(<<t>>) = {<<1, k>> : k \in 1..n}
    <3>1. ASSUME NEW k \in 1..n
          PROVE  <<1, k>> \in Announced(<<t>>)
      <4>1. <<1, k>> \in {1} \X (1..MaxBatch) /\ <<1, k>>[1] = 1 /\ <<1, k>>[2] = k /\ k <= n
        BY <2>1 DEF n
      <4> QED
        BY <1>1, <1>2, <4>1 DEF Announced, n
    <3>2. ASSUME NEW p \in Announced(<<t>>)
          PROVE  p = <<1, p[2]>> /\ p[2] \in 1..n
      BY <1>1, <2>1 DEF Announced, n
    <3> QED
      BY <3>1, <3>2
  <2>3. f \in [1..n -> Announced(<<t>>)] /\ \A k, m \in 1..n : f[k] = f[m] => k = m
    BY <2>2
  <2>4. \A p \in Announced(<<t>>) : \E k \in 1..n : f[k] = p
    BY <2>2
  <2> HIDE DEF f
  <2>5. f \in Bijection(1..n, Announced(<<t>>))
    BY <2>3, <2>4, Zenon DEF Bijection, Injection, IsInjective, Surjection
  <2>6. ExistsBijection(1..n, Announced(<<t>>))
    BY <2>5, Zenon DEF ExistsBijection
  <2>7. n \in Nat
    BY <2>1 DEF n
  <2> QED
    BY <1>2, <2>6, <2>7, FS_CountingElements DEF n
<1>3. CASE ~(t.step = "notify" /\ t.handler.op = "batch")
  <2>1. Announced(<<t>>) = {}
    BY <1>1, <1>3 DEF Announced
  <2> QED
    BY <1>3, <2>1, FS_EmptySet
<1> QED
  BY <1>2, <1>3

\* What a microtask announces is done, what it leaves behind is promised.
LEMMA AnnouncedAfter ==
    ASSUME tasks \in Seq(Tasks), tasks # <<>>, NEW next \in Seq(Tasks), Continue(next)
    PROVE  Cardinality(Announced(tasks)') =
              Cardinality(Announced(tasks)) - Cardinality(Announced(<<Head(tasks)>>))
                  + Cardinality(Announced(next))
<1>1. Head(tasks) \in Tasks /\ Tail(tasks) \in Seq(Tasks) /\ <<Head(tasks)>> \in Seq(Tasks)
  BY HeadTailProperties
<1>2. tasks = <<Head(tasks)>> \o Tail(tasks)
  <2>1. /\ Len(Tail(tasks)) = Len(tasks) - 1 /\ Len(tasks) \in Nat /\ Len(tasks) > 0
        /\ \A i \in 1..Len(Tail(tasks)) : Tail(tasks)[i] = tasks[i + 1]
        /\ Head(tasks) = tasks[1]
    BY HeadTailProperties
  <2>2. Len(<<Head(tasks)>>) = 1 /\ <<Head(tasks)>>[1] = tasks[1]
    BY <2>1
  <2> DEFINE s == <<Head(tasks)>> \o Tail(tasks)
  <2>3. /\ s \in Seq(Tasks) /\ Len(s) = Len(tasks)
        /\ \A i \in 1..Len(s) : s[i] = IF i <= 1 THEN <<Head(tasks)>>[i] ELSE Tail(tasks)[i - 1]
    BY <1>1, <2>1, <2>2, ConcatProperties
  <2> HIDE DEF s
  <2>4. \A i \in 1..Len(tasks) : s[i] = tasks[i]
    <3>1. \A i \in 1..Len(tasks) : i = 1 \/ (i - 1 \in 1..Len(Tail(tasks)) /\ (i - 1) + 1 = i /\ ~(i <= 1))
      BY <2>1
    <3> QED
      BY <2>1, <2>2, <2>3, <3>1
  <2>5. s = tasks
    BY <2>3, <2>4
  <2> QED
    BY <2>5 DEF s
<1>3. Cardinality(Announced(tasks)) = Cardinality(Announced(<<Head(tasks)>>)) + Cardinality(Announced(Tail(tasks)))
  BY <1>1, <1>2, AnnouncedJoin
<1>4. Cardinality(Announced(Tail(tasks) \o next)) = Cardinality(Announced(Tail(tasks))) + Cardinality(Announced(next))
  BY <1>1, AnnouncedJoin
<1>5. Announced(tasks)' = Announced(Tail(tasks) \o next)
  BY DEF Continue, Announced
<1>6. /\ Cardinality(Announced(Tail(tasks))) \in Nat /\ Cardinality(Announced(next)) \in Nat
      /\ Cardinality(Announced(<<Head(tasks)>>)) \in Nat
  BY <1>1, AnnouncedFinite
<1> QED
  BY <1>3, <1>4, <1>5, <1>6

-----------------------------------------------------------------------------
(***************************************************************************)
(* The order of the microtasks.                                            *)
(***************************************************************************)

\* A task was there before, or is new: then it comes later.
Old(d, i) == i + d \in DOMAIN tasks /\ tasks'[i] = tasks[i + d]
New(d, next, i) == \E k \in DOMAIN next : i = Len(tasks) - d + k /\ tasks'[i] = next[k]

LEMMA OldBeforeNew ==
    ASSUME tasks \in Seq(Tasks), NEW d, NEW next \in Seq(Tasks), GoesOn(d, next)
    PROVE  /\ \A i \in DOMAIN tasks' : i \in Nat /\ i > 0 /\ (Old(d, i) \/ New(d, next, i))
           /\ \A i, j \in DOMAIN tasks' : Old(d, i) /\ New(d, next, j) => i < j
           /\ d \in {0, 1} /\ \A i \in DOMAIN tasks : i \in Nat /\ i > 0
<1>1. /\ Len(tasks) \in Nat /\ DOMAIN tasks = 1..Len(tasks) /\ d \in {0, 1}
      /\ DOMAIN next = 1..Len(next) /\ Len(next) \in Nat /\ tasks' \in Seq(Tasks)
  BY DEF GoesOn
<1>2. \A i \in DOMAIN tasks' : i \in Nat /\ i > 0
  BY <1>1
<1>3. \A i \in DOMAIN tasks' : Old(d, i) \/ New(d, next, i)
  BY DEF GoesOn, Old, New
<1>4. ASSUME NEW i \in DOMAIN tasks', NEW j \in DOMAIN tasks', Old(d, i), New(d, next, j)
      PROVE  i < j
  <2>1. PICK k \in DOMAIN next : j = Len(tasks) - d + k
    BY <1>4 DEF New
  <2>2. i + d <= Len(tasks) /\ k > 0 /\ k \in Nat
    BY <1>1, <1>4 DEF Old
  <2> QED
    BY <1>1, <1>2, <2>1, <2>2
<1> QED
  BY <1>1, <1>2, <1>3, <1>4

LEMMA OrderKept ==
    ASSUME tasks \in Seq(Tasks), NEW d, NEW next \in Seq(Tasks), GoesOn(d, next), InOrder(tasks),
           \A k \in DOMAIN next : next[k].step \notin {"tried", "decide"}
    PROVE  InOrder(tasks')
<1>1. /\ \A i \in DOMAIN tasks' : i \in Nat /\ i > 0 /\ (Old(d, i) \/ New(d, next, i))
      /\ \A i, j \in DOMAIN tasks' : Old(d, i) /\ New(d, next, j) => i < j
      /\ d \in {0, 1}
  BY OldBeforeNew
<1>2. \A i \in DOMAIN tasks' : tasks'[i].step \in {"tried", "decide"} => Old(d, i)
  BY <1>1 DEF New
<1> SUFFICES ASSUME NEW i \in DOMAIN tasks', NEW j \in DOMAIN tasks', Old(d, i),
                    tasks'[i].step \in {"tried", "decide"}
             PROVE  /\ tasks'[i].step = "tried" =>
                          /\ tasks'[j].step = "tried" => i = j
                          /\ tasks'[j].step = "release" => i < j
                    /\ tasks'[i].step = "decide" =>
                          /\ tasks'[j].step = "decide" => i = j
                          /\ tasks'[j].step = "tried" => i < j /\ \A k \in Holders(tasks') : i < k
  BY <1>2, Zenon DEF InOrder
<1>3. i \in Nat /\ j \in Nat /\ i + d \in DOMAIN tasks /\ tasks'[i] = tasks[i + d]
  BY <1>1 DEF Old
<1>4. CASE New(d, next, j)
  <2>1. i < j /\ tasks'[j].step \notin {"tried", "decide"}
    BY <1>1, <1>4 DEF New
  <2> QED
    BY <2>1
<1>5. CASE Old(d, j)
  <2>1. j + d \in DOMAIN tasks /\ tasks'[j] = tasks[j + d]
    BY <1>5 DEF Old
  <2>2. ASSUME tasks[i + d].step = "decide", tasks[j + d].step = "tried", NEW k \in Holders(tasks')
        PROVE  i < k
    <3>1. k \in DOMAIN tasks' /\ k \in Nat /\ tasks'[k].step \in Holding
      BY <1>1 DEF Holders
    <3>2. CASE Old(d, k)
      <4>1. k + d \in Holders(tasks)
        BY <3>1, <3>2 DEF Old, Holders
      <4>2. i + d < k + d
        BY <1>3, <2>1, <2>2, <4>1 DEF InOrder
      <4> QED
        BY <1>1, <1>3, <3>1, <4>2
    <3>3. CASE New(d, next, k)
      BY <1>1, <3>1, <3>3
    <3> QED
      BY <1>1, <3>1, <3>2, <3>3
  <2>3. /\ i + d = j + d => i = j
        /\ i + d < j + d => i < j
    BY <1>1, <1>3
  <2> QED
    BY <1>3, <2>1, <2>2, <2>3 DEF InOrder
<1> QED
  BY <1>1, <1>4, <1>5

\* A try that is over: no other is on its way, and what decides comes first.
LEMMA OrderTried ==
    ASSUME tasks \in Seq(Tasks), NEW next \in Seq(Tasks), GoesOn(1, next), InOrder(tasks),
           tasks # <<>>, tasks[1].step = "release", \A k \in Holders(tasks) : k = 1,
           \A k \in DOMAIN next : next[k].step \in {"section", "tried"},
           \A k, m \in DOMAIN next : next[k].step = "tried" /\ next[m].step = "tried" => k = m
    PROVE  InOrder(tasks')
<1>1. /\ \A i \in DOMAIN tasks' : i \in Nat /\ i > 0 /\ (Old(1, i) \/ New(1, next, i))
      /\ \A i, j \in DOMAIN tasks' : Old(1, i) /\ New(1, next, j) => i < j
      /\ \A i \in DOMAIN tasks : i \in Nat /\ i > 0
  BY OldBeforeNew
<1>2. 1 \in DOMAIN tasks
  OBVIOUS
<1>3. \A i \in DOMAIN tasks : tasks[i].step # "tried"
  BY <1>1, <1>2 DEF InOrder
<1>4. \A i \in DOMAIN tasks' : Old(1, i) => tasks'[i].step # "tried" /\ tasks'[i].step \notin Holding
  <2> SUFFICES ASSUME NEW i \in DOMAIN tasks', Old(1, i)
               PROVE  tasks'[i].step # "tried" /\ tasks'[i].step \notin Holding
    OBVIOUS
  <2>1. i \in Nat /\ i > 0 /\ i + 1 \in DOMAIN tasks /\ tasks'[i] = tasks[i + 1]
    BY <1>1 DEF Old
  <2>2. i + 1 # 1
    BY <2>1
  <2> QED
    BY <1>3, <2>1, <2>2 DEF Holders
<1>5. ASSUME NEW i \in DOMAIN tasks', tasks'[i].step = "tried"
      PROVE  New(1, next, i) /\ \A j \in DOMAIN tasks' : tasks'[j].step = "tried" => i = j
  <2>1. New(1, next, i) /\ \A j \in DOMAIN tasks' : tasks'[j].step = "tried" => New(1, next, j)
    BY <1>1, <1>4, <1>5
  <2> QED
    BY <1>5, <2>1 DEF New
<1>6. \A i \in DOMAIN tasks' : tasks'[i].step # "release"
  <2>1. \A i \in DOMAIN tasks' : New(1, next, i) => tasks'[i].step # "release"
    BY DEF New
  <2> QED
    BY <1>1, <1>4, <2>1 DEF Holding
<1>7. ASSUME NEW i \in DOMAIN tasks', tasks'[i].step = "decide"
      PROVE  /\ Old(1, i)
             /\ \A j \in DOMAIN tasks' : tasks'[j].step = "decide" => i = j
             /\ \A j \in DOMAIN tasks' : tasks'[j].step = "tried" => i < j
             /\ \A k \in Holders(tasks') : i < k
  <2>1. \A j \in DOMAIN tasks' : tasks'[j].step = "decide" => Old(1, j)
    BY <1>1 DEF New
  <2>2. ASSUME NEW j \in DOMAIN tasks', tasks'[j].step = "decide"
        PROVE  i = j
    <3>1. i + 1 \in DOMAIN tasks /\ j + 1 \in DOMAIN tasks /\ tasks[i + 1].step = "decide" /\ tasks[j + 1].step = "decide"
      BY <1>7, <2>1, <2>2 DEF Old
    <3>2. i + 1 = j + 1
      BY <3>1 DEF InOrder
    <3> QED
      BY <1>1, <3>2
  <2>3. \A j \in DOMAIN tasks' : tasks'[j].step = "tried" => i < j
    BY <1>1, <1>5, <1>7, <2>1
  <2>4. ASSUME NEW k \in Holders(tasks')
        PROVE  i < k
    <3>1. k \in DOMAIN tasks' /\ ~Old(1, k)
      BY <1>4 DEF Holders
    <3> QED
      BY <1>1, <1>7, <2>1, <3>1
  <2> QED
    BY <1>7, <2>1, <2>2, <2>3, <2>4
<1> QED
  BY <1>5, <1>6, <1>7, Zenon DEF InOrder

\* What decides next: nothing else is to decide or on its way.
LEMMA OrderDecide ==
    ASSUME tasks \in Seq(Tasks), NEW next \in Seq(Tasks), GoesOn(1, next), InOrder(tasks),
           tasks # <<>>, tasks[1].step = "tried",
           \A k \in DOMAIN next : next[k].step = "decide" /\ k = 1
    PROVE  InOrder(tasks')
<1>1. /\ \A i \in DOMAIN tasks' : i \in Nat /\ i > 0 /\ (Old(1, i) \/ New(1, next, i))
      /\ \A i \in DOMAIN tasks : i \in Nat /\ i > 0
  BY OldBeforeNew
<1>2. 1 \in DOMAIN tasks
  OBVIOUS
<1>3. \A i \in DOMAIN tasks : tasks[i].step # "decide" /\ (tasks[i].step = "tried" => i = 1)
  BY <1>1, <1>2 DEF InOrder
<1>4. \A i \in DOMAIN tasks' : Old(1, i) => tasks'[i].step \notin {"tried", "decide"}
  <2> SUFFICES ASSUME NEW i \in DOMAIN tasks', Old(1, i)
               PROVE  tasks'[i].step \notin {"tried", "decide"}
    OBVIOUS
  <2>1. i \in Nat /\ i > 0 /\ i + 1 \in DOMAIN tasks /\ tasks'[i] = tasks[i + 1]
    BY <1>1 DEF Old
  <2>2. i + 1 # 1
    BY <2>1
  <2> QED
    BY <1>3, <2>1, <2>2
<1>5. \A i \in DOMAIN tasks' : tasks'[i].step # "tried"
  BY <1>1, <1>4 DEF New
<1>6. \A i, j \in DOMAIN tasks' : tasks'[i].step = "decide" /\ tasks'[j].step = "decide" => i = j
  <2>1. \A i \in DOMAIN tasks' : tasks'[i].step = "decide" => New(1, next, i)
    BY <1>1, <1>4
  <2> QED
    BY <2>1 DEF New
<1> QED
  BY <1>5, <1>6, Zenon DEF InOrder

\* A puller in the gap has one step there.
LEMMA StepInGap ==
    ASSUME OnePlaceEach, NEW c \in Pullers, NEW s, InGap(c, s)
    PROVE  Awake(c) /\ \A t : InGap(c, t) => s = t
<1>1. PICK i \in DOMAIN tasks : TaskOf(i, c) /\ tasks[i].step = s
  BY DEF InGap
<1>2. Awake(c) /\ \A k \in DOMAIN tasks : TaskOf(k, c) => i = k
  BY <1>1 DEF OnePlaceEach, PlaceOf
<1> QED
  BY <1>1, <1>2 DEF InGap

\* While a section runs at most one puller is in the gap, and it has left the
\* lock.
LEMMA OneInGap ==
    ASSUME TypeOK, OneHolder, OnePlaceEach, InOrder(tasks), NEW ops, Runs("section", ops)
    PROVE  /\ \A b, c \in Gap : b = c
           /\ \A c \in Pullers : ~InGap(c, "release")
<1>1. 1 \in DOMAIN tasks /\ tasks[1].step = "section" /\ (\A k \in Holders(tasks) : k = 1)
      /\ \A i \in DOMAIN tasks : i \in Nat /\ i > 0
  <2>1. "section" \in Holding
    BY DEF Holding
  <2>2. \A i \in DOMAIN tasks : i \in Nat /\ i > 0
    BY DEF TypeOK
  <2> QED
    BY <2>1, <2>2, RunsFacts
<1>2. 1 \in Holders(tasks) /\ \A i \in DOMAIN tasks : tasks[i].step # "release"
  BY <1>1 DEF Holders, Holding
<1>3. ASSUME NEW b \in Gap, NEW c \in Gap
      PROVE  b = c
  <2>1. PICK i \in DOMAIN tasks : TaskOf(i, b) /\ tasks[i].step \in AfterTheTry
    BY DEF Gap, InGap
  <2>2. PICK j \in DOMAIN tasks : TaskOf(j, c) /\ tasks[j].step \in AfterTheTry
    BY DEF Gap, InGap
  <2>3. i = j
    BY <1>1, <1>2, <2>1, <2>2 DEF InOrder, AfterTheTry
  <2> QED
    BY <2>1, <2>2, <2>3 DEF TaskOf, Call
<1> QED
  BY <1>2, <1>3 DEF InGap

-----------------------------------------------------------------------------
(***************************************************************************)
(* Who is on the way, and who is in the gap.                               *)
(***************************************************************************)

\* Who waits for the lock stays in line, or is given the lock.
LineOn(next) ==
    \A c \in Pullers : \A i \in DOMAIN lock : InLineOf(i, c) =>
        \/ \E k \in DOMAIN lock' : InLineOf(k, c)'
        \/ \E k \in DOMAIN next : next[k] = Task("section", Call("pull", c))

LEMMA LineGrows ==
    ASSUME TypeOK, NEW h \in Handlers, Acquire(h)
    PROVE  /\ DOMAIN lock' = 1..(Len(lock) + 1) /\ \A i \in 1..Len(lock) : lock'[i] = lock[i]
           /\ lock'[Len(lock) + 1] = h
<1>1. lock \in Seq(Handlers) /\ Len(lock) \in Nat /\ DOMAIN lock = 1..Len(lock)
  BY DEF TypeOK
<1> QED
  BY <1>1, AppendProperties DEF Acquire

LEMMA LineStays ==
    ASSUME TypeOK, NEW next
    PROVE  /\ lock' = lock => LineOn(next)
           /\ \A h \in Handlers : Acquire(h) => LineOn(next)
           /\ Release /\ (\A k \in DOMAIN Handover : \E m \in DOMAIN next : next[m] = Handover[k])
                 => LineOn(next)
<1>1. lock \in Seq(Handlers) /\ Len(lock) \in Nat /\ DOMAIN lock = 1..Len(lock)
  BY DEF TypeOK
<1>2. ASSUME lock' = lock
      PROVE  LineOn(next)
  BY <1>2 DEF LineOn, InLineOf
<1>3. ASSUME NEW h \in Handlers, Acquire(h)
      PROVE  LineOn(next)
  <2>1. DOMAIN lock' = 1..(Len(lock) + 1) /\ \A i \in 1..Len(lock) : lock'[i] = lock[i]
    BY <1>3, LineGrows
  <2>2. \A c \in Pullers : \A i \in DOMAIN lock : InLineOf(i, c) => i \in DOMAIN lock' /\ InLineOf(i, c)'
    BY <1>1, <2>1 DEF InLineOf
  <2> QED
    BY <2>2 DEF LineOn
<1>4. ASSUME Release, \A k \in DOMAIN Handover : \E m \in DOMAIN next : next[m] = Handover[k],
             NEW c \in Pullers, NEW i \in DOMAIN lock, InLineOf(i, c)
      PROVE  \/ \E k \in DOMAIN lock' : InLineOf(k, c)'
             \/ \E k \in DOMAIN next : next[k] = Task("section", Call("pull", c))
  <2>1. i > 1 /\ i \in 1..Len(lock) /\ lock[i] = Call("pull", c) /\ lock # <<>>
    BY <1>1, <1>4 DEF InLineOf
  <2>2. DOMAIN lock' = 1..(Len(lock) - 1) /\ \A k \in DOMAIN lock' : lock'[k] = lock[k + 1]
    BY <1>1, <1>4, <2>1, LockPassed
  <2>3. CASE i = 2
    <3>1. Handover = <<Task("section", Call("pull", c))>>
      BY <1>1, <2>1, <2>3 DEF Handover
    <3>2. 1 \in DOMAIN Handover /\ Handover[1] = Task("section", Call("pull", c))
      BY <3>1
    <3> QED
      BY <1>4, <3>2
  <2>4. CASE i # 2
    <3>1. i - 1 \in DOMAIN lock' /\ i - 1 > 1 /\ (i - 1) + 1 = i
      BY <1>1, <2>1, <2>2, <2>4
    <3>2. InLineOf(i - 1, c)'
      BY <2>1, <2>2, <3>1 DEF InLineOf
    <3> QED
      BY <3>1, <3>2
  <2> QED
    BY <2>3, <2>4
<1> QED
  BY <1>2, <1>3, <1>4, Zenon DEF LineOn

\* A poll that is under way before and after is not over earlier or later.
Steady ==
    \A c \in Pullers : pc[c] # "idle" /\ pc'[c] # "idle" => (Stays(c)' <=> Stays(c))

LEMMA SteadyBy ==
    ASSUME UNCHANGED hazards
    PROVE  /\ overdue' = overdue => Steady
           /\ "leave" \in hazards => Steady
           /\ \A b \in Pullers :
                 /\ \A c \in Pullers \ {b} : overdue'[c] = overdue[c]
                 /\ pc[b] = "idle" \/ pc'[b] = "idle"
                 => Steady
BY DEF Steady, Stays

LEMMA UnderWay ==
    ASSUME OnePlaceEach, NEW c \in Pullers
    PROVE  OnTheWay(c) \/ (\E s : InGap(c, s)) => Awake(c) /\ pc[c] # "idle"
BY DEF OnePlaceEach, PlaceOf, OnTheWay, InGap, Awake

LEMMA ComingKept ==
    ASSUME Steady, NEW d, NEW next, GoesOn(d, next), LineOn(next), NEW c \in Coming,
           pc'[c] = pc[c], \A k \in DOMAIN tasks : TaskOf(k, c) => k > d
    PROVE  c \in Coming'
<1>1. c \in Pullers /\ OnTheWay(c) /\ Stays(c) /\ pc[c] = "running"
  BY DEF Coming
<1>2. OnTheWay(c)'
  <2>1. CASE \E i \in DOMAIN lock : InLineOf(i, c)
    <3>1. CASE \E k \in DOMAIN lock' : InLineOf(k, c)'
      BY <3>1 DEF OnTheWay
    <3>2. CASE \E k \in DOMAIN next : next[k] = Task("section", Call("pull", c))
      <4>1. \E i \in DOMAIN tasks' : tasks'[i] = Task("section", Call("pull", c))
        BY <3>2 DEF GoesOn
      <4> QED
        BY <4>1 DEF OnTheWay, TaskOf, Task, ToTheLock
    <3> QED
      BY <1>1, <2>1, <3>1, <3>2 DEF LineOn
  <2>2. CASE \E i \in DOMAIN tasks : TaskOf(i, c) /\ tasks[i].step \in ToTheLock
    <3>1. PICK i \in DOMAIN tasks : TaskOf(i, c) /\ tasks[i].step \in ToTheLock
      BY <2>2
    <3>2. \E k \in DOMAIN tasks' : tasks'[k] = tasks[i]
      BY <3>1 DEF GoesOn
    <3> QED
      BY <3>1, <3>2 DEF OnTheWay, TaskOf
  <2> QED
    BY <1>1, <2>1, <2>2 DEF OnTheWay
<1> QED
  BY <1>1, <1>2 DEF Steady, Coming

LEMMA ComingNew ==
    ASSUME NEW d, NEW next, GoesOn(d, next), NEW c \in Pullers, Stays(c)', pc'[c] = "running",
           NEW k \in DOMAIN next, next[k].handler = Call("pull", c), next[k].step \in ToTheLock
    PROVE  c \in Coming'
<1>1. \E i \in DOMAIN tasks' : tasks'[i] = next[k]
  BY DEF GoesOn
<1> QED
  BY <1>1 DEF Coming, OnTheWay, TaskOf

\* A puller in the gap was there before the step, or the step brought it there.
LEMMA GapKept ==
    ASSUME OnePlaceEach, Steady, NEW d, NEW next, GoesOn(d, next), NEW c \in Gap',
           pc[c] = "served" => pc'[c] # "running"
    PROVE  \/ c \in Gap
           \/ \E k \in DOMAIN next :
                 next[k].handler = Call("pull", c) /\ next[k].step \in AfterTheTry
<1>1. c \in Pullers /\ pc'[c] = "running" /\ Stays(c)'
  BY DEF Gap
<1>2. PICK i \in DOMAIN tasks' : tasks'[i].handler = Call("pull", c) /\ tasks'[i].step \in AfterTheTry
  BY DEF Gap, InGap, TaskOf
<1>3. ASSUME i + d \in DOMAIN tasks, tasks'[i] = tasks[i + d]
      PROVE  c \in Gap
  <2>1. TaskOf(i + d, c) /\ tasks[i + d].step \in AfterTheTry
    BY <1>2, <1>3 DEF TaskOf
  <2>2. Awake(c)
    BY <1>1, <1>3, <2>1 DEF OnePlaceEach, PlaceOf
  <2>3. Stays(c)
    BY <1>1, <2>2 DEF Steady, Awake
  <2> QED
    BY <1>1, <1>3, <2>1, <2>2, <2>3 DEF Gap, InGap, Awake
<1> QED
  BY <1>2, <1>3 DEF GoesOn

\* Those whose microtask is not the one that runs stay as they are.
LEMMA StepKept ==
    ASSUME NEW d, NEW next, GoesOn(d, next), NEW c, \A k \in DOMAIN tasks : TaskOf(k, c) => k > d,
           NEW s, InGap(c, s)
    PROVE  InGap(c, s)'
<1>1. PICK i \in DOMAIN tasks : TaskOf(i, c) /\ tasks[i].step = s
  BY DEF InGap
<1>2. \E k \in DOMAIN tasks' : tasks'[k] = tasks[i]
  BY <1>1 DEF GoesOn
<1> QED
  BY <1>1, <1>2 DEF InGap, TaskOf

LEMMA StaysInGap ==
    ASSUME Steady, NEW d, NEW next, GoesOn(d, next), NEW c \in Gap, pc'[c] = pc[c],
           \A k \in DOMAIN tasks : TaskOf(k, c) => k > d
    PROVE  c \in Gap'
<1>1. PICK s \in AfterTheTry : InGap(c, s)
  BY DEF Gap
<1>2. InGap(c, s)'
  BY <1>1, StepKept
<1> QED
  BY <1>1, <1>2 DEF Gap, Steady

\* Whom the job that is not due is left to.
LEMMA LastKept ==
    ASSUME Waits(entries, activeWaiters, Sleepers), NEW S, NEW R, Last(S),
           Gap' \subseteq Gap,
           \A c \in Gap : timer[c] \in S => c \in Gap' /\ timer'[c] \in R,
           \A b, c \in Gap : b # c /\ Precedes(b, c) => Precedes(b, c)' \/ b \notin Gap',
           entries' = entries, \A c \in Sleepers : timer[c] \in S => timer'[c] \in R
    PROVE  Last(R)'
<1>1. CASE LastInGap(S)
  <2>1. PICK c \in Gap : timer[c] \in S /\ \A b \in Gap \ {c} : Precedes(b, c)
    BY <1>1 DEF LastInGap
  <2>2. c \in Gap' /\ timer'[c] \in R
    BY <2>1
  <2>3. \A b \in Gap' \ {c} : Precedes(b, c)'
    BY <2>1
  <2>4. LastInGap(R)'
    BY <2>2, <2>3 DEF LastInGap
  <2> QED
    BY <2>4 DEF Last
<1>2. CASE Gap = {} /\ Youngest(S)
  <2>1. PICK i \in LiveIn(entries) :
           timer[entries[i].puller] \in S /\ \A k \in LiveIn(entries) : k <= i
    BY <1>2 DEF Youngest
  <2>2. entries[i].puller \in Sleepers
    BY DEF Waits
  <2>3. Youngest(R)'
    BY <2>1, <2>2 DEF Youngest
  <2> QED
    BY <1>2, <2>3 DEF Last
<1> QED
  BY <1>1, <1>2 DEF Last

\* The step is that of nobody in the gap.
LEMMA LastUnmoved ==
    ASSUME IInv, Steady, NEW d, NEW next, GoesOn(d, next), Gap' \subseteq Gap,
           \A c \in Gap : /\ \A k \in DOMAIN tasks : TaskOf(k, c) => k > d
                          /\ pc'[c] = pc[c] /\ timer'[c] = timer[c],
           entries' = entries, \A c \in Sleepers : timer'[c] = timer[c],
           NEW S, Last(S)
    PROVE  Last(S)'
<1>1. Waits(entries, activeWaiters, Sleepers)
  BY DEF IInv
<1>2. \A c \in Gap : c \in Gap'
  BY StaysInGap
<1>3. ASSUME NEW b \in Gap, NEW c \in Gap, Precedes(b, c)
      PROVE  Precedes(b, c)'
  <2>1. PICK p \in Earlier : InGap(b, p[1]) /\ InGap(c, p[2])
    BY <1>3 DEF Precedes
  <2>2. InGap(b, p[1])' /\ InGap(c, p[2])'
    BY <2>1, StepKept
  <2> QED
    BY <2>2 DEF Precedes
<1> QED
  BY <1>1, <1>2, <1>3, LastKept

LEMMA LockRunsKept ==
    ASSUME LockRuns, NEW d, NEW next, GoesOn(d, next),
           \/ lock' = <<>>
           \/ Holders(next) # {}
           \/ lock # <<>> /\ \A k \in Holders(tasks) : k > d
    PROVE  LockRuns'
<1>1. CASE Holders(next) # {}
  <2>1. PICK k \in DOMAIN next : next[k].step \in Holding
    BY <1>1 DEF Holders
  <2>2. \E i \in DOMAIN tasks' : tasks'[i] = next[k]
    BY <2>1 DEF GoesOn
  <2> QED
    BY <2>1, <2>2 DEF LockRuns, Holders
<1>2. CASE lock # <<>> /\ \A k \in Holders(tasks) : k > d
  <2>1. PICK k \in Holders(tasks) : k \in DOMAIN tasks /\ k > d /\ tasks[k].step \in Holding
    BY <1>2 DEF LockRuns, Holders
  <2>2. \E i \in DOMAIN tasks' : tasks'[i] = tasks[k]
    BY <2>1 DEF GoesOn
  <2> QED
    BY <2>1, <2>2 DEF LockRuns, Holders
<1> QED
  BY <1>1, <1>2 DEF LockRuns

\* The next in line has the lock at once.
LEMMA HandedOn ==
    ASSUME TypeOK, lock # <<>>, Release
    PROVE  lock' = <<>> \/ (1 \in DOMAIN Handover /\ Handover[1].step = "section")
<1>1. /\ lock \in Seq(Handlers) /\ Len(lock) \in Nat
      /\ lock' \in Seq(Handlers) /\ DOMAIN lock' = 1..(Len(lock) - 1)
  BY LockPassed DEF TypeOK
<1>2. CASE Len(lock) > 1
  BY <1>2 DEF Handover, Task
<1>3. CASE ~(Len(lock) > 1)
  <2>1. DOMAIN lock' = {}
    BY <1>1, <1>3
  <2> QED
    BY <1>1, <2>1
<1> QED
  BY <1>2, <1>3

\* What the wake-ups are promised for goes on.
Calm ==
    IF "leave" \in hazards
    THEN delayed' = delayed /\ \A c \in Pullers : timer'[c] \in {timer[c], "deadline"}
    ELSE \A c \in Sleepers' : (c \in Sleepers \/ ~overdue[c]) /\ overdue'[c] = overdue[c]

LEMMA ElseKept ==
    ASSUME TypeOK, NothingElse, UNCHANGED hazards, paused' = paused, Calm,
           \/ lock' = lock
           \/ lock # <<>> /\ Release
           \/ \E h \in Handlers : /\ Acquire(h) /\ h.op \notin Silent
                                  /\ "leave" \in hazards => h.op \notin Delays
    PROVE  NothingElse'
<1>1. lock \in Seq(Handlers) /\ Len(lock) \in Nat /\ DOMAIN lock = 1..Len(lock)
  BY DEF TypeOK
<1>2. /\ \A i \in DOMAIN lock' : lock'[i].op \notin Silent
      /\ "leave" \in hazards => \A i \in DOMAIN lock' : lock'[i].op \notin Delays
  <2>1. /\ \A i \in DOMAIN lock : lock[i].op \notin Silent
        /\ "leave" \in hazards => \A i \in DOMAIN lock : lock[i].op \notin Delays
    BY DEF NothingElse
  <2>2. CASE lock # <<>> /\ Release
    <3>1. DOMAIN lock' = 1..(Len(lock) - 1) /\ \A i \in DOMAIN lock' : lock'[i] = lock[i + 1]
      BY <1>1, <2>2, LockPassed
    <3>2. \A i \in DOMAIN lock' : i + 1 \in DOMAIN lock
      BY <1>1, <3>1
    <3> QED
      BY <2>1, <3>1, <3>2
  <2>3. ASSUME NEW h \in Handlers, Acquire(h), h.op \notin Silent,
               "leave" \in hazards => h.op \notin Delays
        PROVE  /\ \A i \in DOMAIN lock' : lock'[i].op \notin Silent
               /\ "leave" \in hazards => \A i \in DOMAIN lock' : lock'[i].op \notin Delays
    <3>1. /\ DOMAIN lock' = 1..(Len(lock) + 1) /\ \A i \in 1..Len(lock) : lock'[i] = lock[i]
          /\ lock'[Len(lock) + 1] = h
      BY <2>3, LineGrows
    <3>2. \A i \in DOMAIN lock' : i = Len(lock) + 1 \/ i \in DOMAIN lock
      BY <1>1, <3>1
    <3> QED
      BY <1>1, <2>1, <2>3, <3>1, <3>2
  <2> QED
    BY <2>1, <2>2, <2>3
<1>3. CASE "leave" \in hazards
  BY <1>2, <1>3 DEF NothingElse, Calm
<1>4. CASE "leave" \notin hazards
  BY <1>2, <1>4 DEF NothingElse, Calm
<1> QED
  BY <1>3, <1>4

-----------------------------------------------------------------------------
(***************************************************************************)
(* The promises.                                                           *)
(***************************************************************************)

LEMMA SlotsLeft ==
    ASSUME NEW l \in Nat, NEW a \in Nat, a <= l
    PROVE  l - a \in Nat
OBVIOUS

LEMMA SmallerGrows ==
    ASSUME NEW a \in Nat, NEW b \in Nat, NEW c \in Nat, NEW d \in Nat, NEW n \in Nat,
           c <= a + n, d <= b + n
    PROVE  Smaller(c, d) <= Smaller(a, b) + n
BY DEF Smaller

LEMMA SmallerNat ==
    ASSUME NEW a \in Nat, NEW b \in Nat
    PROVE  Smaller(a, b) \in Nat
BY DEF Smaller

LEMMA Numbers ==
    ASSUME IInv, IInv'
    PROVE  /\ Takeable \in Nat /\ Takeable' \in Nat
           /\ TakeableSoon \in Nat /\ TakeableSoon' \in Nat
           /\ IsFiniteSet(Coming) /\ Cardinality(Coming) \in Nat
           /\ IsFiniteSet(Coming') /\ Cardinality(Coming') \in Nat
           /\ Cardinality(Announced(tasks)) \in Nat /\ Cardinality(Announced(tasks)') \in Nat
           /\ Promises \in Nat /\ Promises' \in Nat
<1>1. /\ ready \in Nat /\ active \in Nat /\ active <= Limit /\ tasks \in Seq(Tasks)
      /\ ready' \in Nat /\ active' \in Nat /\ active' <= Limit /\ tasks' \in Seq(Tasks)
      /\ Limit \in Nat
  BY CountAssumption DEF IInv, TypeOK, SlotsInUse
<1>2. Takeable \in Nat /\ Takeable' \in Nat /\ TakeableSoon \in Nat /\ TakeableSoon' \in Nat
  <2>1. Limit - active \in Nat
    BY <1>1
  <2>2. Limit - active' \in Nat
    BY <1>1, SlotsLeft
  <2>3. Takeable \in Nat /\ Takeable' \in Nat
    BY <1>1, <2>1, <2>2 DEF Takeable, Smaller
  <2>4. TakeableSoon \in Nat
    BY <1>1, <2>1 DEF TakeableSoon, Smaller
  <2>5. TakeableSoon' \in Nat
    <3>1. PICK y \in {0, 1} : y = IF delayed' THEN 1 ELSE 0
      OBVIOUS
    <3>2. TakeableSoon' = Smaller(ready' + y, Limit - active')
      BY <3>1, Zenon DEF TakeableSoon
    <3>3. \A r \in Nat : r + y \in Nat
      BY <3>1
    <3> QED
      BY <1>1, <2>2, <3>2, <3>3, SmallerNat
  <2> QED
    BY <2>3, <2>4, <2>5
<1>3. /\ IsFiniteSet(Coming) /\ Cardinality(Coming) \in Nat
      /\ IsFiniteSet(Coming') /\ Cardinality(Coming') \in Nat
  <2>1. Coming \in SUBSET Pullers /\ Coming' \in SUBSET Pullers
    BY DEF Coming
  <2> QED
    BY <2>1, PullersAssumption, FS_Subset, FS_CardinalityType
<1>4. Cardinality(Announced(tasks)) \in Nat /\ Cardinality(Announced(tasks')) \in Nat
  BY <1>1, AnnouncedFinite
<1>5. Announced(tasks)' = Announced(tasks')
  BY DEF Announced
<1>6. Promises \in Nat /\ Promises' \in Nat
  BY <1>3, <1>4, <1>5 DEF Promises
<1> QED
  BY <1>2, <1>3, <1>4, <1>5, <1>6

\* Jobs that are put in the queue and slots that are given back.
LEMMA TakeableGrows ==
    ASSUME IInv, IInv'
    PROVE  /\ UNCHANGED jobVars => Takeable' = Takeable /\ TakeableSoon' = TakeableSoon
           /\ \A n \in Nat : ready' = ready + n /\ active' = active /\ delayed' = delayed =>
                 Takeable' <= Takeable + n /\ TakeableSoon' <= TakeableSoon + n
           /\ ready' = ready /\ active' = active =>
                 Takeable' <= Takeable + 1 /\ TakeableSoon' <= TakeableSoon + 1
           /\ active' = active - 1 /\ (ready' = ready \/ (ready' = ready + 1 /\ delayed' = delayed)) =>
                 Takeable' <= Takeable + 1 /\ TakeableSoon' <= TakeableSoon + 1
<1> DEFINE x == IF delayed THEN 1 ELSE 0
           y == IF delayed' THEN 1 ELSE 0
<1>1. /\ ready \in Nat /\ active \in Nat /\ active <= Limit
      /\ ready' \in Nat /\ active' \in Nat /\ active' <= Limit /\ Limit \in Nat
  BY CountAssumption DEF IInv, TypeOK, SlotsInUse
<1>2. Limit - active \in Nat
  BY <1>1
<1>3. Limit - active' \in Nat
  BY <1>1, SlotsLeft
<1>4. x \in {0, 1} /\ y \in {0, 1} /\ (delayed' = delayed => x = y)
  OBVIOUS
<1>5. TakeableSoon = Smaller(ready + x, Limit - active) /\ TakeableSoon' = Smaller(ready' + y, Limit - active')
  BY DEF TakeableSoon
<1>6. Takeable = Smaller(ready, Limit - active) /\ Takeable' = Smaller(ready', Limit - active')
  BY DEF Takeable
<1> HIDE DEF x, y
<1>7. ASSUME UNCHANGED jobVars
      PROVE  Takeable' = Takeable /\ TakeableSoon' = TakeableSoon
  BY <1>4, <1>5, <1>6, <1>7 DEF jobVars
<1>8. ready + x \in Nat /\ ready' + y \in Nat
  <2>1. \A r \in Nat : \A z \in {0, 1} : r + z \in Nat
    OBVIOUS
  <2> QED
    BY <1>1, <1>4, <2>1
<1>9. ASSUME NEW n \in Nat, ready' <= ready + n, ready' + y <= (ready + x) + n,
             Limit - active' <= (Limit - active) + n
      PROVE  Takeable' <= Takeable + n /\ TakeableSoon' <= TakeableSoon + n
  <2>1. Takeable' <= Takeable + n
    BY <1>1, <1>2, <1>3, <1>6, <1>9, SmallerGrows
  <2>2. TakeableSoon' <= TakeableSoon + n
    BY <1>8, <1>2, <1>3, <1>5, <1>9, SmallerGrows
  <2> QED
    BY <2>1, <2>2
<1>10. ASSUME NEW n \in Nat, ready' = ready + n, active' = active, delayed' = delayed
       PROVE  Takeable' <= Takeable + n /\ TakeableSoon' <= TakeableSoon + n
  <2>1. ready' <= ready + n /\ ready' + y <= (ready + x) + n
    BY <1>1, <1>4, <1>10
  <2>2. Limit - active' <= (Limit - active) + n
    BY <1>2, <1>10
  <2> QED
    BY <1>9, <2>1, <2>2
<1>11. ASSUME ready' = ready, active' = active
       PROVE  Takeable' <= Takeable + 1 /\ TakeableSoon' <= TakeableSoon + 1
  <2>1. ready' <= ready + 1 /\ ready' + y <= (ready + x) + 1
    BY <1>1, <1>4, <1>11
  <2>2. Limit - active' <= (Limit - active) + 1
    BY <1>2, <1>11
  <2> QED
    BY <1>9, <2>1, <2>2
<1>12. ASSUME active' = active - 1, ready' = ready \/ (ready' = ready + 1 /\ delayed' = delayed)
       PROVE  Takeable' <= Takeable + 1 /\ TakeableSoon' <= TakeableSoon + 1
  <2>1. Limit - active' <= (Limit - active) + 1
    BY <1>1, <1>12
  <2>2. ready' <= ready + 1
    BY <1>1, <1>12
  <2>3. ready' + y <= (ready + x) + 1
    <3>1. ready' = ready => ready' + y <= (ready + x) + 1
      BY <1>1, <1>4
    <3>2. ready' = ready + 1 /\ x = y => ready' + y <= (ready + x) + 1
      BY <1>1, <1>4
    <3> QED
      BY <1>4, <1>12, <3>1, <3>2
  <2> QED
    BY <1>9, <2>1, <2>2, <2>3
<1> QED
  BY <1>7, <1>10, <1>11, <1>12

LEMMA ComingGrows ==
    ASSUME IInv, IInv', Coming \subseteq Coming', NEW S \in SUBSET Coming', S \cap Coming = {}
    PROVE  Cardinality(S) \in Nat /\ Cardinality(Coming) + Cardinality(S) <= Cardinality(Coming')
<1>1. /\ IsFiniteSet(Coming) /\ Cardinality(Coming) \in Nat
      /\ IsFiniteSet(Coming') /\ Cardinality(Coming') \in Nat
  BY Numbers
<1>2. IsFiniteSet(S) /\ Cardinality(S) \in Nat
  BY <1>1, FS_Subset, FS_CardinalityType
<1>3. /\ IsFiniteSet(Coming \cup S)
      /\ Cardinality(Coming \cup S) = Cardinality(Coming) + Cardinality(S) - Cardinality(Coming \cap S)
  BY <1>1, <1>2, FS_Union
<1>4. Cardinality(Coming \cap S) = 0
  <2>1. Coming \cap S = {}
    OBVIOUS
  <2> QED
    BY <2>1, FS_EmptySet
<1>5. Coming \cup S \in SUBSET Coming'
  OBVIOUS
<1>6. Cardinality(Coming \cup S) <= Cardinality(Coming')
  BY <1>1, <1>5, FS_Subset
<1> QED
  BY <1>1, <1>2, <1>3, <1>4, <1>6

LEMMA EnoughStays ==
    ASSUME IInv, IInv', Enough, TakeableSoon' <= TakeableSoon, Takeable' <= Takeable,
           Promises <= Promises', \A S \in SUBSET Told : Last(S) => Last(S)'
    PROVE  Enough'
<1>1. /\ Takeable \in Nat /\ Takeable' \in Nat /\ TakeableSoon \in Nat /\ TakeableSoon' \in Nat
      /\ Promises \in Nat /\ Promises' \in Nat
  BY Numbers
<1>2. /\ TakeableSoon <= Promises => TakeableSoon' <= Promises'
      /\ TakeableSoon <= Promises + 1 => TakeableSoon' <= Promises' + 1
      /\ Takeable <= Promises => Takeable' <= Promises'
  <2>1. \A a, b, c, d \in Nat : b <= a /\ c <= d =>
           (a <= c => b <= d) /\ (a <= c + 1 => b <= d + 1)
    OBVIOUS
  <2> QED
    BY <1>1, <2>1
<1>3. (Last(Told) => Last(Told)') /\ (Last({"due"}) => Last({"due"})')
  BY DEF Told
<1> QED
  BY <1>2, <1>3 DEF Enough

\* A step that takes nobody off the way, and brings nobody into the gap.
LEMMA NobodyLost ==
    ASSUME IInv, IInv', Steady, NEW d, NEW next, GoesOn(d, next), LineOn(next),
           Cardinality(Announced(tasks)) <= Cardinality(Announced(tasks)'),
           \A c \in Coming :
              (pc'[c] = pc[c] /\ \A k \in DOMAIN tasks : TaskOf(k, c) => k > d) \/ c \in Coming',
           \A c \in Pullers : pc'[c] = "running" => pc[c] # "served",
           \A c \in Pullers : \A k \in DOMAIN next :
              /\ next[k].handler = Call("pull", c) /\ next[k].step \in AfterTheTry
              /\ pc'[c] = "running" /\ Stays(c)'
              => c \in Gap
    PROVE  Promises <= Promises' /\ Gap' \subseteq Gap
<1>1. OnePlaceEach
  BY DEF IInv
<1>2. Coming \subseteq Coming'
  BY ComingKept
<1>3. Promises <= Promises'
  <2>1. Cardinality(Coming) + Cardinality({}) <= Cardinality(Coming')
    BY <1>2, ComingGrows
  <2>2. Cardinality({}) = 0
    BY FS_EmptySet
  <2>3. /\ Cardinality(Coming) \in Nat /\ Cardinality(Coming') \in Nat
        /\ Cardinality(Announced(tasks)) \in Nat /\ Cardinality(Announced(tasks)') \in Nat
    BY Numbers
  <2> QED
    BY <2>1, <2>2, <2>3 DEF Promises
<1>4. Gap' \subseteq Gap
  <2> SUFFICES ASSUME NEW c \in Gap'
               PROVE  c \in Gap
    OBVIOUS
  <2>1. c \in Pullers /\ pc'[c] = "running" /\ Stays(c)'
    BY DEF Gap
  <2> QED
    BY <1>1, <2>1, GapKept
<1> QED
  BY <1>3, <1>4

\* A step that leaves the jobs alone and notifies nobody.
LEMMA NoJobMoves ==
    ASSUME WInv, IInv', UNCHANGED hazards, UNCHANGED jobVars,
           Promises <= Promises', Gap' \subseteq Gap,
           NothingElse => Calm /\ \A S \in SUBSET Told : Last(S) => Last(S)',
           Sleepers' \subseteq Sleepers, pending' = pending, LockRuns', InOrder(tasks'),
           \/ lock' = lock
           \/ lock # <<>> /\ Release
           \/ \E h \in Handlers : Acquire(h) /\ (WakeupsPromised =>
                                     /\ h.op \notin Silent
                                     /\ "leave" \in hazards => h.op \notin Delays)
    PROVE  WInv'
<1>1. IInv /\ TypeOK /\ (WakeupsPromised => NothingElse /\ Promised)
  BY DEF WInv, IInv
<1>2. paused' = paused
  BY DEF jobVars
<1>3. /\ Takeable' = Takeable /\ TakeableSoon' = TakeableSoon
      /\ Takeable' \in Nat /\ TakeableSoon' \in Nat
  BY <1>1, TakeableGrows, Numbers
<1>4. ASSUME WakeupsPromised
      PROVE  NothingElse' /\ Promised'
  <2>1. NothingElse'
    BY <1>1, <1>2, <1>4, ElseKept
  <2>2. TakeableSoon' <= TakeableSoon /\ Takeable' <= Takeable
    BY <1>3
  <2>3. Enough => Enough'
    BY <1>1, <1>4, <2>2, EnoughStays
  <2>4. Promised'
    BY <1>1, <1>3, <1>4, <2>3 DEF Promised
  <2> QED
    BY <2>1, <2>4
<1>5. WakeupsPromised' = WakeupsPromised
  BY DEF WakeupsPromised
<1> QED
  BY <1>4, <1>5 DEF WInv
LEMMA AnnouncedGrows ==
    ASSUME tasks \in Seq(Tasks), NEW next \in Seq(Tasks), tasks' = tasks \o next
    PROVE  Cardinality(Announced(tasks)) <= Cardinality(Announced(tasks)')
<1>1. Cardinality(Announced(tasks \o next)) = Cardinality(Announced(tasks)) + Cardinality(Announced(next))
  BY AnnouncedJoin
<1>2. Announced(tasks)' = Announced(tasks \o next)
  BY DEF Announced
<1>3. Cardinality(Announced(tasks)) \in Nat /\ Cardinality(Announced(next)) \in Nat
  BY AnnouncedFinite
<1> QED
  BY <1>1, <1>2, <1>3

-----------------------------------------------------------------------------
(***************************************************************************)
(* The actions, and the wake-ups.                                          *)
(***************************************************************************)

LEMMA Joined ==
    ASSUME NEW A \in Seq(Tasks), NEW B \in Seq(Tasks)
    PROVE  /\ A \o B \in Seq(Tasks)
           /\ \A k \in DOMAIN (A \o B) :
                 \/ \E i \in DOMAIN A : (A \o B)[k] = A[i]
                 \/ \E i \in DOMAIN B : k = Len(A) + i /\ (A \o B)[k] = B[i]
           /\ \A i \in DOMAIN A : \E k \in DOMAIN (A \o B) : (A \o B)[k] = A[i]
           /\ \A i \in DOMAIN B : \E k \in DOMAIN (A \o B) : (A \o B)[k] = B[i]
<1> DEFINE r == A \o B
<1>1. /\ Len(A) \in Nat /\ Len(B) \in Nat /\ DOMAIN A = 1..Len(A) /\ DOMAIN B = 1..Len(B)
      /\ r \in Seq(Tasks) /\ DOMAIN r = 1..(Len(A) + Len(B))
      /\ \A i \in DOMAIN r : r[i] = IF i <= Len(A) THEN A[i] ELSE B[i - Len(A)]
  BY ConcatProperties
<1> HIDE DEF r
<1>2. ASSUME NEW k \in DOMAIN r
      PROVE  \/ \E i \in DOMAIN A : r[k] = A[i]
             \/ \E i \in DOMAIN B : k = Len(A) + i /\ r[k] = B[i]
  <2>1. CASE k <= Len(A)
    BY <1>1, <2>1
  <2>2. CASE ~(k <= Len(A))
    <3>1. k - Len(A) \in DOMAIN B /\ k = Len(A) + (k - Len(A)) /\ r[k] = B[k - Len(A)]
      BY <1>1, <2>2
    <3> QED
      BY <3>1
  <2> QED
    BY <2>1, <2>2
<1>3. \A i \in DOMAIN A : i \in DOMAIN r /\ r[i] = A[i]
  BY <1>1
<1>4. \A i \in DOMAIN B : Len(A) + i \in DOMAIN r /\ r[Len(A) + i] = B[i]
  BY <1>1
<1>5. /\ \A i \in DOMAIN A : \E k \in DOMAIN r : r[k] = A[i]
      /\ \A i \in DOMAIN B : \E k \in DOMAIN r : r[k] = B[i]
  BY <1>3, <1>4
<1> QED
  BY <1>1, <1>2, <1>5 DEF r

\* A microtask takes itself off the queue.
LEMMA OneStep ==
    ASSUME IInv, IInv', NEW step, NEW ops, Runs(step, ops), NEW next \in Seq(Tasks), Continue(next)
    PROVE  /\ GoesOn(1, next)
           /\ Cardinality(Announced(next)) \in Nat
           /\ step # "notify" =>
                 /\ Cardinality(Announced(tasks)') =
                       Cardinality(Announced(tasks)) + Cardinality(Announced(next))
                 /\ Cardinality(Announced(tasks)) <= Cardinality(Announced(tasks)')
           /\ \A c \in Pullers : Now # Call("pull", c) => \A k \in DOMAIN tasks : TaskOf(k, c) => k > 1
<1>1. TypeOK /\ tasks \in Seq(Tasks) /\ OneHolder /\ OnePlaceEach
  BY DEF IInv, TypeOK
<1>2. tasks # <<>> /\ tasks[1].handler = Now /\ tasks[1].step = step
  BY <1>1, RunsFacts
<1>3. GoesOn(1, next)
  BY <1>1, <1>2, QueueContinues
<1>4. Cardinality(Announced(next)) \in Nat
  BY AnnouncedFinite
<1>5. ASSUME step # "notify"
      PROVE  /\ Cardinality(Announced(tasks)') =
                    Cardinality(Announced(tasks)) + Cardinality(Announced(next))
             /\ Cardinality(Announced(tasks)) <= Cardinality(Announced(tasks)')
  <2>1. Head(tasks) = tasks[1] /\ Head(tasks) \in Tasks
    BY <1>1, <1>2
  <2>2. Cardinality(Announced(<<Head(tasks)>>)) = 0
    BY <1>2, <1>5, <2>1, AnnouncedOne
  <2>3. Cardinality(Announced(tasks)) \in Nat
    BY Numbers
  <2>4. Cardinality(Announced(tasks)') = Cardinality(Announced(tasks)) - 0 + Cardinality(Announced(next))
    BY <1>1, <1>2, <2>2, AnnouncedAfter
  <2> QED
    BY <1>4, <2>3, <2>4
<1>6. ASSUME NEW c \in Pullers, Now # Call("pull", c), NEW k \in DOMAIN tasks, TaskOf(k, c)
      PROVE  k > 1
  BY <1>1, <1>2, <1>6 DEF TaskOf
<1> QED
  BY <1>3, <1>4, <1>5, <1>6

\* Whoever the microtask is not for is further back in the queue.
LEMMA HeadElsewhere ==
    ASSUME IInv, NEW step, NEW ops, Runs(step, ops), NEW c \in Pullers,
           \/ \E i \in DOMAIN tasks : TaskOf(i, c) /\ tasks[i].step # step
           \/ \E i \in DOMAIN lock : InLineOf(i, c)
    PROVE  \A k \in DOMAIN tasks : TaskOf(k, c) => k > 1
<1>1. TypeOK /\ OneHolder /\ OnePlaceEach /\ \A k \in DOMAIN tasks : k \in Nat /\ k > 0
  BY DEF IInv, TypeOK
<1>2. 1 \in DOMAIN tasks /\ tasks[1].handler = Now /\ tasks[1].step = step
  BY <1>1, RunsFacts
<1>3. Now # Call("pull", c)
  <2> SUFFICES ASSUME Now = Call("pull", c)
               PROVE  FALSE
    OBVIOUS
  <2>1. /\ \A k \in DOMAIN tasks : TaskOf(k, c) => k = 1
        /\ \A k \in DOMAIN lock : ~InLineOf(k, c)
    BY <1>1, <1>2, RunsFacts
  <2> QED
    BY <1>2, <2>1
<1> QED
  BY <1>1, <1>2, <1>3 DEF TaskOf

LEMMA HeadNotComing ==
    ASSUME IInv, NEW step, NEW ops, Runs(step, ops), step \notin ToTheLock, NEW c \in Coming
    PROVE  \A k \in DOMAIN tasks : TaskOf(k, c) => k > 1
<1>1. c \in Pullers /\ \/ \E i \in DOMAIN tasks : TaskOf(i, c) /\ tasks[i].step # step
                       \/ \E i \in DOMAIN lock : InLineOf(i, c)
  BY DEF Coming, OnTheWay
<1> QED
  BY <1>1, HeadElsewhere

LEMMA HeadNotInGap ==
    ASSUME IInv, NEW step, NEW ops, Runs(step, ops), step \notin AfterTheTry, NEW c \in Gap
    PROVE  \A k \in DOMAIN tasks : TaskOf(k, c) => k > 1
<1>1. c \in Pullers /\ \E i \in DOMAIN tasks : TaskOf(i, c) /\ tasks[i].step # step
  BY DEF Gap, InGap
<1> QED
  BY <1>1, HeadElsewhere

LEMMA HeadInGap ==
    ASSUME IInv, NEW step \in AfterTheTry, NEW ops, Runs(step, ops),
           NEW c \in Pullers, Now = Call("pull", c)
    PROVE  /\ InGap(c, step) /\ (pc[c] = "running" /\ Stays(c) => c \in Gap)
           /\ pc[c] # "idle" /\ pc[c] # "asleep" /\ c \notin Coming
<1>1. TypeOK /\ OneHolder /\ OnePlaceEach
  BY DEF IInv
<1>2. /\ 1 \in DOMAIN tasks /\ tasks[1].handler = Now /\ tasks[1].step = step
      /\ \A k \in DOMAIN tasks : TaskOf(k, c) => k = 1
      /\ \A k \in DOMAIN lock : ~InLineOf(k, c)
  BY <1>1, RunsFacts
<1>3. InGap(c, step)
  BY <1>2 DEF InGap, TaskOf
<1>4. pc[c] # "idle" /\ pc[c] # "asleep"
  BY <1>1, <1>3, UnderWay DEF Awake
<1>5. c \notin Coming
  BY <1>2 DEF Coming, OnTheWay, ToTheLock, AfterTheTry
<1> QED
  BY <1>3, <1>4, <1>5 DEF Gap

\* Who asks for the lock.
LEMMA AskWakes ==
    ASSUME WInv, IInv', UNCHANGED hazards, UNCHANGED jobVars,
           NEW h \in Handlers, Acquire(h),
           WakeupsPromised => h.op \notin Silent /\ ("leave" \in hazards => h.op \notin Delays),
           NEW d, GoesOn(d, Granted(h)), \A k \in Holders(tasks) : k > d,
           Cardinality(Announced(tasks)) <= Cardinality(Announced(tasks)'),
           \A c \in Coming :
              (pc'[c] = pc[c] /\ \A k \in DOMAIN tasks : TaskOf(k, c) => k > d) \/ c \in Coming',
           \A c \in Gap : (\A k \in DOMAIN tasks : TaskOf(k, c) => k > d) /\ pc'[c] = pc[c],
           \A c \in Pullers : pc'[c] = "running" => pc[c] # "served",
           Sleepers' \subseteq Sleepers, Steady, \A c \in Sleepers : overdue'[c] = overdue[c],
           UNCHANGED <<waiterVars, timer>>
    PROVE  WInv'
<1>1. IInv /\ TypeOK /\ LockRuns /\ InOrder(tasks) /\ tasks \in Seq(Tasks)
  BY DEF WInv, IInv, TypeOK
<1>2. Granted(h) \in Seq(Tasks) /\ \A k \in DOMAIN Granted(h) : Granted(h)[k].step = "section"
  BY GrantedTask
<1>3. LineOn(Granted(h))
  BY <1>1, LineStays
<1>4. Promises <= Promises' /\ Gap' \subseteq Gap
  BY <1>1, <1>2, <1>3, NobodyLost DEF AfterTheTry
<1>5. InOrder(tasks')
  BY <1>1, <1>2, OrderKept
<1>6. LockRuns'
  <2>1. lock = <<>> => Holders(Granted(h)) # {}
    <3>1. ASSUME lock = <<>>
          PROVE  1 \in DOMAIN Granted(h)
      BY <3>1 DEF Granted
    <3> QED
      BY <1>2, <3>1 DEF Holders, Holding
  <2> QED
    BY <1>1, <2>1, LockRunsKept
<1>7. \A S \in SUBSET Told : Last(S) => Last(S)'
  <2>1. entries' = entries /\ timer' = timer
    BY DEF waiterVars
  <2> QED
    BY <1>1, <1>4, <2>1, LastUnmoved
<1>8. Calm
  BY <1>1 DEF Calm, jobVars, TypeOK
<1>9. pending' = pending
  BY DEF waiterVars
<1> QED
  BY <1>1, <1>4, <1>5, <1>6, <1>7, <1>8, <1>9, NoJobMoves

LEMMA PullWakes ==
    ASSUME WInv, IInv', UNCHANGED hazards, NEW c \in Pullers, Pull(c)
    PROVE  WInv'
<1> DEFINE h == Call("pull", c)
<1>1. /\ IInv /\ tasks \in Seq(Tasks) /\ pc \in [Pullers -> {"idle", "running", "served", "asleep"}]
      /\ overdue \in [Pullers -> BOOLEAN]
  BY DEF WInv, IInv, TypeOK
<1>2. /\ pc[c] = "idle" /\ pc' = [pc EXCEPT ![c] = "running"]
      /\ Acquire(h) /\ tasks' = tasks \o Granted(h)
      /\ UNCHANGED jobVars /\ UNCHANGED <<waiterVars, timer>>
      /\ \E noWait \in BOOLEAN : overdue' = [overdue EXCEPT ![c] = noWait]
  BY DEF Pull
<1>3. h \in Handlers /\ h.op \notin Silent /\ h.op \notin Delays
  BY DEF Handlers, Call, Delays, Silent
<1> HIDE DEF h
<1>4. Granted(h) \in Seq(Tasks)
  BY <1>3, GrantedTask
<1>5. GoesOn(0, Granted(h))
  BY <1>1, <1>2, <1>4, QueueGrows
<1>6. Cardinality(Announced(tasks)) <= Cardinality(Announced(tasks)')
  BY <1>1, <1>2, <1>4, AnnouncedGrows
<1>7. /\ \A b \in Pullers : pc'[b] = "running" => pc[b] # "served"
      /\ Sleepers' \subseteq Sleepers /\ (\A b \in Gap : pc'[b] = pc[b])
      /\ \A b \in Coming : pc'[b] = pc[b]
  BY <1>1, <1>2 DEF Sleepers, Gap, Coming
<1>8. \A k \in DOMAIN tasks : k > 0
  BY <1>1
<1>9. \A b \in Pullers \ {c} : overdue'[b] = overdue[b]
  BY <1>1, <1>2
<1>10. Steady /\ \A b \in Sleepers : overdue'[b] = overdue[b]
  BY <1>2, <1>9, SteadyBy DEF Sleepers
<1> QED
  BY <1>1, <1>2, <1>3, <1>5, <1>6, <1>7, <1>8, <1>10, AskWakes DEF Holders

LEMMA CallsComeInWakes ==
    ASSUME WInv, IInv', UNCHANGED hazards, NEW h \in Handlers, CallsComeIn(h)
    PROVE  WInv'
<1>1. IInv /\ tasks \in Seq(Tasks)
  BY DEF WInv, IInv, TypeOK
<1>2. /\ Acquire(h) /\ tasks' = tasks \o Granted(h)
      /\ h.op \in Delays => "delay" \in hazards
      /\ h.op \in Silent => "silent" \in hazards
      /\ UNCHANGED jobVars /\ UNCHANGED <<waiterVars, timer>> /\ pc' = pc /\ overdue' = overdue
  BY DEF CallsComeIn, MayDelay, pullerVars
<1>3. Granted(h) \in Seq(Tasks)
  BY GrantedTask
<1>4. GoesOn(0, Granted(h))
  BY <1>1, <1>2, <1>3, QueueGrows
<1>5. Cardinality(Announced(tasks)) <= Cardinality(Announced(tasks)')
  BY <1>1, <1>2, <1>3, AnnouncedGrows
<1>6. WakeupsPromised => h.op \notin Silent /\ ("leave" \in hazards => h.op \notin Delays)
  BY <1>2 DEF WakeupsPromised
<1>7. Sleepers' = Sleepers /\ Steady
  BY <1>2, SteadyBy DEF Sleepers
<1>8. \A k \in DOMAIN tasks : k > 0
  BY <1>1
<1> QED
  BY <1>1, <1>2, <1>4, <1>5, <1>6, <1>7, <1>8, AskWakes DEF Holders

LEMMA TryAgainWakes ==
    ASSUME WInv, IInv', UNCHANGED hazards, TryAgain
    PROVE  WInv'
<1>1. IInv /\ TypeOK /\ OneHolder /\ OnePlaceEach
  BY DEF WInv, IInv
<1>2. /\ Runs("again", {"pull"}) /\ Acquire(Now) /\ Continue(Granted(Now))
      /\ UNCHANGED jobVars /\ UNCHANGED <<waiterVars, timer>> /\ pc' = pc /\ overdue' = overdue
  BY DEF TryAgain, pullerVars
<1>3. /\ Now \in Handlers /\ Now.op = "pull" /\ Now.arg \in Pullers /\ Now = Call("pull", Now.arg)
      /\ \A k \in Holders(tasks) : k > 1
  <2>1. "again" \notin Holding
    BY DEF Holding
  <2> QED
    BY <1>1, <1>2, <2>1, RunsFacts
<1>4. Granted(Now) \in Seq(Tasks) /\ \A k \in DOMAIN Granted(Now) : Granted(Now)[k].step = "section"
  BY <1>3, GrantedTask
<1>5. /\ GoesOn(1, Granted(Now))
      /\ Cardinality(Announced(tasks)) <= Cardinality(Announced(tasks)')
      /\ \A c \in Pullers : Now # Call("pull", c) => \A k \in DOMAIN tasks : TaskOf(k, c) => k > 1
  BY <1>1, <1>2, <1>4, OneStep
<1>6. \A c \in Pullers : Now = Call("pull", c) /\ Stays(c)' /\ pc'[c] = "running" => c \in Coming'
  <2> SUFFICES ASSUME NEW c \in Pullers, Now = Call("pull", c), Stays(c)', pc'[c] = "running"
               PROVE  c \in Coming'
    OBVIOUS
  <2>1. CASE lock = <<>>
    <3>1. 1 \in DOMAIN Granted(Now) /\ Granted(Now)[1].handler = Now
      BY <2>1 DEF Granted, Task
    <3> QED
      BY <1>4, <1>5, <3>1, ComingNew DEF ToTheLock
  <2>2. CASE lock # <<>>
    <3>1. Len(lock) \in Nat /\ Len(lock) > 0
      BY <1>1, <2>2 DEF TypeOK
    <3>2. Len(lock) + 1 \in DOMAIN lock' /\ lock'[Len(lock) + 1] = Now
      BY <1>1, <1>2, <1>3, <3>1, LineGrows
    <3>3. PICK i \in DOMAIN lock' : i > 1 /\ lock'[i] = Call("pull", c)
      BY <3>1, <3>2
    <3> QED
      BY <3>3 DEF Coming, OnTheWay, InLineOf
  <2> QED
    BY <2>1, <2>2
<1>7. \A c \in Coming : (\A k \in DOMAIN tasks : TaskOf(k, c) => k > 1) \/ c \in Coming'
  <2>1. \A c \in Coming : c \in Pullers /\ Stays(c)' /\ pc'[c] = "running"
    BY <1>2 DEF Coming, Stays
  <2> QED
    BY <1>5, <1>6, <2>1
<1>8. Sleepers' = Sleepers /\ Steady
  BY <1>2, SteadyBy DEF Sleepers
<1>9. Now.op \notin Silent /\ Now.op \notin Delays
  BY <1>3 DEF Delays, Silent
<1>10. \A c \in Gap : \A k \in DOMAIN tasks : TaskOf(k, c) => k > 1
  BY <1>1, <1>2, HeadNotInGap DEF AfterTheTry
<1> QED
  BY <1>2, <1>3, <1>5, <1>7, <1>8, <1>9, <1>10, AskWakes

\* A handler that has the lock gives it to the next in line.
\* One step further in the gap: the order stays what it was.
LEMMA FurtherInGap ==
    ASSUME IInv, Steady, InOrder(tasks), NEW s, NEW t, NEW ops, Runs(s, ops),
           (s = "release" /\ t = "tried") \/ (s = "tried" /\ t = "decide"),
           NEW next, GoesOn(1, next), Gap' \subseteq Gap,
           \A c \in Pullers : Now = Call("pull", c) => InGap(c, t)',
           pc' = pc, timer' = timer, entries' = entries, NEW S, Last(S)
    PROVE  Last(S)'
<1>1. TypeOK /\ OneHolder /\ OnePlaceEach /\ Waits(entries, activeWaiters, Sleepers)
  BY DEF IInv
<1>2. /\ 1 \in DOMAIN tasks /\ tasks[1].step = s /\ tasks[1].handler = Now
      /\ \A i \in DOMAIN tasks : i \in Nat /\ i > 0
  <2>1. \A i \in DOMAIN tasks : i \in Nat /\ i > 0
    BY <1>1 DEF TypeOK
  <2> QED
    BY <1>1, <2>1, RunsFacts
<1>3. ASSUME NEW c \in Gap, Now # Call("pull", c)
      PROVE  \A k \in DOMAIN tasks : TaskOf(k, c) => k > 1
  BY <1>2, <1>3 DEF TaskOf
<1>4. ASSUME NEW c \in Gap, Now = Call("pull", c)
      PROVE  InGap(c, s) /\ InGap(c, t)'
  <2>1. c \in Pullers
    BY DEF Gap
  <2>2. s \in AfterTheTry
    BY DEF AfterTheTry
  <2> QED
    BY <1>4, <2>1, <2>2, HeadInGap
<1>5. ASSUME NEW c \in Gap
      PROVE  c \in Gap'
  <2>1. CASE Now = Call("pull", c)
    <3>1. t \in AfterTheTry /\ InGap(c, t)' /\ pc[c] # "idle" /\ pc'[c] = pc[c]
      BY <1>4, <2>1 DEF AfterTheTry, Gap
    <3> QED
      BY <3>1 DEF Gap, Steady
  <2>2. CASE Now # Call("pull", c)
    BY <1>3, <2>2, StaysInGap
  <2> QED
    BY <2>1, <2>2
<1>6. ASSUME NEW b \in Gap, NEW c \in Gap, b # c, Precedes(b, c)
      PROVE  Precedes(b, c)'
  <2>1. PICK p \in Earlier : InGap(b, p[1]) /\ InGap(c, p[2])
    BY <1>6 DEF Precedes
  <2>2. b \in Pullers /\ c \in Pullers
    BY DEF Gap
  <2>3. CASE Now = Call("pull", b)
    <3>1. Now # Call("pull", c)
      BY <1>6, <2>3 DEF Call
    <3>2. InGap(c, p[2])'
      BY <1>3, <2>1, <3>1, StepKept
    <3>3. p[1] = s /\ InGap(b, t)'
      BY <1>1, <1>4, <2>1, <2>2, <2>3, StepInGap
    <3>4. <<t, p[2]>> \in Earlier
      BY <2>1, <3>3 DEF Earlier
    <3> QED
      BY <3>2, <3>3, <3>4 DEF Precedes
  <2>4. CASE Now = Call("pull", c)
    <3>1. Now # Call("pull", b)
      BY <1>6, <2>4 DEF Call
    <3>2. InGap(b, p[1])'
      BY <1>3, <2>1, <3>1, StepKept
    <3>3. p[2] = s /\ InGap(c, t)'
      BY <1>1, <1>4, <2>1, <2>2, <2>4, StepInGap
    <3>4. PICK i \in DOMAIN tasks : tasks[i].step = p[1]
      BY <2>1 DEF InGap
    <3>5. ~(i < 1)
      BY <1>2
    <3>6. p[1] # "tried" \/ s # "release"
      BY <1>2, <3>4, <3>5 DEF InOrder
    <3>7. p[1] # "decide" \/ s # "tried"
      BY <1>2, <3>4, <3>5 DEF InOrder
    <3>8. <<p[1], t>> \in Earlier
      BY <2>1, <3>3, <3>6, <3>7 DEF Earlier
    <3> QED
      BY <3>2, <3>3, <3>8 DEF Precedes
  <2>5. CASE Now # Call("pull", b) /\ Now # Call("pull", c)
    <3>1. InGap(b, p[1])' /\ InGap(c, p[2])'
      BY <1>3, <2>1, <2>5, StepKept
    <3> QED
      BY <3>1 DEF Precedes
  <2> QED
    BY <2>3, <2>4, <2>5
<1> QED
  BY <1>1, <1>5, <1>6, LastKept

\* The same when not even a puller changes.
LEMMA AloneWakes ==
    ASSUME WInv, IInv', UNCHANGED hazards, UNCHANGED jobVars, UNCHANGED <<waiterVars, pullerVars>>,
           Promises <= Promises', Gap' \subseteq Gap, \A S \in SUBSET Told : Last(S) => Last(S)',
           LockRuns', InOrder(tasks'), lock' = lock \/ (lock # <<>> /\ Release)
    PROVE  WInv'
<1>1. IInv /\ TypeOK
  BY DEF WInv, IInv
<1>2. pc' = pc /\ timer' = timer /\ overdue' = overdue /\ pending' = pending /\ delayed' = delayed
  BY DEF waiterVars, pullerVars, jobVars
<1>3. Calm /\ Sleepers' = Sleepers
  BY <1>1, <1>2 DEF Calm, Sleepers, TypeOK
<1> QED
  BY <1>2, <1>3, NoJobMoves

\* A handler that has the lock gives it to the next in line.
LEMMA HandoverFacts ==
    ASSUME TypeOK, lock # <<>>
    PROVE  /\ Handover \in Seq(Tasks)
           /\ \A k \in DOMAIN Handover : Handover[k].step = "section"
<1>1. lock \in Seq(Handlers) /\ Len(lock) \in Nat /\ DOMAIN lock = 1..Len(lock)
  BY DEF TypeOK
<1>2. CASE Len(lock) > 1
  <2>1. lock[2] \in Handlers
    BY <1>1, <1>2
  <2>2. Task("section", lock[2]) \in Tasks /\ Task("section", lock[2]).step = "section"
    BY <2>1 DEF Task, Tasks
  <2> QED
    BY <1>2, <2>2 DEF Handover
<1>3. CASE ~(Len(lock) > 1)
  BY <1>3 DEF Handover
<1> QED
  BY <1>2, <1>3

LEMMA ReleaseSectionWakes ==
    ASSUME WInv, IInv', UNCHANGED hazards, ReleaseSection
    PROVE  WInv'
<1> DEFINE own == IF Now.op = "pull" THEN <<Task("tried", Now)>> ELSE <<>>
           next == Handover \o own
<1>1. /\ IInv /\ TypeOK /\ OneHolder /\ OnePlaceEach /\ tasks \in Seq(Tasks)
      /\ LockRuns /\ InOrder(tasks)
  BY DEF WInv, IInv, TypeOK
<1>2. /\ Runs("release", {"pull"} \cup Releases) /\ Release /\ Continue(next)
      /\ UNCHANGED jobVars /\ UNCHANGED <<waiterVars, pullerVars>>
  BY DEF ReleaseSection
<1>3. /\ lock # <<>> /\ tasks # <<>> /\ tasks[1].step = "release" /\ Now \in Handlers
      /\ \A k \in Holders(tasks) : k = 1
  <2>1. "release" \in Holding
    BY DEF Holding
  <2> QED
    BY <1>1, <1>2, <2>1, RunsFacts
<1>4. Handover \in Seq(Tasks) /\ \A k \in DOMAIN Handover : Handover[k].step = "section"
  BY <1>1, <1>3, HandoverFacts
<1>5. own \in Seq(Tasks) /\ \A k \in DOMAIN own : k = 1 /\ own[k] = Task("tried", Now)
  <2>1. Task("tried", Now) \in Tasks
    BY <1>3 DEF Task, Tasks
  <2> QED
    BY <2>1
<1> HIDE DEF own
<1>6. /\ next \in Seq(Tasks)
      /\ \A k \in DOMAIN next : \/ next[k].step = "section"
                                \/ k = Len(Handover) + 1 /\ next[k] = Task("tried", Now)
      /\ \A i \in DOMAIN Handover : \E k \in DOMAIN next : next[k] = Handover[i]
      /\ \A i \in DOMAIN own : \E k \in DOMAIN next : next[k] = own[i]
  <2>1. /\ next \in Seq(Tasks)
        /\ \A i \in DOMAIN Handover : \E k \in DOMAIN next : next[k] = Handover[i]
        /\ \A i \in DOMAIN own : \E k \in DOMAIN next : next[k] = own[i]
        /\ \A k \in DOMAIN next : \/ \E i \in DOMAIN Handover : next[k] = Handover[i]
                                  \/ \E i \in DOMAIN own : k = Len(Handover) + i /\ next[k] = own[i]
    BY <1>4, <1>5, Joined
  <2> HIDE DEF next
  <2> QED
    BY <1>4, <1>5, <2>1
<1> HIDE DEF next
<1>7. /\ GoesOn(1, next)
      /\ Cardinality(Announced(tasks)) <= Cardinality(Announced(tasks)')
  BY <1>1, <1>2, <1>6, OneStep
<1>8. LineOn(next)
  BY <1>1, <1>2, <1>6, LineStays
<1>9. \A k \in DOMAIN next : next[k].step \in {"section", "tried"}
  BY <1>6 DEF Task
<1>10. InOrder(tasks')
  <2>1. \A k, m \in DOMAIN next : next[k].step = "tried" /\ next[m].step = "tried" => k = m
    BY <1>6
  <2> QED
    BY <1>1, <1>3, <1>6, <1>7, <1>9, <2>1, OrderTried
<1>11. LockRuns'
  <2>1. lock' = <<>> \/ Holders(next) # {}
    <3>1. CASE 1 \in DOMAIN Handover /\ Handover[1].step = "section"
      <4>1. \E k \in DOMAIN next : next[k].step = "section"
        BY <1>6, <3>1
      <4> QED
        BY <4>1 DEF Holders, Holding
    <3> QED
      BY <1>1, <1>2, <1>3, <3>1, HandedOn
  <2> QED
    BY <1>1, <1>7, <2>1, LockRunsKept
<1>12. \A c \in Pullers : \A k \in DOMAIN next :
          /\ next[k].handler = Call("pull", c) /\ next[k].step \in AfterTheTry
          /\ pc'[c] = "running" /\ Stays(c)'
          => c \in Gap
  <2> SUFFICES ASSUME NEW c \in Pullers, NEW k \in DOMAIN next, next[k].handler = Call("pull", c),
                      next[k].step \in AfterTheTry, pc'[c] = "running", Stays(c)'
               PROVE  c \in Gap
    OBVIOUS
  <2>1. next[k] = Task("tried", Now)
    BY <1>6 DEF AfterTheTry
  <2>2. Now = Call("pull", c)
    BY <2>1 DEF Task
  <2>3. "release" \in AfterTheTry
    BY DEF AfterTheTry
  <2>4. pc[c] = "running" /\ Stays(c)
    BY <1>2 DEF Stays, pullerVars
  <2> QED
    BY <1>1, <1>2, <2>2, <2>3, <2>4, HeadInGap
<1>13. \A c \in Coming : \A k \in DOMAIN tasks : TaskOf(k, c) => k > 1
  BY <1>1, <1>2, HeadNotComing DEF ToTheLock
<1>14. Steady
  BY <1>2, SteadyBy DEF pullerVars
<1>15. Promises <= Promises' /\ Gap' \subseteq Gap
  BY <1>1, <1>2, <1>7, <1>8, <1>12, <1>13, <1>14, NobodyLost DEF pullerVars
<1>16. \A c \in Pullers : Now = Call("pull", c) => InGap(c, "tried")'
  <2> SUFFICES ASSUME NEW c \in Pullers, Now = Call("pull", c)
               PROVE  InGap(c, "tried")'
    OBVIOUS
  <2>1. 1 \in DOMAIN own /\ own[1] = Task("tried", Now)
    BY DEF own, Call
  <2>2. \E k \in DOMAIN next : next[k] = Task("tried", Now)
    BY <1>6, <2>1
  <2>3. \E i \in DOMAIN tasks' : tasks'[i] = Task("tried", Now)
    BY <1>7, <2>2 DEF GoesOn
  <2> QED
    BY <2>3 DEF InGap, TaskOf, Task
<1>17. \A S \in SUBSET Told : Last(S) => Last(S)'
  <2>1. pc' = pc /\ timer' = timer /\ entries' = entries
    BY <1>2 DEF waiterVars, pullerVars
  <2> QED
    BY <1>1, <1>2, <1>7, <1>15, <1>14, <1>16, <2>1, FurtherInGap
<1> QED
  BY <1>1, <1>2, <1>3, <1>10, <1>11, <1>15, <1>17, AloneWakes

\* Away from the lock, whoever has it goes on.
LEMMA LockRunsBeside ==
    ASSUME WInv, NEW step, NEW ops, Runs(step, ops), step \notin Holding,
           NEW next, GoesOn(1, next), lock' = lock
    PROVE  LockRuns'
<1>1. TypeOK /\ OneHolder /\ OnePlaceEach /\ LockRuns
  BY DEF WInv, IInv
<1>2. \A k \in Holders(tasks) : k > 1
  BY <1>1, RunsFacts
<1> QED
  BY <1>1, <1>2, LockRunsKept

LEMMA AwaitWakes ==
    ASSUME WInv, IInv', UNCHANGED hazards, Await
    PROVE  WInv'
<1>1. /\ IInv /\ TypeOK /\ OneHolder /\ OnePlaceEach /\ tasks \in Seq(Tasks) /\ InOrder(tasks)
  BY DEF WInv, IInv, TypeOK
<1>2. PICK step \in {"tried", "woken"} :
         Runs(step, {"pull"}) /\ Continue(<<Task(IF step = "tried" THEN "decide" ELSE "again", Now)>>)
  BY DEF Await
<1>3. UNCHANGED jobVars /\ UNCHANGED <<waiterVars, pullerVars>> /\ lock' = lock
  BY DEF Await
<1> DEFINE t == Task(IF step = "tried" THEN "decide" ELSE "again", Now)
           next == <<t>>
<1>4. tasks # <<>> /\ tasks[1].step = step /\ Now \in Handlers
  BY <1>1, <1>2, RunsFacts
<1>5. /\ t \in Tasks /\ t.handler = Now
      /\ t.step = IF step = "tried" THEN "decide" ELSE "again"
  BY <1>4 DEF Task, Tasks
<1> HIDE DEF t
<1>6. next \in Seq(Tasks) /\ DOMAIN next = {1} /\ next[1] = t
  BY <1>5
<1>7. Continue(next)
  BY <1>2 DEF t
<1> HIDE DEF next
<1>8. /\ GoesOn(1, next)
      /\ Cardinality(Announced(tasks)) <= Cardinality(Announced(tasks)')
      /\ \A c \in Pullers : Now # Call("pull", c) => \A k \in DOMAIN tasks : TaskOf(k, c) => k > 1
  BY <1>1, <1>2, <1>6, <1>7, OneStep
<1>9. LineOn(next)
  BY <1>1, <1>3, LineStays
<1>10. LockRuns'
  <2>1. step \notin Holding
    BY DEF Holding
  <2> QED
    BY <1>2, <1>3, <1>8, <2>1, LockRunsBeside
<1>11. Steady
  BY <1>3, SteadyBy DEF pullerVars
<1>12. /\ InOrder(tasks')
       /\ \A c \in Coming : (\A k \in DOMAIN tasks : TaskOf(k, c) => k > 1) \/ c \in Coming'
       /\ \A c \in Pullers : \A k \in DOMAIN next :
             /\ next[k].handler = Call("pull", c) /\ next[k].step \in AfterTheTry
             /\ pc'[c] = "running" /\ Stays(c)'
             => c \in Gap
       /\ \A S \in SUBSET Told : Gap' \subseteq Gap => (Last(S) => Last(S)')
  <2>1. CASE step = "tried"
    <3>1. InOrder(tasks')
      BY <1>1, <1>4, <1>5, <1>6, <1>8, <2>1, OrderDecide
    <3>2. \A c \in Coming : \A k \in DOMAIN tasks : TaskOf(k, c) => k > 1
      BY <1>1, <1>2, <2>1, HeadNotComing DEF ToTheLock
    <3>3. \A c \in Pullers : Now = Call("pull", c) /\ pc[c] = "running" /\ Stays(c) => c \in Gap
      BY <1>1, <1>2, <2>1, HeadInGap DEF AfterTheTry
    <3>4. \A c \in Pullers : pc'[c] = pc[c] /\ (Stays(c)' <=> Stays(c))
      BY <1>3 DEF pullerVars, Stays
    <3>5. \A c \in Pullers : Now = Call("pull", c) => InGap(c, "decide")'
      <4>1. \E i \in DOMAIN tasks' : tasks'[i] = t
        BY <1>6, <1>8 DEF GoesOn
      <4> QED
        BY <1>5, <2>1, <4>1 DEF InGap, TaskOf
    <3>6. pc' = pc /\ timer' = timer /\ entries' = entries /\ Runs("tried", {"pull"})
      BY <1>2, <1>3, <2>1 DEF waiterVars, pullerVars
    <3>7. \A S \in SUBSET Told : Gap' \subseteq Gap => (Last(S) => Last(S)')
      BY <1>1, <1>8, <1>11, <3>5, <3>6, FurtherInGap
    <3> QED
      BY <1>3, <1>5, <1>6, <3>1, <3>2, <3>3, <3>4, <3>7
  <2>2. CASE step = "woken"
    <3>1. InOrder(tasks')
      BY <1>1, <1>5, <1>6, <1>8, <2>2, OrderKept
    <3>2. \A c \in Pullers : Now = Call("pull", c) /\ Stays(c)' /\ pc'[c] = "running" => c \in Coming'
      BY <1>5, <1>6, <1>8, <2>2, ComingNew DEF ToTheLock
    <3>3. \A c \in Coming : c \in Pullers /\ Stays(c)' /\ pc'[c] = "running"
      BY <1>3 DEF Coming, Stays, pullerVars
    <3>4. \A c \in Coming : (\A k \in DOMAIN tasks : TaskOf(k, c) => k > 1) \/ c \in Coming'
      BY <1>8, <3>2, <3>3
    <3>5. \A k \in DOMAIN next : next[k].step \notin AfterTheTry
      BY <1>5, <1>6, <2>2 DEF AfterTheTry
    <3>6. \A c \in Gap : (\A k \in DOMAIN tasks : TaskOf(k, c) => k > 1)
      BY <1>1, <1>2, <2>2, HeadNotInGap DEF AfterTheTry
    <3>7. pc' = pc /\ timer' = timer /\ entries' = entries
      BY <1>3 DEF waiterVars, pullerVars
    <3>8. \A S \in SUBSET Told : Gap' \subseteq Gap => (Last(S) => Last(S)')
      BY <1>1, <1>8, <1>11, <3>6, <3>7, LastUnmoved
    <3> QED
      BY <3>1, <3>4, <3>5, <3>8
  <2> QED
    BY <2>1, <2>2
<1>13. Promises <= Promises' /\ Gap' \subseteq Gap
  BY <1>1, <1>3, <1>8, <1>9, <1>12, <1>11, NobodyLost DEF pullerVars
<1> QED
  BY <1>1, <1>3, <1>10, <1>12, <1>13, AloneWakes

LEMMA NothingNext == <<>> \in Seq(Tasks) /\ \A k \in DOMAIN <<>> : FALSE
OBVIOUS

\* No timer is set for a delayed job when polls may leave.
LEMMA NoTimers ==
    ASSUME TypeOK, NothingElse, "leave" \in hazards, NEW S \in SUBSET Told
    PROVE  ~Last(S)
<1>1. \A c \in Pullers : timer[c] \notin S
  BY DEF NothingElse, Told
<1>2. \A i \in LiveIn(entries) : entries[i].puller \in Pullers
  <2>1. \A i \in LiveIn(entries) : entries[i] \in Entries
    BY DEF TypeOK, LiveIn
  <2> QED
    BY <2>1 DEF Entries
<1> QED
  BY <1>1, <1>2 DEF Last, LastInGap, Youngest, Gap

LEMMA ReturnFromPullWakes ==
    ASSUME WInv, IInv', UNCHANGED hazards, ReturnFromPull
    PROVE  WInv'
<1> DEFINE next == <<>>
<1>1. /\ IInv /\ TypeOK /\ OneHolder /\ OnePlaceEach /\ tasks \in Seq(Tasks) /\ InOrder(tasks)
      /\ pc \in [Pullers -> {"idle", "running", "served", "asleep"}]
      /\ timer \in [Pullers -> {"deadline", "nextRun", "due"}] /\ overdue \in [Pullers -> BOOLEAN]
  BY DEF WInv, IInv, TypeOK
<1>2. /\ Runs("decide", {"pull"}) /\ Continue(next) /\ pc' = [pc EXCEPT ![Now.arg] = "idle"]
      /\ timer' = [timer EXCEPT ![Now.arg] = "deadline"]
      /\ overdue' = [overdue EXCEPT ![Now.arg] = FALSE]
      /\ pc[Now.arg] = "served" \/ overdue[Now.arg]
      /\ UNCHANGED jobVars /\ pending' = pending /\ lock' = lock /\ entries' = entries
  BY DEF ReturnFromPull, Return, waiterVars
<1> HIDE DEF next
<1>3. next \in Seq(Tasks) /\ \A k \in DOMAIN next : FALSE
  BY NothingNext DEF next
<1>4. PICK c \in Pullers : c = Now.arg /\ Now = Call("pull", c)
  BY <1>1, <1>2, RunsFacts
<1>5. \A b \in Pullers \ {c} : pc'[b] = pc[b] /\ timer'[b] = timer[b] /\ overdue'[b] = overdue[b]
  BY <1>1, <1>2, <1>4
<1>6. pc'[c] = "idle" /\ timer'[c] = "deadline" /\ Steady
  <2>1. pc'[c] = "idle" /\ timer'[c] = "deadline"
    BY <1>1, <1>2, <1>4
  <2> QED
    BY <1>5, <2>1, SteadyBy
<1>7. /\ GoesOn(1, next) /\ Cardinality(Announced(tasks)) <= Cardinality(Announced(tasks)')
      /\ \A b \in Pullers : Now # Call("pull", b) => \A k \in DOMAIN tasks : TaskOf(k, b) => k > 1
  BY <1>1, <1>2, <1>3, OneStep
<1>8. LineOn(next)
  BY <1>1, <1>2, LineStays
<1>9. LockRuns'
  BY <1>2, <1>7, LockRunsBeside DEF Holding
<1>10. InOrder(tasks')
  BY <1>1, <1>3, <1>7, OrderKept
<1>11. \A b \in Coming : pc'[b] = pc[b] /\ \A k \in DOMAIN tasks : TaskOf(k, b) => k > 1
  <2>1. c \notin Coming
    BY <1>1, <1>2, <1>4, HeadInGap DEF AfterTheTry
  <2>2. \A b \in Coming : \A k \in DOMAIN tasks : TaskOf(k, b) => k > 1
    BY <1>1, <1>2, HeadNotComing DEF ToTheLock
  <2> QED
    BY <1>5, <2>1, <2>2 DEF Coming
<1>12. /\ \A b \in Pullers : pc'[b] = "running" => pc[b] # "served"
      /\ Sleepers' \subseteq Sleepers /\ c \notin Sleepers
  <2>1. pc[c] # "asleep"
    BY <1>1, <1>2, <1>4, HeadInGap DEF AfterTheTry
  <2> QED
    BY <1>4, <1>5, <1>6, <2>1 DEF Sleepers
<1>13. Promises <= Promises' /\ Gap' \subseteq Gap
  BY <1>1, <1>3, <1>7, <1>8, <1>11, <1>12, <1>6, NobodyLost
<1>14. \A b \in Sleepers : timer'[b] = timer[b] /\ overdue'[b] = overdue[b]
  BY <1>12, <1>5 DEF Sleepers
<1>15. ASSUME NothingElse, NEW S \in SUBSET Told, Last(S)
       PROVE  Last(S)'
  <2>1. ~("leave" \in hazards)
    BY <1>1, <1>15, NoTimers
  <2>2. c \notin Gap
    BY <1>2, <1>4, <2>1 DEF Gap, Stays
  <2>3. \A b \in Gap : Now # Call("pull", b) /\ pc'[b] = pc[b] /\ timer'[b] = timer[b] /\ b \in Pullers
    BY <1>4, <1>5, <2>2 DEF Gap, Call
  <2>4. \A b \in Gap : \A k \in DOMAIN tasks : TaskOf(k, b) => k > 1
    BY <1>7, <2>3
  <2> QED
    BY <1>1, <1>2, <1>7, <1>13, <1>6, <1>14, <1>15, <2>3, <2>4, LastUnmoved
<1>16. Calm
  <2>1. delayed' = delayed
    BY <1>2 DEF jobVars
  <2>2. \A b \in Pullers : timer'[b] \in {timer[b], "deadline"}
    BY <1>5, <1>6
  <2> QED
    BY <1>12, <1>14, <2>1, <2>2 DEF Calm
<1> QED
  BY <1>2, <1>9, <1>10, <1>12, <1>13, <1>15, <1>16, NoJobMoves

\* The bit is used, and its puller is on the way again.
LEMMA BitWakes ==
    ASSUME WInv, IInv', UNCHANGED hazards, WaitForJob, pending
    PROVE  WInv'
<1>1. /\ IInv /\ TypeOK /\ OneHolder /\ OnePlaceEach /\ tasks \in Seq(Tasks) /\ InOrder(tasks)
      /\ timer \in [Pullers -> {"deadline", "nextRun", "due"}]
      /\ OnePlaceEach' /\ (WakeupsPromised => NothingElse /\ Promised) /\ PendingMeansNobodySleeps
  BY DEF WInv, IInv, TypeOK
<1>2. /\ Runs("decide", {"pull"}) /\ pc[Now.arg] = "running" /\ ~overdue[Now.arg]
      /\ UNCHANGED jobVars /\ lock' = lock /\ overdue' = overdue
      /\ timer' = [timer EXCEPT ![Now.arg] = "deadline"] /\ Continue(<<Task("woken", Now)>>)
      /\ pc' = pc
  BY DEF WaitForJob, MustWait
<1>3. PICK c \in Pullers : c = Now.arg /\ Now = Call("pull", c) /\ Now \in Handlers
  BY <1>1, <1>2, RunsFacts
<1>4. c \in Gap /\ c \notin Coming
  BY <1>1, <1>2, <1>3, HeadInGap DEF AfterTheTry, Stays
<1>5. \A b \in Coming : \A k \in DOMAIN tasks : TaskOf(k, b) => k > 1
  BY <1>1, <1>2, HeadNotComing DEF ToTheLock
<1> DEFINE t == Task("woken", Now)
           next == <<t>>
<1>6. t \in Tasks /\ t.step = "woken" /\ t.handler = Now
  BY <1>3 DEF Task, Tasks
<1>7. Continue(next)
  BY <1>2
<1> HIDE DEF t
<1>8. next \in Seq(Tasks) /\ DOMAIN next = {1} /\ next[1] = t
  BY <1>6
<1> HIDE DEF next
<1>9. GoesOn(1, next) /\ Cardinality(Announced(tasks)) <= Cardinality(Announced(tasks)')
  BY <1>1, <1>2, <1>7, <1>8, OneStep
<1>10. LineOn(next) /\ Steady
  BY <1>1, <1>2, LineStays, SteadyBy
<1>11. LockRuns'
  BY <1>2, <1>9, LockRunsBeside DEF Holding
<1>12. InOrder(tasks')
  BY <1>1, <1>6, <1>8, <1>9, OrderKept
<1>13. Gap' \subseteq Gap
  BY <1>1, <1>2, <1>5, <1>6, <1>8, <1>9, <1>10, NobodyLost DEF AfterTheTry
<1>14. c \in Coming'
  BY <1>2, <1>3, <1>6, <1>8, <1>9, ComingNew DEF ToTheLock, Stays
<1>15. Promises' \in Nat /\ 1 <= Promises'
  <2>1. Coming \subseteq Coming'
    BY <1>2, <1>5, <1>9, <1>10, ComingKept
  <2>2. {c} \in SUBSET Coming' /\ {c} \cap Coming = {} /\ Cardinality({c}) = 1
    BY <1>4, <1>14, FS_Singleton
  <2>3. Cardinality(Coming) + 1 <= Cardinality(Coming')
    BY <1>1, <2>1, <2>2, ComingGrows
  <2>4. /\ Cardinality(Coming) \in Nat /\ Cardinality(Coming') \in Nat
        /\ Cardinality(Announced(tasks)') \in Nat /\ Promises' \in Nat
    BY <1>1, Numbers
  <2> QED
    BY <2>3, <2>4 DEF Promises
<1>16. c \notin Gap'
  <2>1. PICK m \in DOMAIN tasks' : tasks'[m] = t
    BY <1>8, <1>9 DEF GoesOn
  <2>2. TaskOf(m, c)'
    BY <1>3, <1>6, <2>1 DEF TaskOf
  <2>3. \A k \in DOMAIN tasks' : TaskOf(k, c)' => m = k
    BY <1>1, <1>3, <2>1, <2>2 DEF OnePlaceEach, PlaceOf
  <2>4. \A k \in DOMAIN tasks' : TaskOf(k, c)' => tasks'[k].step = "woken"
    BY <1>6, <2>1, <2>3
  <2> QED
    BY <2>4 DEF Gap, InGap, AfterTheTry
<1>17. TakeableSoon' = TakeableSoon /\ TakeableSoon \in Nat /\ WakeupsPromised' = WakeupsPromised
  BY <1>1, <1>2, TakeableGrows, Numbers DEF WakeupsPromised
<1>18. ASSUME WakeupsPromised
       PROVE  NothingElse' /\ Promised'
  <2>1. NothingElse /\ Promised
    BY <1>1, <1>18
  <2>2. paused' = paused /\ delayed' = delayed
    BY <1>2 DEF jobVars
  <2>3. Sleepers' = Sleepers /\ Sleepers = {}
    BY <1>1, <1>2 DEF Sleepers, PendingMeansNobodySleeps
  <2>4. \A b \in Pullers : timer'[b] \in {timer[b], "deadline"}
    BY <1>1, <1>2, <1>3
  <2>5. Calm
    BY <2>2, <2>3, <2>4 DEF Calm
  <2>6. NothingElse'
    BY <1>1, <1>2, <2>1, <2>2, <2>5, ElseKept
  <2>7. ASSUME NEW b \in Gap'
        PROVE  Enough'
    <3>1. b \in Gap /\ b # c
      BY <1>13, <1>16
    <3>2. TakeableSoon <= 1
      BY <1>4, <2>1, <3>1 DEF Promised
    <3>3. TakeableSoon' <= Promises'
      BY <1>15, <1>17, <3>2
    <3> QED
      BY <3>3 DEF Enough
  <2>8. \A a, b \in Gap' : a # b => TakeableSoon' <= 1
    BY <1>13, <1>17, <2>1 DEF Promised
  <2>9. Promised'
    BY <2>3, <2>7, <2>8 DEF Promised
  <2> QED
    BY <2>6, <2>9
<1> QED
  BY <1>11, <1>12, <1>17, <1>18 DEF WInv

\* Who goes to sleep is the youngest sleeper, and was not the last in the gap
\* unless it was alone there.
LEMMA LastAsleep ==
    ASSUME IInv, IInv', Steady, NEW c \in Gap, InGap(c, "decide"), Gap' \subseteq Gap,
           NEW d, NEW next, GoesOn(d, next),
           \A b \in Pullers \ {c} : \A k \in DOMAIN tasks : TaskOf(k, b) => k > d,
           pc' = [pc EXCEPT ![c] = "asleep"], timer' = timer,
           entries' = Append(entries, [puller |-> c, cancelled |-> FALSE]), NEW S, Last(S)
    PROVE  Last(S)'
<1>1. /\ TypeOK /\ OnePlaceEach /\ pc \in [Pullers -> {"idle", "running", "served", "asleep"}]
      /\ entries \in Seq(Entries) /\ Len(entries) \in Nat /\ Gap \subseteq Pullers
  BY DEF IInv, TypeOK, Gap
<1>2. PICK x \in Gap : timer[x] \in S /\ \A b \in Gap \ {x} : Precedes(b, x)
  BY DEF Last, LastInGap
<1>3. c \notin Gap'
  BY <1>1 DEF Gap
<1>4. \A b \in Gap \ {c} : b \in Gap' /\ \A s : InGap(b, s) => InGap(b, s)'
  <2> SUFFICES ASSUME NEW b \in Gap \ {c}
               PROVE  b \in Gap' /\ \A s : InGap(b, s) => InGap(b, s)'
    OBVIOUS
  <2>1. pc'[b] = pc[b] /\ \A k \in DOMAIN tasks : TaskOf(k, b) => k > d
    BY <1>1
  <2> QED
    BY <2>1, StaysInGap, StepKept
<1>5. CASE x = c
  <2>1. ASSUME NEW b \in Gap \ {c}
        PROVE  FALSE
    <3>1. PICK p \in Earlier : InGap(c, p[2])
      BY <1>2, <1>5 DEF Precedes
    <3>2. p[2] = "decide"
      BY <1>1, <3>1, StepInGap
    <3> QED
      BY <3>2 DEF Earlier
  <2>2. Gap' = {}
    BY <1>3, <2>1
  <2>3. /\ DOMAIN entries' = 1..(Len(entries) + 1)
        /\ entries'[Len(entries) + 1] = [puller |-> c, cancelled |-> FALSE]
    <3>1. [puller |-> c, cancelled |-> FALSE] \in Entries
      BY <1>1 DEF Entries
    <3> QED
      BY <1>1, <3>1, AppendProperties
  <2>4. PICK i \in DOMAIN entries' : i = Len(entries) + 1
    BY <1>1, <2>3
  <2>5. i \in LiveIn(entries') /\ entries'[i].puller = c
    BY <2>3, <2>4 DEF LiveIn
  <2>6. \A k \in LiveIn(entries') : k <= i
    BY <1>1, <2>3, <2>4 DEF LiveIn
  <2>7. Youngest(S)'
    BY <1>2, <1>5, <2>5, <2>6 DEF Youngest, LiveIn
  <2> QED
    BY <2>2, <2>7 DEF Last
<1>6. CASE x # c
  <2>1. x \in Gap' /\ timer'[x] \in S
    BY <1>2, <1>4, <1>6
  <2>2. ASSUME NEW b \in Gap' \ {x}
        PROVE  Precedes(b, x)'
    <3>1. b \in Gap \ {c} /\ Precedes(b, x)
      BY <1>2, <1>3, <2>2
    <3>2. PICK p \in Earlier : InGap(b, p[1]) /\ InGap(x, p[2])
      BY <3>1 DEF Precedes
    <3>3. InGap(b, p[1])' /\ InGap(x, p[2])'
      BY <1>4, <1>6, <3>1, <3>2
    <3> QED
      BY <3>3 DEF Precedes
  <2>3. LastInGap(S)'
    BY <2>1, <2>2 DEF LastInGap
  <2> QED
    BY <2>3 DEF Last
<1> QED
  BY <1>5, <1>6

LEMMA SleepWakes ==
    ASSUME WInv, IInv', UNCHANGED hazards, WaitForJob, ~pending
    PROVE  WInv'
<1>1. /\ IInv /\ TypeOK /\ OneHolder /\ OnePlaceEach /\ tasks \in Seq(Tasks) /\ InOrder(tasks)
      /\ pc \in [Pullers -> {"idle", "running", "served", "asleep"}]
      /\ (WakeupsPromised => NothingElse /\ Promised)
  BY DEF WInv, IInv, TypeOK
<1>2. /\ Runs("decide", {"pull"}) /\ pc[Now.arg] = "running" /\ ~overdue[Now.arg]
      /\ UNCHANGED jobVars /\ lock' = lock /\ overdue' = overdue
      /\ timer' = timer /\ Sleep
  BY DEF WaitForJob, MustWait
<1>3. PICK c \in Pullers : c = Now.arg /\ Now = Call("pull", c)
  BY <1>1, <1>2, RunsFacts
<1>4. c \in Gap /\ InGap(c, "decide") /\ c \notin Coming
  BY <1>1, <1>2, <1>3, HeadInGap DEF AfterTheTry, Stays
<1> DEFINE next == <<>>
<1>5. /\ Continue(next) /\ pc' = [pc EXCEPT ![c] = "asleep"]
      /\ next \in Seq(Tasks) /\ (\A k \in DOMAIN next : FALSE)
      /\ entries' = Append(entries, [puller |-> c, cancelled |-> FALSE])
  BY <1>2, <1>3, NothingNext DEF Sleep
<1> HIDE DEF next
<1>6. /\ GoesOn(1, next) /\ Cardinality(Announced(tasks)) <= Cardinality(Announced(tasks)')
      /\ \A b \in Pullers : Now # Call("pull", b) => \A k \in DOMAIN tasks : TaskOf(k, b) => k > 1
  BY <1>1, <1>2, <1>5, OneStep
<1>7. LineOn(next) /\ Steady
  BY <1>1, <1>2, LineStays, SteadyBy
<1>8. LockRuns'
  BY <1>2, <1>6, LockRunsBeside DEF Holding
<1>9. InOrder(tasks')
  BY <1>1, <1>5, <1>6, OrderKept
<1>10. \A b \in Pullers : pc'[b] = "running" => pc[b] # "served"
  BY <1>1, <1>3, <1>5
<1>11. \A b \in Coming : pc'[b] = pc[b] /\ \A k \in DOMAIN tasks : TaskOf(k, b) => k > 1
  <2>1. \A b \in Coming : \A k \in DOMAIN tasks : TaskOf(k, b) => k > 1
    BY <1>1, <1>2, HeadNotComing DEF ToTheLock
  <2> QED
    BY <1>1, <1>4, <1>5, <2>1 DEF Coming
<1>12. Promises <= Promises' /\ Gap' \subseteq Gap
  BY <1>1, <1>11, <1>5, <1>6, <1>7, <1>10, NobodyLost
<1>13. /\ Takeable' = Takeable /\ TakeableSoon' = TakeableSoon /\ WakeupsPromised' = WakeupsPromised
       /\ Takeable \in Nat /\ TakeableSoon \in Nat
  BY <1>1, <1>2, TakeableGrows, Numbers DEF WakeupsPromised
<1>14. \A b \in Pullers \ {c} : \A k \in DOMAIN tasks : TaskOf(k, b) => k > 1
  <2>1. \A b \in Pullers \ {c} : Now # Call("pull", b)
    BY <1>3 DEF Call
  <2> QED
    BY <1>6, <2>1
<1>15. \A S \in SUBSET Told : Last(S) => Last(S)'
  BY <1>1, <1>2, <1>4, <1>5, <1>6, <1>7, <1>12, <1>14, LastAsleep
<1>16. ASSUME WakeupsPromised
       PROVE  NothingElse' /\ Promised'
  <2>1. NothingElse /\ Promised
    BY <1>1, <1>16
  <2>2. paused' = paused /\ delayed' = delayed
    BY <1>2 DEF jobVars
  <2>3. \A b \in Sleepers' : b \in Sleepers \/ b = c
    BY <1>1, <1>5 DEF Sleepers
  <2>4. Calm
    BY <1>2, <1>3, <2>2, <2>3 DEF Calm
  <2>5. NothingElse'
    BY <1>1, <1>2, <2>1, <2>2, <2>4, ElseKept
  <2>6. Enough
    BY <1>4, <2>1 DEF Promised
  <2>7. TakeableSoon' <= TakeableSoon /\ Takeable' <= Takeable
    BY <1>13
  <2>8. Enough'
    BY <1>1, <1>12, <1>15, <2>6, <2>7, EnoughStays
  <2>9. \A a, b \in Gap' : a # b => TakeableSoon' <= 1
    BY <1>12, <1>13, <2>1 DEF Promised
  <2> QED
    BY <2>5, <2>8, <2>9 DEF Promised
<1> QED
  BY <1>8, <1>9, <1>13, <1>16 DEF WInv

LEMMA WaitForJobWakes ==
    ASSUME WInv, IInv', UNCHANGED hazards, WaitForJob
    PROVE  WInv'
BY BitWakes, SleepWakes

\* A try takes as many jobs as it can.  When it takes none, none can be taken
\* before the delayed job is due.
LEMMA TakesFacts ==
    ASSUME IInv, NEW n \in Nat \ {0}, ~paused
    PROVE  /\ Takes(n) \in Nat /\ Takes(n) <= Takeable
           /\ Takes(n) = 0 => /\ Takeable = 0
                              /\ TakeableSoon = 0 \/ (TakeableSoon = 1 /\ ready = 0 /\ delayed)
<1>1. ready \in Nat /\ active \in Nat /\ active <= Limit /\ Limit \in Nat
  BY CountAssumption DEF IInv, TypeOK, SlotsInUse
<1>2. Limit - active \in Nat
  BY <1>1
<1> QED
  BY <1>1, <1>2 DEF Takes, Takeable, TakeableSoon, Smaller

\* A try that takes jobs lowers what can be taken by more than the promises.
LEMMA TryTakes ==
    ASSUME WInv, IInv', UNCHANGED hazards, PullSection, NEW n \in Nat \ {0},
           n = IF Now.arg \in Batchers THEN Count ELSE 1, Takes(n) > 0,
           NEW next, GoesOn(1, next), LineOn(next), LockRuns', InOrder(tasks'),
           Cardinality(Announced(tasks)) <= Cardinality(Announced(tasks)'),
           \A k \in DOMAIN next : next[k].handler = Now
    PROVE  WInv'
<1>1. /\ IInv /\ TypeOK /\ OneHolder /\ OnePlaceEach
      /\ pc \in [Pullers -> {"idle", "running", "served", "asleep"}]
      /\ (WakeupsPromised => NothingElse /\ Promised)
  BY DEF WInv, IInv, TypeOK
<1>2. Runs("section", {"pull"})
  BY DEF PullSection
<1>3. PICK c \in Pullers : c = Now.arg /\ Now = Call("pull", c) /\ pc[c] \in {"running", "served"}
  BY <1>1, <1>2, RunsFacts DEF Awake
<1>4. /\ ready' = ready - Takes(n) /\ active' = active + Takes(n)
      /\ pc' = [pc EXCEPT ![c] = "served"] /\ timer' = timer /\ overdue' = overdue
      /\ UNCHANGED <<delayed, paused, waiterVars>> /\ lock' = lock
  BY <1>3 DEF PullSection
<1>5. \A b \in Pullers \ {c} : /\ pc'[b] = pc[b] /\ Now # Call("pull", b)
                               /\ \A k \in DOMAIN tasks : TaskOf(k, b) => k > 1
  <2>1. \A b \in Pullers \ {c} : Now # Call("pull", b)
    BY <1>3 DEF Call
  <2>2. 1 \in DOMAIN tasks /\ tasks[1].handler = Now /\ \A k \in DOMAIN tasks : k \in Nat /\ k > 0
    <3>1. \A k \in DOMAIN tasks : k \in Nat /\ k > 0
      BY <1>1 DEF TypeOK
    <3> QED
      BY <1>1, <1>2, <3>1, RunsFacts
  <2> QED
    BY <1>1, <1>4, <2>1, <2>2 DEF TaskOf
<1>6. Steady
  BY <1>4, SteadyBy
<1>7. c \notin Gap /\ Gap \subseteq Pullers
  <2>1. 1 \in DOMAIN tasks /\ TaskOf(1, c) /\ ~(1 > 1)
    BY <1>1, <1>2, <1>3, RunsFacts DEF TaskOf
  <2>2. c \notin Gap
    BY <1>1, <1>2, <2>1, HeadNotInGap DEF AfterTheTry
  <2> QED
    BY <2>2 DEF Gap
<1>8. Gap' \subseteq Gap
  <2> SUFFICES ASSUME NEW b \in Gap'
               PROVE  b \in Gap
    OBVIOUS
  <2>1. b \in Pullers /\ pc'[b] = "running" /\ b # c /\ pc[b] = "running"
    BY <1>1, <1>4 DEF Gap
  <2>2. \A k \in DOMAIN next : next[k].handler # Call("pull", b)
    BY <1>5, <2>1
  <2> QED
    BY <1>1, <1>6, <2>1, <2>2, GapKept
<1>9. Sleepers' \subseteq Sleepers /\ c \notin Sleepers
  BY <1>1, <1>3, <1>4 DEF Sleepers
<1>10. \A S \in SUBSET Told : Last(S) => Last(S)'
  <2>1. entries' = entries
    BY <1>4 DEF waiterVars
  <2> QED
    BY <1>1, <1>4, <1>5, <1>6, <1>7, <1>8, <2>1, LastUnmoved
<1>11. WakeupsPromised' = WakeupsPromised
  BY DEF WakeupsPromised
<1>12. ASSUME WakeupsPromised
       PROVE  NothingElse' /\ Promised'
  <2>1. NothingElse /\ Promised /\ ~paused
    BY <1>1, <1>12 DEF NothingElse
  <2>2. Calm
    BY <1>1, <1>4, <1>9 DEF Calm, TypeOK
  <2>3. NothingElse'
    BY <1>1, <1>4, <2>1, <2>2, ElseKept
  <2>4. Takes(n) \in Nat /\ Takes(n) <= Takeable
    BY <1>1, <2>1, TakesFacts
  <2>5. /\ Takeable \in Nat /\ Takeable' \in Nat /\ TakeableSoon \in Nat /\ TakeableSoon' \in Nat
        /\ Promises \in Nat /\ Promises' \in Nat
        /\ IsFiniteSet(Coming) /\ Cardinality(Coming) \in Nat
        /\ IsFiniteSet(Coming') /\ Cardinality(Coming') \in Nat
        /\ Cardinality(Announced(tasks)) \in Nat /\ Cardinality(Announced(tasks)') \in Nat
    BY <1>1, Numbers
  <2>6. Takeable' = Takeable - Takes(n) /\ TakeableSoon' = TakeableSoon - Takes(n)
    <3>1. /\ ready \in Nat /\ active \in Nat /\ active <= Limit /\ Limit \in Nat
          /\ ready' \in Nat /\ active' \in Nat /\ active' <= Limit
      BY <1>1, CountAssumption DEF IInv, TypeOK, SlotsInUse
    <3>2. Limit - active \in Nat
      BY <3>1
    <3>3. Limit - active' = (Limit - active) - Takes(n)
      BY <1>4, <2>4, <3>1
    <3>4. Takeable' = Takeable - Takes(n)
      BY <1>4, <2>4, <3>1, <3>2, <3>3 DEF Takeable, Smaller
    <3>5. PICK x \in {0, 1} : x = IF delayed THEN 1 ELSE 0
      OBVIOUS
    <3>6. TakeableSoon = Smaller(ready + x, Limit - active)
      BY <3>5, Zenon DEF TakeableSoon
    <3>7. TakeableSoon' = Smaller(ready' + x, Limit - active')
      BY <1>4, <3>5, Zenon DEF TakeableSoon
    <3>8. ready' + x = (ready + x) - Takes(n)
      BY <1>4, <2>4, <3>1, <3>5
    <3>9. TakeableSoon' = TakeableSoon - Takes(n)
      <4>1. \A a, b, m \in Nat : m <= a /\ m <= b => Smaller(a - m, b - m) = Smaller(a, b) - m
        BY DEF Smaller
      <4>2. ready + x \in Nat /\ Takes(n) <= ready + x /\ Takes(n) <= Limit - active
        BY <2>4, <3>1, <3>2, <3>5 DEF Takeable, Smaller
      <4> QED
        BY <2>4, <3>2, <3>3, <3>6, <3>7, <3>8, <4>1, <4>2
    <3> QED
      BY <3>4, <3>9
  <2>7. Coming \ {c} \in SUBSET (Coming')
    <3> SUFFICES ASSUME NEW b \in Coming, b # c
                 PROVE  b \in Coming'
      OBVIOUS
    <3>1. b \in Pullers
      BY DEF Coming
    <3> QED
      BY <1>1, <1>5, <1>6, <3>1, ComingKept
  <2>8. Cardinality(Coming) <= Cardinality(Coming') + 1
    <3>1. /\ IsFiniteSet(Coming \ {c})
          /\ Cardinality(Coming \ {c}) = IF c \in Coming THEN Cardinality(Coming) - 1
                                          ELSE Cardinality(Coming)
      BY <2>5, FS_RemoveElement
    <3>2. Cardinality(Coming \ {c}) <= Cardinality(Coming')
      BY <2>5, <2>7, FS_Subset
    <3> QED
      BY <2>5, <3>1, <3>2
  <2>9. Promises <= Promises' + 1
    BY <2>5, <2>8 DEF Promises
  <2>10. Takeable' + 1 <= Takeable /\ TakeableSoon' + 1 <= TakeableSoon
    BY <2>4, <2>5, <2>6
  <2>11. /\ TakeableSoon <= Promises => TakeableSoon' <= Promises'
         /\ TakeableSoon <= Promises + 1 => TakeableSoon' <= Promises' + 1
         /\ Takeable <= Promises => Takeable' <= Promises'
    <3>1. \A a, b, p, q \in Nat : b + 1 <= a /\ p <= q + 1 =>
             (a <= p => b <= q) /\ (a <= p + 1 => b <= q + 1)
      OBVIOUS
    <3> QED
      BY <2>5, <2>9, <2>10, <3>1
  <2>12. (Last(Told) => Last(Told)') /\ (Last({"due"}) => Last({"due"})')
    BY <1>10 DEF Told
  <2>13. Enough => Enough'
    BY <2>11, <2>12 DEF Enough
  <2>14. \A a, b \in Gap' : a # b => TakeableSoon' <= 1
    <3>1. \A a, b \in Nat : b + 1 <= a /\ a <= 1 => b <= 1
      OBVIOUS
    <3> QED
      BY <1>8, <2>1, <2>5, <2>10, <3>1 DEF Promised
  <2>15. pending' = pending
    BY <1>4 DEF waiterVars
  <2>16. Promised'
    BY <1>8, <1>9, <2>1, <2>13, <2>14, <2>15 DEF Promised
  <2> QED
    BY <2>3, <2>16
<1> QED
  BY <1>11, <1>12 DEF WInv

\* A try that fails leaves nothing to be taken.  Is there a delayed job that
\* would be taken next, the puller has seen it, and is now the last in the gap.
LEMMA TryFails ==
    ASSUME WInv, IInv', UNCHANGED hazards, PullSection, NEW n \in Nat \ {0},
           n = IF Now.arg \in Batchers THEN Count ELSE 1, ~(Takes(n) > 0),
           NEW next, GoesOn(1, next), LineOn(next), LockRuns', InOrder(tasks'),
           Cardinality(Announced(tasks)) <= Cardinality(Announced(tasks)'),
           \A k \in DOMAIN next : next[k].handler = Now,
           \E k \in DOMAIN next : next[k] = Task("release", Now)
    PROVE  WInv'
<1>1. /\ IInv /\ TypeOK /\ OneHolder /\ OnePlaceEach /\ InOrder(tasks)
      /\ (WakeupsPromised => NothingElse /\ Promised)
      /\ timer \in [Pullers -> {"deadline", "nextRun", "due"}]
      /\ ready \in Nat /\ active \in Nat
  BY DEF WInv, IInv, TypeOK
<1>2. Runs("section", {"pull"})
  BY DEF PullSection
<1>3. PICK c \in Pullers : c = Now.arg /\ Now = Call("pull", c) /\ pc[c] \in {"running", "served"}
  BY <1>1, <1>2, RunsFacts DEF Awake
<1>4. PICK seen \in {"deadline", "nextRun"} :
         /\ seen = "nextRun" => delayed /\ ~paused
         /\ seen = "deadline" => ~delayed \/ paused \/ ready > 0
         /\ timer' = [timer EXCEPT ![c] = seen]
  BY <1>3 DEF PullSection
<1>5. /\ ready' = ready - Takes(n) /\ active' = active + Takes(n) /\ Takes(n) \in Nat
      /\ pc' = pc /\ overdue' = overdue /\ lock' = lock
      /\ UNCHANGED <<delayed, paused, waiterVars>>
  <2>1. Takes(n) \in Nat
    <3>1. /\ Limit \in Nat /\ active <= Limit
      BY <1>1, CountAssumption DEF IInv, SlotsInUse
    <3>2. Limit - active \in Nat
      BY <1>1, <3>1
    <3> QED
      BY <1>1, <3>2 DEF Takes, Smaller
  <2> QED
    BY <1>3, <2>1 DEF PullSection
<1>6. Takes(n) = 0 /\ UNCHANGED jobVars
  BY <1>1, <1>5 DEF jobVars
<1>7. \A b \in Pullers \ {c} : /\ timer'[b] = timer[b] /\ Now # Call("pull", b)
                               /\ \A k \in DOMAIN tasks : TaskOf(k, b) => k > 1
  <2>1. \A b \in Pullers \ {c} : Now # Call("pull", b)
    BY <1>3 DEF Call
  <2>2. 1 \in DOMAIN tasks /\ tasks[1].handler = Now /\ \A k \in DOMAIN tasks : k \in Nat /\ k > 0
    <3>1. \A k \in DOMAIN tasks : k \in Nat /\ k > 0
      BY <1>1 DEF TypeOK
    <3> QED
      BY <1>1, <1>2, <3>1, RunsFacts
  <2> QED
    BY <1>1, <1>4, <2>1, <2>2 DEF TaskOf
<1>8. Steady /\ \A b \in Pullers : Stays(b)' <=> Stays(b)
  BY <1>5, SteadyBy DEF Stays
<1>9. c \notin Gap /\ Gap \subseteq Pullers
  <2>1. 1 \in DOMAIN tasks /\ TaskOf(1, c) /\ ~(1 > 1)
    BY <1>1, <1>2, <1>3, RunsFacts DEF TaskOf
  <2>2. c \notin Gap
    BY <1>1, <1>2, <2>1, HeadNotInGap DEF AfterTheTry
  <2> QED
    BY <2>2 DEF Gap
<1>10. \A b \in Gap' : b = c \/ b \in Gap
  <2> SUFFICES ASSUME NEW b \in Gap', b # c
               PROVE  b \in Gap
    OBVIOUS
  <2>1. b \in Pullers
    BY DEF Gap
  <2>2. \A k \in DOMAIN next : next[k].handler # Call("pull", b)
    BY <1>7, <2>1
  <2> QED
    BY <1>1, <1>5, <1>8, <2>2, GapKept
<1>11. Sleepers' = Sleepers /\ c \notin Sleepers /\ pending' = pending /\ entries' = entries
  BY <1>1, <1>3, <1>5 DEF Sleepers, waiterVars
<1>12. NothingElse => Calm
  <2> SUFFICES ASSUME NothingElse
               PROVE  Calm
    OBVIOUS
  <2>1. ASSUME "leave" \in hazards, NEW b \in Pullers
        PROVE  timer'[b] \in {timer[b], "deadline"}
    <3>1. ~delayed
      BY <2>1 DEF NothingElse
    <3>2. timer'[c] = "deadline"
      BY <1>1, <1>4, <3>1
    <3> QED
      BY <1>7, <3>2
  <2> QED
    BY <1>5, <1>11, <2>1 DEF Calm
<1>13. CASE Stays(c) /\ pc[c] = "running"
  <2>1. WakeupsPromised' = WakeupsPromised
    BY DEF WakeupsPromised
  <2>2. ASSUME WakeupsPromised
        PROVE  NothingElse' /\ Promised'
    <3>1. NothingElse /\ ~paused
      BY <1>1, <2>2 DEF NothingElse
    <3>2. NothingElse'
      BY <1>1, <1>5, <1>12, <3>1, ElseKept
    <3>3. /\ Takeable = 0
          /\ TakeableSoon = 0 \/ (TakeableSoon = 1 /\ ready = 0 /\ delayed)
      BY <1>1, <1>6, <3>1, TakesFacts
    <3>4. Takeable' = Takeable /\ TakeableSoon' = TakeableSoon /\ Promises' \in Nat
      BY <1>1, <1>6, TakeableGrows, Numbers
    <3>5. CASE TakeableSoon = 0
      <4>1. TakeableSoon' <= Promises' /\ TakeableSoon' <= 1
        BY <3>4, <3>5
      <4> QED
        BY <3>2, <4>1 DEF Promised, Enough
    <3>6. CASE TakeableSoon = 1 /\ ready = 0 /\ delayed
      <4>1. timer'[c] \in Told
        <5>1. seen = "nextRun"
          BY <1>4, <3>1, <3>6
        <5> QED
          BY <1>1, <1>4, <5>1 DEF Told
      <4>2. InGap(c, "release")' /\ c \in Gap'
        <5>1. \E k \in DOMAIN tasks' : tasks'[k] = Task("release", Now)
          BY DEF GoesOn
        <5>2. InGap(c, "release")'
          BY <1>3, <5>1 DEF InGap, TaskOf, Task
        <5> QED
          BY <1>5, <1>8, <1>13, <5>2 DEF Gap, AfterTheTry
      <4>3. ASSUME NEW b \in Gap' \ {c}
            PROVE  Precedes(b, c)'
        <5>1. b \in Gap /\ b \in Pullers /\ ~InGap(b, "release")
          BY <1>1, <1>2, <1>9, <1>10, <4>3, OneInGap
        <5>2. PICK s \in {"tried", "decide"} : InGap(b, s)
          BY <5>1 DEF Gap, AfterTheTry
        <5>3. InGap(b, s)'
          BY <1>7, <4>3, <5>1, <5>2, StepKept
        <5>4. <<s, "release">> \in Earlier
          BY DEF Earlier
        <5> QED
          BY <4>2, <5>3, <5>4 DEF Precedes
      <4>4. Last(Told)'
        BY <4>1, <4>2, <4>3 DEF Last, LastInGap
      <4>5. TakeableSoon' <= Promises' + 1 /\ Takeable' <= Promises' /\ TakeableSoon' <= 1
        <5>1. PICK p \in Nat : p = Promises'
          BY <3>4
        <5>2. TakeableSoon' = 1 /\ Takeable' = 0
          BY <3>3, <3>4, <3>6
        <5>3. 1 <= p + 1 /\ 0 <= p /\ 1 <= 1
          OBVIOUS
        <5> QED
          BY <5>1, <5>2, <5>3, Zenon
      <4> QED
        BY <3>2, <4>4, <4>5 DEF Promised, Enough
    <3> QED
      BY <3>3, <3>5, <3>6
  <2> QED
    BY <2>1, <2>2 DEF WInv
<1>14. CASE ~(Stays(c) /\ pc[c] = "running")
  <2>1. c \notin Coming /\ c \notin Gap'
    BY <1>5, <1>8, <1>14 DEF Coming, Gap
  <2>2. \A b \in Coming : \A k \in DOMAIN tasks : TaskOf(k, b) => k > 1
    BY <1>7, <2>1 DEF Coming
  <2>3. \A b \in Pullers : \A k \in DOMAIN next :
           /\ next[k].handler = Call("pull", b) /\ next[k].step \in AfterTheTry
           /\ pc'[b] = "running" /\ Stays(b)'
           => b \in Gap
    BY <1>5, <1>7, <1>8, <1>14
  <2>4. Promises <= Promises' /\ Gap' \subseteq Gap
    BY <1>1, <1>5, <1>8, <2>2, <2>3, NobodyLost
  <2>5. \A S \in SUBSET Told : Last(S) => Last(S)'
    <3>1. \A b \in Gap : /\ \A k \in DOMAIN tasks : TaskOf(k, b) => k > 1
                         /\ pc'[b] = pc[b] /\ timer'[b] = timer[b]
      BY <1>5, <1>7, <1>9
    <3>2. \A b \in Sleepers : timer'[b] = timer[b]
      BY <1>7, <1>11 DEF Sleepers
    <3> QED
      BY <1>1, <1>8, <1>11, <2>4, <3>1, <3>2, LastUnmoved
  <2> QED
    BY <1>5, <1>6, <1>11, <1>12, <2>4, <2>5, NoJobMoves
<1> QED
  BY <1>13, <1>14

LEMMA PullSectionWakes ==
    ASSUME WInv, IInv', UNCHANGED hazards, PullSection
    PROVE  WInv'
<1> DEFINE t == Task("release", Now)
           next == <<t>>
<1>1. /\ IInv /\ TypeOK /\ OneHolder /\ OnePlaceEach /\ tasks \in Seq(Tasks) /\ InOrder(tasks)
      /\ LockRuns
  BY DEF WInv, IInv, TypeOK
<1>2. Runs("section", {"pull"}) /\ Continue(next) /\ lock' = lock
  BY DEF PullSection
<1>3. Now \in Handlers
  BY <1>1, <1>2, RunsFacts
<1>4. PICK n \in Nat \ {0} : n = IF Now.arg \in Batchers THEN Count ELSE 1
  BY CountAssumption
<1>5. t \in Tasks /\ t.step = "release" /\ t.handler = Now
  BY <1>3 DEF Task, Tasks
<1>6. t = Task("release", Now)
  OBVIOUS
<1> HIDE DEF t
<1>7. next \in Seq(Tasks) /\ DOMAIN next = {1} /\ next[1] = t
  BY <1>5
<1> HIDE DEF next
<1>8. /\ GoesOn(1, next)
      /\ Cardinality(Announced(tasks)) <= Cardinality(Announced(tasks)')
  BY <1>1, <1>2, <1>7, OneStep
<1>9. LineOn(next)
  BY <1>1, <1>2, LineStays
<1>10. LockRuns'
  <2>1. Holders(next) # {}
    BY <1>5, <1>7 DEF Holders, Holding
  <2> QED
    BY <1>1, <1>8, <2>1, LockRunsKept
<1>11. InOrder(tasks')
  BY <1>1, <1>5, <1>7, <1>8, OrderKept
<1>12. CASE Takes(n) > 0
  BY <1>4, <1>5, <1>7, <1>8, <1>9, <1>10, <1>11, <1>12, TryTakes
<1>13. CASE ~(Takes(n) > 0)
  BY <1>4, <1>5, <1>6, <1>7, <1>8, <1>9, <1>10, <1>11, <1>13, TryFails
<1> QED
  BY <1>12, <1>13

-----------------------------------------------------------------------------
(***************************************************************************)
(* Notifications.                                                          *)
(***************************************************************************)

LEMMA NotifyPullers ==
    ASSUME IInv, NEW n \in Nat, Notify(n)
    PROVE  /\ overdue' = overdue /\ Sleepers' \subseteq Sleepers
           /\ \A c \in Pullers :
                 /\ timer'[c] \in {timer[c], "deadline"}
                 /\ c \notin Sleepers \/ c \in Sleepers' => pc'[c] = pc[c] /\ timer'[c] = timer[c]
                 /\ pc[c] = "served" => pc'[c] # "running"
           /\ \A i \in DOMAIN Woken(n) : pc'[Woken(n)[i]] = "running"
<1>1. TypeOK /\ entries \in Seq(Entries) /\ Waits(entries, activeWaiters, Sleepers)
  BY DEF IInv, TypeOK
<1> DEFINE W == {Woken(n)[i] : i \in DOMAIN Woken(n)}
<1>2. /\ pc' = [c \in Pullers |-> IF c \in W THEN "running" ELSE pc[c]]
      /\ timer' = [c \in Pullers |-> IF c \in W THEN "deadline" ELSE timer[c]]
      /\ overdue' = overdue
  BY DEF Notify
<1>3. \A i \in DOMAIN Woken(n) : Woken(n)[i] \in Sleepers
  BY <1>1, WakesAre
<1>4. W \subseteq Sleepers /\ \A i \in DOMAIN Woken(n) : Woken(n)[i] \in W
  BY <1>3
<1> HIDE DEF W
<1>5. \A i \in DOMAIN Woken(n) : pc'[Woken(n)[i]] = "running"
  BY <1>2, <1>4 DEF Sleepers
<1>6. Sleepers' \subseteq Sleepers
  BY <1>2 DEF Sleepers
<1>7. ASSUME NEW c \in Pullers
      PROVE  /\ timer'[c] \in {timer[c], "deadline"}
             /\ c \notin Sleepers \/ c \in Sleepers' => pc'[c] = pc[c] /\ timer'[c] = timer[c]
             /\ pc[c] = "served" => pc'[c] # "running"
  <2>1. CASE c \in W
    BY <1>2, <1>4, <2>1 DEF Sleepers
  <2>2. CASE c \notin W
    BY <1>2, <2>2
  <2> QED
    BY <2>1, <2>2
<1> QED
  BY <1>2, <1>5, <1>6, <1>7

\* A notification wakes as many pullers as it counts, or nobody sleeps any
\* longer and the bit is set.
LEMMA NotifyWakes ==
    ASSUME IInv, IInv', UNCHANGED hazards, NothingElse, NEW n \in Nat, n > 0, Notify(n),
           NEW d, NEW next, GoesOn(d, next), LineOn(next),
           \A k \in DOMAIN Wakes(n) : \E m \in DOMAIN next : next[m] = Wakes(n)[k],
           \A c \in Pullers : \A k \in DOMAIN tasks : TaskOf(k, c) => k > d
    PROVE  \/ Sleepers' = {} /\ pending'
           \/ Sleepers # {} /\ Cardinality(Coming) + n <= Cardinality(Coming')
<1> DEFINE k == Smaller(n, activeWaiters)
           W == {Woken(n)[i] : i \in DOMAIN Woken(n)}
<1>1. /\ TypeOK /\ entries \in Seq(Entries) /\ Waits(entries, activeWaiters, Sleepers)
      /\ PendingMeansNobodySleeps'
  BY DEF IInv, TypeOK
<1>2. /\ k \in Nat /\ k <= n /\ (k = n \/ k = activeWaiters)
      /\ Woken(n) \in [1..k -> Sleepers]
      /\ \A i, j \in 1..k : Woken(n)[i] = Woken(n)[j] => i = j
  BY <1>1, WokenAre
<1>3. pending' = (pending \/ k < n)
  BY DEF Notify, NotifyQueue
<1>4. /\ overdue' = overdue
      /\ \A c \in Pullers : c \notin Sleepers => pc'[c] = pc[c]
      /\ \A i \in DOMAIN Woken(n) : pc'[Woken(n)[i]] = "running"
  BY NotifyPullers
<1>5. \A c \in Pullers : (Stays(c) => Stays(c)') /\ (c \in Sleepers => Stays(c)')
  BY <1>4 DEF Stays, NothingElse
<1> HIDE DEF k
<1>6. CASE k < n
  BY <1>1, <1>3, <1>6 DEF PendingMeansNobodySleeps
<1>7. CASE k = n
  <2>1. /\ DOMAIN Wakes(n) = 1..n /\ DOMAIN Woken(n) = 1..n
        /\ \A i \in 1..n : /\ Woken(n)[i] \in Sleepers
                           /\ Wakes(n)[i] = Task("woken", Call("pull", Woken(n)[i]))
    BY <1>1, <1>2, <1>7, WakesAre
  <2>2. W \subseteq Sleepers /\ Sleepers \subseteq Pullers
    BY <2>1 DEF Sleepers
  <2>3. W \in SUBSET (Coming')
    <3> SUFFICES ASSUME NEW i \in 1..n, NEW c, c = Woken(n)[i]
                 PROVE  c \in Coming'
      BY <2>1
    <3>1. PICK m \in DOMAIN next : next[m] = Task("woken", Call("pull", c))
      BY <2>1
    <3>2. next[m].handler = Call("pull", c) /\ next[m].step \in ToTheLock
      BY <3>1 DEF Task, ToTheLock
    <3>3. c \in Pullers /\ Stays(c)' /\ pc'[c] = "running"
      BY <1>4, <1>5, <2>1, <2>2
    <3> QED
      BY <3>2, <3>3, ComingNew
  <2>4. W \cap Coming = {}
    <3>1. \A c \in Coming : c \notin Sleepers
      BY DEF Coming, Sleepers
    <3> QED
      BY <2>2, <3>1
  <2>5. Coming \subseteq Coming'
    <3>1. \A c \in Coming : c \in Pullers /\ c \notin Sleepers
      BY DEF Coming, Sleepers
    <3>2. Steady
      BY <1>4, SteadyBy
    <3> QED
      BY <1>4, <3>1, <3>2, ComingKept
  <2>6. Cardinality(W) = n
    <3> DEFINE f == Woken(n)
    <3>1. /\ f \in [1..n -> W] /\ \A w \in W : \E i \in 1..n : f[i] = w
          /\ \A i, j \in 1..n : f[i] = f[j] => i = j
      BY <1>2, <1>7, <2>1
    <3> HIDE DEF f, W
    <3>2. f \in Bijection(1..n, W)
      BY <3>1, Zenon DEF Bijection, Injection, IsInjective, Surjection
    <3>3. ExistsBijection(1..n, W)
      BY <3>2, Zenon DEF ExistsBijection
    <3> QED
      BY <3>3, FS_CountingElements
  <2>7. Sleepers # {}
    <3>1. 1 \in 1..n
      OBVIOUS
    <3> QED
      BY <2>1, <3>1
  <2> HIDE DEF W
  <2>8. Cardinality(Coming) + Cardinality(W) <= Cardinality(Coming')
    BY <2>3, <2>4, <2>5, ComingGrows
  <2> QED
    BY <2>6, <2>7, <2>8
<1> QED
  BY <1>2, <1>6, <1>7

\* The oldest go first: the youngest sleeper is the last to be woken.
LEMMA YoungestStays ==
    ASSUME IInv, IInv', NEW n \in Nat, Notify(n), Sleepers' # {}, NEW S, Youngest(S)
    PROVE  Youngest(S)'
<1> DEFINE k == Smaller(n, activeWaiters)
           h == CursorAfter(k)
           rest == SubSeq(entries, h + 1, Len(entries))
<1>1. /\ TypeOK /\ entries \in Seq(Entries) /\ Waits(entries, activeWaiters, Sleepers)
      /\ Waits(entries', activeWaiters', Sleepers')
  BY DEF IInv, TypeOK
<1>2. h \in 0..Len(entries) /\ Len(entries) \in Nat
  BY <1>1, WokenAre
<1>3. entries' = Compact(rest, activeWaiters')
  BY DEF Notify, NotifyQueue
<1> HIDE DEF k, h
<1>4. /\ Len(rest) = Len(entries) - h /\ DOMAIN rest = 1..Len(rest)
      /\ \A i \in 1..Len(rest) : rest[i] = entries[h + i]
  BY <1>1, <1>2, SubSeqProperties
<1>5. entries' = rest
  <2>1. LiveIn(entries') # {}
    BY <1>1 DEF Waits
  <2>2. entries' # <<>>
    BY <2>1 DEF LiveIn
  <2> QED
    BY <1>3, <2>2 DEF Compact
<1> HIDE DEF rest
<1>6. PICK i \in LiveIn(entries) :
         timer[entries[i].puller] \in S /\ \A m \in LiveIn(entries) : m <= i
  BY DEF Youngest
<1>7. \A m \in LiveIn(rest) : /\ m \in Nat /\ m > 0 /\ h + m \in LiveIn(entries)
                              /\ h + m <= i
  BY <1>1, <1>2, <1>4, <1>6 DEF LiveIn
<1>8. PICK m \in LiveIn(rest) : TRUE
  BY <1>1, <1>5 DEF Waits
<1>9. i - h \in LiveIn(rest) /\ rest[i - h] = entries[i]
  <2>1. i \in 1..Len(entries) /\ ~entries[i].cancelled
    BY <1>1 DEF LiveIn
  <2>2. i - h \in 1..Len(rest) /\ h + (i - h) = i
    BY <1>2, <1>4, <1>7, <1>8, <2>1
  <2> QED
    BY <1>4, <2>1, <2>2 DEF LiveIn
<1>10. \A j \in LiveIn(rest) : j <= i - h
  <2>1. i \in Nat
    BY <1>1 DEF LiveIn
  <2> QED
    BY <1>2, <1>7, <2>1
<1>11. timer'[entries[i].puller] \in S
  <2>1. PICK c : c = entries[i].puller
    OBVIOUS
  <2>2. c \in Sleepers' /\ c \in Pullers
    BY <1>1, <1>5, <1>9, <2>1 DEF Waits, Sleepers
  <2>3. timer'[c] = timer[c]
    BY <2>2, NotifyPullers
  <2> QED
    BY <1>6, <2>1, <2>3
<1>12. PICK p \in LiveIn(rest) : p = i - h
  BY <1>9
<1>13. timer'[rest[p].puller] \in S /\ \A j \in LiveIn(rest) : j <= p
  BY <1>9, <1>10, <1>11, <1>12
<1> QED
  BY <1>5, <1>12, <1>13 DEF Youngest

\* A notification is not for those in the gap, and leaves the youngest asleep.
LEMMA LastUnwoken ==
    ASSUME IInv, IInv', UNCHANGED hazards, NEW n \in Nat, Notify(n), NEW d, NEW next, GoesOn(d, next),
           \A c \in Pullers : \A k \in DOMAIN tasks : TaskOf(k, c) => k > d,
           Gap' \subseteq Gap, Sleepers' # {} \/ Gap' # {}, NEW S, Last(S)
    PROVE  Last(S)'
<1>1. /\ overdue' = overdue
      /\ \A c \in Pullers : c \notin Sleepers => pc'[c] = pc[c] /\ timer'[c] = timer[c]
  BY NotifyPullers
<1>2. Steady
  BY <1>1, SteadyBy
<1>3. \A c \in Gap : c \in Gap' /\ timer'[c] = timer[c]
  <2>1. \A c \in Gap : c \in Pullers /\ c \notin Sleepers
    BY DEF Gap, Sleepers
  <2> QED
    BY <1>1, <1>2, <2>1, StaysInGap
<1>4. CASE LastInGap(S)
  <2>1. PICK c \in Gap : timer[c] \in S /\ \A b \in Gap \ {c} : Precedes(b, c)
    BY <1>4 DEF LastInGap
  <2>2. ASSUME NEW b \in Gap' \ {c}
        PROVE  Precedes(b, c)'
    <3>1. b \in Gap /\ b \in Pullers /\ c \in Pullers
      BY <2>2 DEF Gap
    <3>2. PICK p \in Earlier : InGap(b, p[1]) /\ InGap(c, p[2])
      BY <2>1, <2>2, <3>1 DEF Precedes
    <3>3. InGap(b, p[1])' /\ InGap(c, p[2])'
      BY <3>1, <3>2, StepKept
    <3> QED
      BY <3>3 DEF Precedes
  <2>3. LastInGap(S)'
    BY <1>3, <2>1, <2>2 DEF LastInGap
  <2> QED
    BY <2>3 DEF Last
<1>5. CASE Gap = {} /\ Youngest(S)
  <2>1. Gap' = {} /\ Sleepers' # {}
    BY <1>5
  <2>2. Youngest(S)'
    BY <1>5, <2>1, YoungestStays
  <2> QED
    BY <2>1, <2>2 DEF Last
<1> QED
  BY <1>4, <1>5 DEF Last

\* A notification makes up for n jobs more to be taken.
LEMMA NotifiedKeeps ==
    ASSUME IInv, IInv', Promised, NEW n \in Nat, Gap' \subseteq Gap, Sleepers' \subseteq Sleepers,
           \/ Sleepers' = {} /\ pending'
           \/ Sleepers # {} /\ Cardinality(Coming) + n <= Cardinality(Coming'),
           Takeable' + Cardinality(Announced(tasks)) <= Takeable + n + Cardinality(Announced(tasks)'),
           TakeableSoon' + Cardinality(Announced(tasks))
               <= TakeableSoon + n + Cardinality(Announced(tasks)'),
           Sleepers' # {} \/ Gap' # {} => \A S \in SUBSET Told : Last(S) => Last(S)',
           \A b, c \in Gap' : b # c => TakeableSoon' <= 1
    PROVE  Promised'
<1>1. CASE Sleepers' = {} /\ pending'
  BY <1>1 DEF Promised
<1>2. CASE Sleepers # {} /\ Cardinality(Coming) + n <= Cardinality(Coming')
  <2>1. /\ Takeable \in Nat /\ Takeable' \in Nat /\ TakeableSoon \in Nat /\ TakeableSoon' \in Nat
        /\ Cardinality(Coming) \in Nat /\ Cardinality(Coming') \in Nat
        /\ Cardinality(Announced(tasks)) \in Nat /\ Cardinality(Announced(tasks)') \in Nat
    BY Numbers
  <2>2. \A a, b, c, q, e, f, m \in Nat : c + m <= q /\ b + e <= a + m + f =>
           /\ a <= c + e => b <= q + f
           /\ a <= c + e + 1 => b <= q + f + 1
    OBVIOUS
  <2>3. /\ TakeableSoon <= Promises => TakeableSoon' <= Promises'
        /\ TakeableSoon <= Promises + 1 => TakeableSoon' <= Promises' + 1
        /\ Takeable <= Promises => Takeable' <= Promises'
    BY <1>2, <2>1, <2>2 DEF Promises
  <2>4. Enough
    BY <1>2 DEF Promised
  <2>5. Sleepers' # {} \/ Gap' # {} => Enough'
    <3> SUFFICES ASSUME Sleepers' # {} \/ Gap' # {}
                 PROVE  Enough'
      OBVIOUS
    <3>1. (Last(Told) => Last(Told)') /\ (Last({"due"}) => Last({"due"})')
      BY DEF Told
    <3> QED
      BY <2>3, <2>4, <3>1 DEF Enough
  <2> QED
    BY <2>5 DEF Promised
<1> QED
  BY <1>1, <1>2

LEMMA NotifyCalm ==
    ASSUME IInv, NEW n \in Nat, Notify(n), "leave" \in hazards => delayed' = delayed
    PROVE  Calm
<1>1. /\ overdue' = overdue /\ Sleepers' \subseteq Sleepers
      /\ \A c \in Pullers : timer'[c] \in {timer[c], "deadline"}
  BY NotifyPullers
<1> QED
  BY <1>1 DEF Calm

LEMMA NoticeClosesGap ==
    ASSUME IInv, UNCHANGED hazards, NEW n \in Nat, Notify(n), NEW d, NEW next, GoesOn(d, next),
           \A c \in Pullers : \A k \in DOMAIN next :
              next[k].step \in AfterTheTry => next[k].handler # Call("pull", c)
    PROVE  Gap' \subseteq Gap
<1> SUFFICES ASSUME NEW c \in Gap'
             PROVE  c \in Gap
  OBVIOUS
<1>1. c \in Pullers /\ (pc[c] = "served" => pc'[c] # "running")
  BY NotifyPullers DEF Gap
<1>2. \A k \in DOMAIN next : ~(next[k].handler = Call("pull", c) /\ next[k].step \in AfterTheTry)
  BY <1>1
<1>3. Steady
  BY NotifyPullers, SteadyBy
<1> QED
  BY <1>1, <1>2, <1>3, GapKept DEF IInv

\* A section after which one job more can be taken, and a notification of one.
LEMMA SectionNotifies ==
    ASSUME WInv, IInv', UNCHANGED hazards, NEW ops, Runs("section", ops),
           \A c \in Pullers : Now # Call("pull", c),
           Notify(1), NEW next \in Seq(Tasks), Continue(next),
           \A i \in DOMAIN Wakes(1) : \E k \in DOMAIN next : next[k] = Wakes(1)[i],
           \A k \in DOMAIN next : \/ next[k].step \in {"woken", "section"}
                                  \/ next[k] = Task("release", Now),
           \/ lock' = lock /\ \E k \in DOMAIN next : next[k].step = "release"
           \/ /\ lock # <<>> /\ Release
              /\ \A i \in DOMAIN Handover : \E k \in DOMAIN next : next[k] = Handover[i],
           NothingElse => paused' = paused /\ ("leave" \in hazards => delayed' = delayed),
           Takeable' <= Takeable + 1, TakeableSoon' <= TakeableSoon + 1
    PROVE  WInv'
<1>1. /\ IInv /\ TypeOK /\ OneHolder /\ OnePlaceEach /\ tasks \in Seq(Tasks) /\ InOrder(tasks)
      /\ LockRuns /\ (WakeupsPromised => NothingElse /\ Promised)
  BY DEF WInv, IInv, TypeOK
<1>2. /\ GoesOn(1, next)
      /\ Cardinality(Announced(tasks)) <= Cardinality(Announced(tasks)')
      /\ \A c \in Pullers : \A k \in DOMAIN tasks : TaskOf(k, c) => k > 1
  BY <1>1, OneStep
<1>3. LineOn(next)
  BY <1>1, LineStays
<1>4. \A k \in DOMAIN next : /\ next[k].step \in {"woken", "section", "release"}
                             /\ next[k].step = "release" => next[k].handler = Now
  BY DEF Task
<1>5. LockRuns'
  <2>1. CASE \E k \in DOMAIN next : next[k].step = "release"
    <3>1. Holders(next) # {}
      BY <2>1 DEF Holders, Holding
    <3> QED
      BY <1>1, <1>2, <3>1, LockRunsKept
  <2>2. CASE /\ lock # <<>> /\ Release
             /\ \A i \in DOMAIN Handover : \E k \in DOMAIN next : next[k] = Handover[i]
    <3>1. lock' = <<>> \/ Holders(next) # {}
      <4>1. CASE 1 \in DOMAIN Handover /\ Handover[1].step = "section"
        <5>1. PICK k \in DOMAIN next : next[k].step = "section"
          BY <2>2, <4>1
        <5> QED
          BY <5>1 DEF Holders, Holding
      <4> QED
        BY <1>1, <2>2, <4>1, HandedOn
    <3> QED
      BY <1>1, <1>2, <3>1, LockRunsKept
  <2> QED
    BY <2>1, <2>2
<1>6. InOrder(tasks')
  BY <1>1, <1>2, <1>4, OrderKept
<1>7. Gap' \subseteq Gap
  <2>1. \A c \in Pullers : \A k \in DOMAIN next :
          next[k].step \in AfterTheTry => next[k].handler # Call("pull", c)
    BY <1>4 DEF AfterTheTry
  <2> QED
    BY <1>1, <1>2, <2>1, NoticeClosesGap
<1>8. \A b, c \in Gap' : b # c => TakeableSoon' <= 1
  BY <1>1, <1>7, OneInGap
<1>9. /\ Sleepers' \subseteq Sleepers
      /\ Sleepers' # {} \/ Gap' # {} => \A S \in SUBSET Told : Last(S) => Last(S)'
  <2>1. ASSUME Sleepers' # {} \/ Gap' # {}, NEW S \in SUBSET Told, Last(S)
        PROVE  Last(S)'
    BY <1>1, <1>2, <1>7, <2>1, LastUnwoken
  <2> QED
    BY <1>1, <2>1, NotifyPullers
<1>10. ASSUME WakeupsPromised
       PROVE  NothingElse' /\ Promised'
  <2>1. NothingElse /\ Promised
    BY <1>1, <1>10
  <2>2. NothingElse'
    <3>1. Calm
      BY <1>1, <2>1, NotifyCalm
    <3> QED
      BY <1>1, <2>1, <3>1, ElseKept
  <2>3. \/ Sleepers' = {} /\ pending'
        \/ Sleepers # {} /\ Cardinality(Coming) + 1 <= Cardinality(Coming')
    BY <1>1, <1>2, <1>3, <2>1, NotifyWakes
  <2>4. /\ Takeable' + Cardinality(Announced(tasks)) <= Takeable + 1 + Cardinality(Announced(tasks)')
        /\ TakeableSoon' + Cardinality(Announced(tasks))
               <= TakeableSoon + 1 + Cardinality(Announced(tasks)')
    <3>1. /\ Takeable \in Nat /\ Takeable' \in Nat /\ TakeableSoon \in Nat /\ TakeableSoon' \in Nat
          /\ Cardinality(Announced(tasks)) \in Nat /\ Cardinality(Announced(tasks)') \in Nat
      BY <1>1, Numbers
    <3>2. \A a, b, e, f \in Nat : b <= a + 1 /\ e <= f => b + e <= a + 1 + f
      OBVIOUS
    <3> QED
      BY <1>2, <3>1, <3>2
  <2>5. Promised'
    BY <1>1, <1>7, <1>8, <1>9, <2>1, <2>3, <2>4, NotifiedKeeps
  <2> QED
    BY <2>2, <2>5
<1>11. WakeupsPromised' = WakeupsPromised
  BY DEF WakeupsPromised
<1> QED
  BY <1>5, <1>6, <1>10, <1>11 DEF WInv

\* No handler that gives up a slot in silence runs, and none that delays a job
\* when polls may leave.
LEMMA PlainSection ==
    ASSUME IInv, NEW ops, Runs("section", ops), NothingElse
    PROVE  Now.op \notin Silent /\ ("leave" \in hazards => Now.op \notin Delays)
<1>1. TypeOK /\ OneHolder /\ OnePlaceEach /\ lock \in Seq(Handlers)
  BY DEF IInv, TypeOK
<1>2. lock # <<>> /\ Now = lock[1]
  <2>1. "section" \in Holding
    BY DEF Holding
  <2> QED
    BY <1>1, <2>1, RunsFacts
<1>3. 1 \in DOMAIN lock
  BY <1>1, <1>2
<1> QED
  BY <1>2, <1>3 DEF NothingElse

LEMMA PushSectionWakes ==
    ASSUME WInv, IInv', UNCHANGED hazards, PushSection
    PROVE  WInv'
<1> DEFINE next == Wakes(1) \o Handover
<1>1. /\ IInv /\ TypeOK /\ OneHolder /\ OnePlaceEach
      /\ entries \in Seq(Entries) /\ Waits(entries, activeWaiters, Sleepers)
  BY DEF WInv, IInv, TypeOK
<1>2. /\ Runs("section", Pushes) /\ Notify(1) /\ Release /\ Continue(next)
      /\ active' = active /\ paused' = paused
      /\ IF Now.op = "push" THEN ready' = ready + 1 /\ delayed' = delayed ELSE ready' = ready
  BY DEF PushSection
<1>3. lock # <<>> /\ Now.op \in Pushes
  <2>1. "section" \in Holding
    BY DEF Holding
  <2> QED
    BY <1>1, <1>2, <2>1, RunsFacts
<1>4. \A c \in Pullers : Now # Call("pull", c)
  BY <1>3 DEF Pushes, Call
<1>5. /\ Wakes(1) \in Seq(Tasks) /\ \A i \in DOMAIN Wakes(1) : Wakes(1)[i].step = "woken"
  BY <1>1, WakesAre DEF Task
<1>6. Handover \in Seq(Tasks) /\ \A i \in DOMAIN Handover : Handover[i].step = "section"
  BY <1>1, <1>3, HandoverFacts
<1>7. /\ next \in Seq(Tasks)
      /\ \A k \in DOMAIN next : next[k].step \in {"woken", "section"}
      /\ \A i \in DOMAIN Wakes(1) : \E k \in DOMAIN next : next[k] = Wakes(1)[i]
      /\ \A i \in DOMAIN Handover : \E k \in DOMAIN next : next[k] = Handover[i]
  <2>1. /\ next \in Seq(Tasks)
        /\ \A k \in DOMAIN next : \/ \E i \in DOMAIN Wakes(1) : next[k] = Wakes(1)[i]
                                  \/ \E i \in DOMAIN Handover : next[k] = Handover[i]
        /\ \A i \in DOMAIN Wakes(1) : \E k \in DOMAIN next : next[k] = Wakes(1)[i]
        /\ \A i \in DOMAIN Handover : \E k \in DOMAIN next : next[k] = Handover[i]
    BY <1>5, <1>6, Joined
  <2> HIDE DEF next
  <2>2. \A k \in DOMAIN next : next[k].step = "woken" \/ next[k].step = "section"
    <3> SUFFICES ASSUME NEW k \in DOMAIN next
                 PROVE  next[k].step = "woken" \/ next[k].step = "section"
      OBVIOUS
    <3>1. CASE \E i \in DOMAIN Wakes(1) : next[k] = Wakes(1)[i]
      BY <1>5, <3>1
    <3>2. CASE \E i \in DOMAIN Handover : next[k] = Handover[i]
      BY <1>6, <3>2
    <3> QED
      BY <2>1, <3>1, <3>2
  <2> QED
    BY <2>1, <2>2
<1> HIDE DEF next
<1>8. NothingElse => paused' = paused /\ ("leave" \in hazards => delayed' = delayed)
  <2>1. NothingElse /\ "leave" \in hazards => Now.op = "push"
    BY <1>1, <1>2, <1>3, PlainSection DEF Pushes, Delays
  <2> QED
    BY <1>2, <2>1
<1>9. Takeable' <= Takeable + 1 /\ TakeableSoon' <= TakeableSoon + 1
  <2>1. CASE Now.op = "push"
    BY <1>1, <1>2, <2>1, TakeableGrows
  <2>2. CASE Now.op # "push"
    BY <1>1, <1>2, <2>2, TakeableGrows
  <2> QED
    BY <2>1, <2>2
<1> QED
  BY <1>2, <1>3, <1>4, <1>7, <1>8, <1>9, SectionNotifies

LEMMA AckOrRetryWakes ==
    ASSUME WInv, IInv', UNCHANGED hazards, AckSection \/ RetrySection
    PROVE  WInv'
<1> DEFINE t == Task("release", Now)
           next == Wakes(1) \o <<t>>
           ops == {"ack", "retry", "retryLater"}
<1>1. /\ IInv /\ TypeOK /\ OneHolder /\ OnePlaceEach
      /\ entries \in Seq(Entries) /\ Waits(entries, activeWaiters, Sleepers)
  BY DEF WInv, IInv, TypeOK
<1>2. /\ Runs("section", ops) /\ Notify(1) /\ lock' = lock /\ Continue(next)
      /\ active' = active - 1 /\ paused' = paused
      /\ ready' = ready \/ (ready' = ready + 1 /\ delayed' = delayed)
      /\ delayed' = delayed \/ Now.op \notin {"ack", "retry"}
  <2>1. CASE AckSection
    BY <2>1 DEF AckSection, Runs
  <2>2. CASE RetrySection
    <3>1. ready' = ready \/ (ready' = ready + 1 /\ delayed' = delayed)
      BY <2>2, Zenon DEF RetrySection
    <3>2. Runs("section", {"retry", "retryLater"})
      BY <2>2 DEF RetrySection
    <3>3. Now.op = "retry" => delayed' = delayed
      BY <2>2, Zenon DEF RetrySection
    <3>4. Now.op # "retry" => Now.op \notin {"ack", "retry"}
      BY <3>2 DEF Runs, Now
    <3>5. /\ Runs("section", ops) /\ Notify(1) /\ lock' = lock /\ Continue(next)
          /\ active' = active - 1 /\ paused' = paused
      BY <2>2 DEF RetrySection, Runs
    <3> QED
      BY <3>1, <3>3, <3>4, <3>5
  <2> QED
    BY <2>1, <2>2
<1>3. Now \in Handlers /\ Now.op \in ops
  BY <1>1, <1>2, RunsFacts
<1>4. \A c \in Pullers : Now # Call("pull", c)
  BY <1>3 DEF Call
<1>5. /\ Wakes(1) \in Seq(Tasks) /\ \A i \in DOMAIN Wakes(1) : Wakes(1)[i].step = "woken"
  BY <1>1, WakesAre DEF Task
<1>6. <<t>> \in Seq(Tasks) /\ DOMAIN <<t>> = {1} /\ <<t>>[1] = t /\ t.step = "release"
  <2>1. t \in Tasks /\ t.step = "release"
    BY <1>3 DEF Task, Tasks
  <2> QED
    BY <2>1
<1> HIDE DEF t
<1>7. /\ next \in Seq(Tasks)
      /\ \A k \in DOMAIN next : next[k].step = "woken" \/ next[k] = t
      /\ \A i \in DOMAIN Wakes(1) : \E k \in DOMAIN next : next[k] = Wakes(1)[i]
      /\ \E k \in DOMAIN next : next[k].step = "release"
  <2>1. /\ next \in Seq(Tasks)
        /\ \A k \in DOMAIN next : \/ \E i \in DOMAIN Wakes(1) : next[k] = Wakes(1)[i]
                                  \/ \E i \in DOMAIN <<t>> : next[k] = <<t>>[i]
        /\ \A i \in DOMAIN Wakes(1) : \E k \in DOMAIN next : next[k] = Wakes(1)[i]
        /\ \A i \in DOMAIN <<t>> : \E k \in DOMAIN next : next[k] = <<t>>[i]
    BY <1>5, <1>6, Joined
  <2> HIDE DEF next
  <2> QED
    BY <1>5, <1>6, <2>1
<1> HIDE DEF next
<1>8. NothingElse => paused' = paused /\ ("leave" \in hazards => delayed' = delayed)
  <2>1. NothingElse /\ "leave" \in hazards => Now.op \in {"ack", "retry"}
    BY <1>1, <1>2, <1>3, PlainSection DEF Delays
  <2> QED
    BY <1>2, <2>1
<1>9. Takeable' <= Takeable + 1 /\ TakeableSoon' <= TakeableSoon + 1
  BY <1>1, <1>2, TakeableGrows
<1> QED
  BY <1>2, <1>4, <1>7, <1>8, <1>9, SectionNotifies DEF t

\* The jobs of a batch are promised by the announcement that is to come.
LEMMA BatchSectionWakes ==
    ASSUME WInv, IInv', UNCHANGED hazards, BatchSection
    PROVE  WInv'
<1> DEFINE t == Task("notify", Now)
           next == Handover \o <<t>>
<1>1. /\ IInv /\ TypeOK /\ OneHolder /\ OnePlaceEach /\ tasks \in Seq(Tasks) /\ InOrder(tasks)
      /\ LockRuns /\ (WakeupsPromised => NothingElse /\ Promised)
  BY DEF WInv, IInv, TypeOK
<1>2. /\ Runs("section", {"batch"}) /\ ready' = ready + Now.arg
      /\ Release /\ Continue(next)
      /\ delayed' = delayed /\ active' = active /\ paused' = paused
      /\ UNCHANGED <<waiterVars, pullerVars>>
  BY DEF BatchSection
<1>3. lock # <<>> /\ Now \in Handlers /\ Now.op = "batch"
  <2>1. "section" \in Holding
    BY DEF Holding
  <2> QED
    BY <1>1, <1>2, <2>1, RunsFacts
<1>4. PICK n \in Nat : n = Now.arg
  BY <1>3, BatchSize
<1>5. t \in Tasks /\ t.step = "notify" /\ t.handler = Now
  BY <1>3 DEF Task, Tasks
<1> HIDE DEF t
<1>6. <<t>> \in Seq(Tasks) /\ DOMAIN <<t>> = {1} /\ <<t>>[1] = t
  BY <1>5
<1>7. Handover \in Seq(Tasks) /\ \A i \in DOMAIN Handover : Handover[i].step = "section"
  BY <1>1, <1>3, HandoverFacts
<1>8. Cardinality(Announced(next)) >= n
  <2>1. Cardinality(Announced(next)) = Cardinality(Announced(Handover)) + Cardinality(Announced(<<t>>))
    BY <1>6, <1>7, AnnouncedJoin
  <2>2. Cardinality(Announced(<<t>>)) = n
    BY <1>3, <1>4, <1>5, AnnouncedOne
  <2>3. Cardinality(Announced(Handover)) \in Nat
    BY <1>7, AnnouncedFinite
  <2> QED
    BY <2>1, <2>2, <2>3
<1>9. /\ next \in Seq(Tasks)
      /\ \A k \in DOMAIN next : next[k].step \in {"section", "notify"}
      /\ \A i \in DOMAIN Handover : \E k \in DOMAIN next : next[k] = Handover[i]
  <2>1. /\ next \in Seq(Tasks)
        /\ \A k \in DOMAIN next : \/ \E i \in DOMAIN Handover : next[k] = Handover[i]
                                  \/ \E i \in DOMAIN <<t>> : next[k] = <<t>>[i]
        /\ \A i \in DOMAIN Handover : \E k \in DOMAIN next : next[k] = Handover[i]
    BY <1>6, <1>7, Joined
  <2> HIDE DEF next
  <2> QED
    BY <1>5, <1>6, <1>7, <2>1
<1> HIDE DEF next
<1>10. /\ GoesOn(1, next)
       /\ Cardinality(Announced(next)) \in Nat
       /\ Cardinality(Announced(tasks)') = Cardinality(Announced(tasks)) + Cardinality(Announced(next))
       /\ Cardinality(Announced(tasks)) <= Cardinality(Announced(tasks)')
       /\ \A c \in Pullers : \A k \in DOMAIN tasks : TaskOf(k, c) => k > 1
  <2>1. \A c \in Pullers : Now # Call("pull", c)
    BY <1>3 DEF Call
  <2> QED
    BY <1>1, <1>2, <1>9, <2>1, OneStep
<1>11. LineOn(next)
  BY <1>1, <1>2, <1>9, LineStays
<1>12. LockRuns'
  <2>1. lock' = <<>> \/ Holders(next) # {}
    <3>1. CASE 1 \in DOMAIN Handover /\ Handover[1].step = "section"
      <4>1. PICK k \in DOMAIN next : next[k].step = "section"
        BY <1>9, <3>1
      <4> QED
        BY <4>1 DEF Holders, Holding
    <3> QED
      BY <1>1, <1>2, <1>3, <3>1, HandedOn
  <2> QED
    BY <1>1, <1>10, <2>1, LockRunsKept
<1>13. InOrder(tasks')
  BY <1>1, <1>9, <1>10, OrderKept
<1>14. pc' = pc /\ timer' = timer /\ overdue' = overdue /\ pending' = pending /\ entries' = entries
  BY <1>2 DEF waiterVars, pullerVars
<1>15. Steady
  BY <1>14, SteadyBy
<1>16. \A c \in Coming : c \in Coming'
  <2>1. \A c \in Coming : c \in Pullers
    BY DEF Coming
  <2> QED
    BY <1>10, <1>11, <1>14, <1>15, <2>1, ComingKept
<1>17. Gap' \subseteq Gap
  <2> SUFFICES ASSUME NEW c \in Gap'
               PROVE  c \in Gap
    OBVIOUS
  <2>1. \A k \in DOMAIN next : ~(next[k].handler = Call("pull", c) /\ next[k].step \in AfterTheTry)
    BY <1>9 DEF AfterTheTry
  <2> QED
    BY <1>1, <1>10, <1>14, <1>15, <2>1, GapKept
<1>18. \A S \in SUBSET Told : Last(S) => Last(S)'
  <2>1. \A c \in Gap : c \in Pullers
    BY DEF Gap
  <2> QED
    BY <1>1, <1>10, <1>14, <1>15, <1>17, <2>1, LastUnmoved
<1>19. ASSUME WakeupsPromised
       PROVE  NothingElse' /\ Promised'
  <2>1. NothingElse /\ Promised
    BY <1>1, <1>19
  <2>2. Sleepers' = Sleepers
    BY <1>14 DEF Sleepers
  <2>3. NothingElse'
    <3>1. Calm
      BY <1>1, <1>2, <1>14, <2>2 DEF Calm, TypeOK
    <3> QED
      BY <1>1, <1>2, <1>3, <2>1, <3>1, ElseKept
  <2>4. Takeable' <= Takeable + n /\ TakeableSoon' <= TakeableSoon + n
    BY <1>1, <1>2, <1>4, TakeableGrows
  <2>5. /\ Takeable \in Nat /\ Takeable' \in Nat /\ TakeableSoon \in Nat /\ TakeableSoon' \in Nat
        /\ Promises \in Nat /\ Promises' \in Nat
        /\ Cardinality(Coming) \in Nat /\ IsFiniteSet(Coming') /\ Cardinality(Coming') \in Nat
        /\ Cardinality(Announced(tasks)) \in Nat /\ Cardinality(Announced(tasks)') \in Nat
    BY <1>1, Numbers
  <2>6. Cardinality(Coming) <= Cardinality(Coming')
    <3>1. Coming \in SUBSET (Coming')
      BY <1>16
    <3> QED
      BY <2>5, <3>1, FS_Subset
  <2>7. Promises + n <= Promises'
    BY <1>4, <1>8, <1>10, <2>5, <2>6 DEF Promises
  <2>8. \A a, b, p, q \in Nat : b <= a + n /\ p + n <= q =>
           (a <= p => b <= q) /\ (a <= p + 1 => b <= q + 1)
    OBVIOUS
  <2>9. /\ TakeableSoon <= Promises => TakeableSoon' <= Promises'
        /\ TakeableSoon <= Promises + 1 => TakeableSoon' <= Promises' + 1
        /\ Takeable <= Promises => Takeable' <= Promises'
    BY <2>4, <2>5, <2>7, <2>8
  <2>10. (Last(Told) => Last(Told)') /\ (Last({"due"}) => Last({"due"})')
    BY <1>18 DEF Told
  <2>11. Enough => Enough'
    BY <2>9, <2>10 DEF Enough
  <2>12. \A b, c \in Gap' : b # c => TakeableSoon' <= 1
    BY <1>1, <1>2, <1>17, OneInGap
  <2> QED
    BY <1>14, <1>17, <2>1, <2>2, <2>3, <2>11, <2>12 DEF Promised
<1>20. WakeupsPromised' = WakeupsPromised
  BY DEF WakeupsPromised
<1> QED
  BY <1>12, <1>13, <1>19, <1>20 DEF WInv

\* The batch is announced: its notifications are given for the promises.
LEMMA NotifyBatchWakes ==
    ASSUME WInv, IInv', UNCHANGED hazards, NotifyBatch
    PROVE  WInv'
<1>1. /\ IInv /\ TypeOK /\ OneHolder /\ OnePlaceEach /\ tasks \in Seq(Tasks) /\ InOrder(tasks)
      /\ entries \in Seq(Entries) /\ Waits(entries, activeWaiters, Sleepers)
      /\ (WakeupsPromised => NothingElse /\ Promised)
  BY DEF WInv, IInv, TypeOK
<1>2. Runs("notify", {"batch"}) /\ UNCHANGED jobVars /\ lock' = lock
  BY DEF NotifyBatch
<1>3. Now \in Handlers /\ Now.op = "batch" /\ tasks # <<>> /\ tasks[1].step = "notify"
  BY <1>1, <1>2, RunsFacts
<1>4. PICK n \in Nat : n = Now.arg /\ n > 0
  <2>1. Now.arg \in 2..MaxBatch /\ MaxBatch \in Nat
    BY <1>3, BoundsAssumption DEF Handlers, Pushes, Releases, Silent
  <2>2. Now.arg \in Nat /\ Now.arg > 0
    BY <2>1
  <2> QED
    BY <2>2
<1>5. Notify(n)
  BY <1>4 DEF NotifyBatch, Notify, NotifyQueue, Woken
<1> DEFINE next == Wakes(n)
<1>6. Continue(next)
  BY <1>4 DEF NotifyBatch, Wakes, Woken
<1>7. next \in Seq(Tasks) /\ \A i \in DOMAIN next : next[i].step = "woken"
  BY <1>1, WakesAre DEF Task
<1> HIDE DEF next
<1>8. /\ GoesOn(1, next) /\ Cardinality(Announced(next)) \in Nat
      /\ \A c \in Pullers : \A k \in DOMAIN tasks : TaskOf(k, c) => k > 1
  <2>1. \A c \in Pullers : Now # Call("pull", c)
    BY <1>3 DEF Call
  <2> QED
    BY <1>1, <1>2, <1>6, <1>7, <2>1, OneStep
<1>9. Cardinality(Announced(tasks)) <= Cardinality(Announced(tasks)') + n
  <2>1. Head(tasks) = tasks[1] /\ Head(tasks) \in Tasks /\ Head(tasks).handler = Now
    BY <1>1, <1>3 DEF Now
  <2>2. Cardinality(Announced(<<Head(tasks)>>)) = n
    BY <1>3, <1>4, <2>1, AnnouncedOne
  <2>3. Cardinality(Announced(tasks)') =
          Cardinality(Announced(tasks)) - n + Cardinality(Announced(next))
    BY <1>1, <1>3, <1>6, <1>7, <2>2, AnnouncedAfter
  <2>4. Cardinality(Announced(tasks)) \in Nat
    BY <1>1, Numbers
  <2> QED
    BY <1>4, <1>8, <2>3, <2>4
<1>10. LineOn(next)
  BY <1>1, <1>2, LineStays
<1>11. LockRuns'
  BY <1>2, <1>8, LockRunsBeside DEF Holding
<1>12. InOrder(tasks')
  BY <1>1, <1>7, <1>8, OrderKept
<1>13. Gap' \subseteq Gap
  <2>1. \A c \in Pullers : \A k \in DOMAIN next :
          next[k].step \in AfterTheTry => next[k].handler # Call("pull", c)
    BY <1>7 DEF AfterTheTry
  <2> QED
    BY <1>1, <1>5, <1>8, <2>1, NoticeClosesGap
<1>14. /\ Sleepers' \subseteq Sleepers
       /\ Sleepers' # {} \/ Gap' # {} => \A S \in SUBSET Told : Last(S) => Last(S)'
  <2>1. ASSUME Sleepers' # {} \/ Gap' # {}, NEW S \in SUBSET Told, Last(S)
        PROVE  Last(S)'
    BY <1>1, <1>5, <1>8, <1>13, <2>1, LastUnwoken
  <2> QED
    BY <1>1, <1>5, <2>1, NotifyPullers
<1>15. Takeable' = Takeable /\ TakeableSoon' = TakeableSoon
  BY <1>1, <1>2, TakeableGrows
<1>16. ASSUME WakeupsPromised
       PROVE  NothingElse' /\ Promised'
  <2>1. NothingElse /\ Promised
    BY <1>1, <1>16
  <2>2. NothingElse'
    <3>1. paused' = paused /\ delayed' = delayed
      BY <1>2 DEF jobVars
    <3>2. Calm
      BY <1>1, <1>5, <3>1, NotifyCalm
    <3> QED
      BY <1>1, <1>2, <2>1, <3>1, <3>2, ElseKept
  <2>3. \/ Sleepers' = {} /\ pending'
        \/ Sleepers # {} /\ Cardinality(Coming) + n <= Cardinality(Coming')
    <3>1. \A k \in DOMAIN Wakes(n) : \E m \in DOMAIN next : next[m] = Wakes(n)[k]
      BY DEF next
    <3> QED
      BY <1>1, <1>4, <1>5, <1>8, <1>10, <2>1, <3>1, NotifyWakes
  <2>4. /\ Takeable' + Cardinality(Announced(tasks)) <= Takeable + n + Cardinality(Announced(tasks)')
        /\ TakeableSoon' + Cardinality(Announced(tasks))
               <= TakeableSoon + n + Cardinality(Announced(tasks)')
    <3>1. /\ Takeable \in Nat /\ TakeableSoon \in Nat
          /\ Cardinality(Announced(tasks)) \in Nat /\ Cardinality(Announced(tasks)') \in Nat
      BY <1>1, Numbers
    <3>2. \A a, e, f \in Nat : e <= f + n => a + e <= a + n + f
      OBVIOUS
    <3> QED
      BY <1>9, <1>15, <3>1, <3>2
  <2>5. \A b, c \in Gap' : b # c => TakeableSoon' <= 1
    BY <1>13, <1>15, <2>1 DEF Promised
  <2>6. Promised'
    BY <1>1, <1>13, <1>14, <2>1, <2>3, <2>4, <2>5, NotifiedKeeps
  <2> QED
    BY <2>2, <2>6
<1>17. WakeupsPromised' = WakeupsPromised
  BY DEF WakeupsPromised
<1> QED
  BY <1>11, <1>12, <1>16, <1>17 DEF WInv

\* With silent sections nothing is promised, but the lock and the order are kept.
LEMMA SilentSectionWakes ==
    ASSUME WInv, IInv', UNCHANGED hazards, SilentSection
    PROVE  WInv'
<1> DEFINE t == Task("release", Now)
           next == <<t>>
<1>1. /\ IInv /\ TypeOK /\ OneHolder /\ OnePlaceEach /\ tasks \in Seq(Tasks) /\ InOrder(tasks)
      /\ LockRuns /\ (WakeupsPromised => NothingElse)
  BY DEF WInv, IInv, TypeOK
<1>2. Runs("section", Silent) /\ Continue(next)
  BY DEF SilentSection
<1>3. Now \in Handlers /\ Now.op \in Silent
  BY <1>1, <1>2, RunsFacts
<1>4. t \in Tasks /\ t.step = "release"
  BY <1>3 DEF Task, Tasks
<1> HIDE DEF t
<1>5. next \in Seq(Tasks) /\ DOMAIN next = {1} /\ next[1] = t
  BY <1>4
<1> HIDE DEF next
<1>6. GoesOn(1, next)
  BY <1>1, <1>2, <1>5, OneStep
<1>7. LockRuns'
  <2>1. Holders(next) # {}
    BY <1>4, <1>5 DEF Holders, Holding
  <2> QED
    BY <1>1, <1>6, <2>1, LockRunsKept
<1>8. InOrder(tasks')
  BY <1>1, <1>4, <1>5, <1>6, OrderKept
<1>9. ~WakeupsPromised
  BY <1>1, <1>2, <1>3, PlainSection
<1>10. WakeupsPromised' = WakeupsPromised
  BY DEF WakeupsPromised
<1> QED
  BY <1>7, <1>8, <1>9, <1>10 DEF WInv

-----------------------------------------------------------------------------
(***************************************************************************)
(* Timers, and what takes no lock.                                         *)
(***************************************************************************)

\* Whenever the event loop has no microtask left, the jobs that can be taken
\* are promised to nobody.
LEMMA NothingPromised ==
    ASSUME WInv, Quiet
    PROVE  Promises = 0
<1>1. LockRuns /\ tasks = <<>>
  BY DEF WInv, Quiet
<1>2. lock = <<>>
  BY <1>1 DEF LockRuns, Holders
<1>3. Coming = {} /\ Announced(tasks) = {}
  BY <1>1, <1>2 DEF Coming, OnTheWay, Announced
<1> QED
  BY <1>3, FS_EmptySet DEF Promises

\* Microtasks are added while the lock stays as it is.
LEMMA LoopKeepsOrder ==
    ASSUME WInv, NEW next \in Seq(Tasks), tasks' = tasks \o next, lock' = lock,
           \A k \in DOMAIN next : next[k].step = "woken"
    PROVE  /\ LockRuns' /\ InOrder(tasks') /\ GoesOn(0, next)
           /\ Cardinality(Announced(tasks)) <= Cardinality(Announced(tasks)')
<1>1. tasks \in Seq(Tasks) /\ InOrder(tasks) /\ LockRuns
  BY DEF WInv, IInv, TypeOK
<1>2. GoesOn(0, next)
  BY <1>1, QueueGrows
<1>3. InOrder(tasks')
  BY <1>1, <1>2, OrderKept
<1>4. LockRuns'
  <2>1. \A k \in Holders(tasks) : k > 0
    BY <1>1 DEF Holders
  <2>2. lock = <<>> => lock' = <<>>
    OBVIOUS
  <2> QED
    BY <1>1, <1>2, <2>1, <2>2, LockRunsKept
<1>5. Cardinality(Announced(tasks)) <= Cardinality(Announced(tasks)')
  BY <1>1, AnnouncedGrows
<1> QED
  BY <1>2, <1>3, <1>4, <1>5

\* The waiter whose timer runs out is a puller on its way.
LEMMA TimeoutWakes ==
    ASSUME WInv, IInv', UNCHANGED hazards, NEW c \in Pullers, Timeout(c)
    PROVE  WInv'
<1> DEFINE t == Task("woken", Call("pull", c))
           next == <<t>>
<1>1. /\ IInv /\ TypeOK /\ tasks \in Seq(Tasks) /\ (WakeupsPromised => NothingElse /\ Promised)
      /\ pc \in [Pullers -> {"idle", "running", "served", "asleep"}]
      /\ timer \in [Pullers -> {"deadline", "nextRun", "due"}]
  BY DEF WInv, IInv, TypeOK
<1>2. /\ pc[c] = "asleep" /\ tasks = <<>> /\ tasks' = next /\ pc' = [pc EXCEPT ![c] = "running"]
      /\ timer' = [timer EXCEPT ![c] = "deadline"] /\ overdue' = overdue
      /\ UNCHANGED jobVars /\ lock' = lock
  BY DEF Timeout, Quiet
<1>3. t \in Tasks /\ t.step = "woken" /\ t.handler = Call("pull", c)
  BY DEF Task, Call, Tasks, Handlers
<1> HIDE DEF t
<1>4. next \in Seq(Tasks) /\ DOMAIN next = {1} /\ next[1] = t /\ tasks' = tasks \o next
  BY <1>2, <1>3
<1> HIDE DEF next
<1>5. /\ LockRuns' /\ InOrder(tasks') /\ GoesOn(0, next)
      /\ Cardinality(Announced(tasks)) <= Cardinality(Announced(tasks)')
  BY <1>2, <1>3, <1>4, LoopKeepsOrder
<1>6. Gap' = {}
  <2>1. Gap = {}
    BY <1>2 DEF Gap, InGap
  <2>2. Steady
    BY <1>2, SteadyBy
  <2>3. \A b \in Pullers : pc'[b] = "running" => pc[b] # "served"
    BY <1>1, <1>2
  <2>4. ASSUME NEW b \in Gap'
        PROVE  FALSE
    <3>1. b \in Pullers /\ pc'[b] = "running"
      BY DEF Gap
    <3>2. \A k \in DOMAIN next : ~(next[k].handler = Call("pull", b) /\ next[k].step \in AfterTheTry)
      BY <1>3, <1>4 DEF AfterTheTry
    <3> QED
      BY <1>1, <1>5, <2>1, <2>2, <2>3, <3>1, <3>2, GapKept DEF IInv
  <2> QED
    BY <2>4
<1>7. WakeupsPromised' = WakeupsPromised
  BY DEF WakeupsPromised
<1>8. ASSUME WakeupsPromised
      PROVE  NothingElse' /\ Promised'
  <2>1. NothingElse /\ Promised
    BY <1>1, <1>8
  <2>2. c \in Sleepers /\ Sleepers' \subseteq Sleepers
    BY <1>1, <1>2 DEF Sleepers
  <2>3. paused' = paused /\ delayed' = delayed
    BY <1>2 DEF jobVars
  <2>4. Calm
    BY <1>1, <1>2, <2>2, <2>3 DEF Calm
  <2>5. NothingElse'
    BY <1>1, <1>2, <2>1, <2>3, <2>4, ElseKept
  <2>6. Promises = 0
    BY <1>2, NothingPromised DEF Quiet
  <2>7. TakeableSoon <= 1
    <3>1. Enough
      BY <2>1, <2>2 DEF Promised
    <3>2. TakeableSoon \in Nat /\ (TakeableSoon <= 0 \/ TakeableSoon <= 0 + 1)
      BY <1>1, <2>6, <3>1, Numbers DEF Enough
    <3> QED
      BY <3>2
  <2>8. c \in Coming'
    <3>1. Stays(c)' /\ pc'[c] = "running"
      BY <1>1, <1>2, <2>1, <2>2 DEF Stays, NothingElse
    <3> QED
      BY <1>3, <1>4, <1>5, <3>1, ComingNew DEF ToTheLock
  <2>9. 1 <= Promises'
    <3>1. /\ IsFiniteSet(Coming') /\ Cardinality(Coming') \in Nat
          /\ Cardinality(Announced(tasks)') \in Nat /\ Promises' \in Nat
      BY <1>1, Numbers
    <3>2. {c} \in SUBSET Coming' /\ Cardinality({c}) = 1
      BY <2>8, FS_Singleton
    <3>3. 1 <= Cardinality(Coming')
      BY <3>1, <3>2, FS_Subset
    <3> QED
      BY <3>1, <3>3 DEF Promises
  <2>10. TakeableSoon' <= Promises'
    <3>1. TakeableSoon' = TakeableSoon /\ TakeableSoon \in Nat /\ Promises' \in Nat
      BY <1>1, <1>2, TakeableGrows, Numbers
    <3> QED
      BY <2>7, <2>9, <3>1
  <2> QED
    BY <1>6, <2>5, <2>10 DEF Promised, Enough
<1> QED
  BY <1>5, <1>7, <1>8 DEF WInv

\* What moves neither the jobs, the microtasks nor the line.
LEMMA BesideWakes ==
    ASSUME WInv, IInv', UNCHANGED hazards, UNCHANGED jobVars, tasks' = tasks, lock' = lock,
           pending' = pending,
           \/ pc' = pc /\ timer' = timer /\ overdue' = overdue /\ entries' = entries
           \/ /\ "leave" \in hazards /\ \A c \in Pullers : timer'[c] \in {timer[c], "deadline"}
              /\ \A c \in Pullers :
                    pc'[c] \in {"running", "asleep"} \/ pc[c] = "running" => pc'[c] = pc[c]
    PROVE  WInv'
<1>1. IInv /\ TypeOK /\ LockRuns /\ InOrder(tasks)
  BY DEF WInv, IInv
<1>2. LockRuns' /\ InOrder(tasks')
  BY <1>1 DEF LockRuns
<1>3. \A c \in Pullers : \A s : (InGap(c, s)' <=> InGap(c, s)) /\ (OnTheWay(c)' <=> OnTheWay(c))
  BY DEF InGap, OnTheWay, TaskOf, InLineOf
<1>4. \A c \in Pullers : /\ pc'[c] \in {"running", "asleep"} \/ pc[c] = "running" => pc'[c] = pc[c]
                         /\ Stays(c)' <=> Stays(c)
  BY DEF Stays
<1>5. Coming' = Coming /\ Gap' = Gap /\ Sleepers' \subseteq Sleepers
  BY <1>3, <1>4 DEF Coming, Gap, Sleepers
<1>6. Promises <= Promises'
  <2>1. Promises \in Nat
    BY <1>1, Numbers
  <2>2. Announced(tasks)' = Announced(tasks)
    BY DEF Announced
  <2>3. Promises' = Promises
    BY <1>5, <2>2 DEF Promises
  <2> QED
    BY <2>1, <2>3
<1>7. ASSUME NothingElse, NEW S \in SUBSET Told, Last(S)
      PROVE  Last(S)'
  <2>1. "leave" \notin hazards
    BY <1>1, <1>7, NoTimers
  <2>2. pc' = pc /\ timer' = timer /\ overdue' = overdue /\ entries' = entries
    BY <2>1
  <2>3. LastInGap(S) => LastInGap(S)'
    <3>1. \A b, c \in Pullers : Precedes(b, c) => Precedes(b, c)'
      BY <1>3 DEF Precedes
    <3>2. Gap \subseteq Pullers
      BY DEF Gap
    <3> QED
      BY <1>5, <2>2, <3>1, <3>2 DEF LastInGap
  <2>4. Youngest(S) => Youngest(S)'
    BY <2>2 DEF Youngest
  <2> QED
    BY <1>5, <1>7, <2>3, <2>4 DEF Last
<1>8. ASSUME NothingElse
      PROVE  Calm
  <2>1. delayed' = delayed
    BY DEF jobVars
  <2>2. CASE "leave" \in hazards
    <3>1. \A c \in Pullers : timer'[c] \in {timer[c], "deadline"}
      OBVIOUS
    <3> QED
      BY <2>1, <2>2, <3>1 DEF Calm
  <2>3. CASE "leave" \notin hazards
    BY <1>5, <2>3 DEF Calm
  <2> QED
    BY <2>2, <2>3
<1> QED
  BY <1>2, <1>5, <1>6, <1>7, <1>8, NoJobMoves

\* The delayed job is due: it may be taken, and the timer that it was left to
\* has run out.
LEMMA MatureWakes ==
    ASSUME WInv, IInv', UNCHANGED hazards, Mature
    PROVE  WInv'
<1>1. /\ IInv /\ TypeOK /\ LockRuns /\ InOrder(tasks) /\ (WakeupsPromised => NothingElse /\ Promised)
      /\ Waits(entries, activeWaiters, Sleepers)
      /\ timer \in [Pullers -> {"deadline", "nextRun", "due"}]
  BY DEF WInv, IInv, TypeOK
<1>2. /\ delayed = TRUE /\ delayed' = FALSE /\ ready' = ready + 1 /\ active' = active /\ paused' = paused
      /\ tasks' = tasks /\ lock' = lock /\ pc' = pc /\ overdue' = overdue
      /\ pending' = pending /\ entries' = entries
      /\ timer' = [c \in Pullers |-> IF timer[c] = "nextRun" THEN "due" ELSE timer[c]]
  BY <1>1 DEF Mature, waiterVars, TypeOK
<1>3. LockRuns' /\ InOrder(tasks')
  BY <1>1, <1>2 DEF LockRuns
<1>4. \A c \in Pullers : \A s :
         /\ InGap(c, s)' <=> InGap(c, s)
         /\ OnTheWay(c)' <=> OnTheWay(c)
         /\ Stays(c)' <=> Stays(c)
  BY <1>2 DEF InGap, OnTheWay, TaskOf, InLineOf, Stays
<1>5. Coming' = Coming /\ Gap' = Gap /\ Sleepers' = Sleepers
  BY <1>2, <1>4 DEF Coming, Gap, Sleepers
<1>6. Promises' = Promises
  <2>1. Announced(tasks)' = Announced(tasks)
    BY <1>2 DEF Announced
  <2> QED
    BY <1>5, <2>1 DEF Promises
<1>7. TakeableSoon' = TakeableSoon /\ Takeable' = TakeableSoon
  <2>1. ready \in Nat
    BY <1>1 DEF TypeOK
  <2>2. TakeableSoon = Smaller(ready + 1, Limit - active)
    BY <1>2, Zenon DEF TakeableSoon
  <2>3. TakeableSoon' = Smaller(ready' + 0, Limit - active')
    BY <1>2, Zenon DEF TakeableSoon
  <2>4. Takeable' = Smaller(ready', Limit - active')
    BY DEF Takeable
  <2>5. ready' + 0 = ready + 1 /\ ready' = ready + 1
    BY <1>2, <2>1
  <2> QED
    BY <1>2, <2>2, <2>3, <2>4, <2>5
<1>8. WakeupsPromised' = WakeupsPromised
  BY DEF WakeupsPromised
<1>9. ASSUME WakeupsPromised
      PROVE  NothingElse' /\ Promised'
  <2>1. NothingElse /\ Promised
    BY <1>1, <1>9
  <2>2. "leave" \notin hazards
    BY <1>2, <2>1 DEF NothingElse
  <2>3. Calm
    BY <1>2, <1>5, <2>2 DEF Calm
  <2>4. NothingElse'
    BY <1>1, <1>2, <2>1, <2>3, ElseKept
  <2>5. ASSUME NEW R, "due" \in R, Last(Told)
        PROVE  Last(R)'
    <3>1. \A c \in Pullers : timer[c] \in Told => timer'[c] \in R
      BY <1>2, <2>5 DEF Told
    <3>2. Gap \subseteq Pullers /\ Sleepers \subseteq Pullers
      BY DEF Gap, Sleepers
    <3>3. \A b, c \in Pullers : Precedes(b, c) => Precedes(b, c)'
      BY <1>4 DEF Precedes
    <3>4. \A c \in Gap : timer[c] \in Told => c \in Gap' /\ timer'[c] \in R
      BY <1>5, <3>1, <3>2
    <3>5. \A b, c \in Gap : b # c /\ Precedes(b, c) => Precedes(b, c)' \/ b \notin Gap'
      BY <3>2, <3>3
    <3>6. \A c \in Sleepers : timer[c] \in Told => timer'[c] \in R
      BY <3>1, <3>2
    <3>7. Gap' \subseteq Gap /\ entries' = entries
      BY <1>2, <1>5
    <3> QED
      BY <1>1, <2>5, <3>4, <3>5, <3>6, <3>7, LastKept
  <2>6. Enough => Enough'
    BY <1>6, <1>7, <2>5 DEF Enough, Told
  <2> QED
    BY <1>2, <1>5, <1>7, <2>1, <2>4, <2>6 DEF Promised
<1> QED
  BY <1>3, <1>8, <1>9 DEF WInv

\* Pausing is not among what the wake-ups are promised with.
LEMMA PauseWakes ==
    ASSUME WInv, IInv', UNCHANGED hazards, PauseQueue
    PROVE  WInv'
<1>1. /\ tasks' = tasks /\ lock' = lock /\ ~WakeupsPromised
      /\ WakeupsPromised' = WakeupsPromised
  BY DEF PauseQueue, WakeupsPromised
<1> QED
  BY <1>1 DEF WInv, LockRuns

LEMMA LeaveWakes ==
    ASSUME WInv, IInv', UNCHANGED hazards, NEW c \in Pullers, Abort(c) \/ DeadlinePasses(c)
    PROVE  WInv'
<1>1. /\ pc \in [Pullers -> {"idle", "running", "served", "asleep"}]
      /\ timer \in [Pullers -> {"deadline", "nextRun", "due"}]
  BY DEF WInv, IInv, TypeOK
<1>2. CASE Abort(c)
  <2>1. /\ tasks' = tasks /\ lock' = lock /\ UNCHANGED jobVars /\ pending' = pending
        /\ pc' = [pc EXCEPT ![c] = "idle"] /\ pc[c] = "asleep" /\ "leave" \in hazards
        /\ timer' = [timer EXCEPT ![c] = "deadline"]
    BY <1>2 DEF Abort, Settle, Return
  <2>2. \A b \in Pullers :
           /\ pc'[b] \in {"running", "asleep"} \/ pc[b] = "running" => pc'[b] = pc[b]
           /\ timer'[b] \in {timer[b], "deadline"}
    BY <1>1, <2>1
  <2> QED
    BY <2>1, <2>2, BesideWakes
<1>3. CASE DeadlinePasses(c)
  <2>1. /\ tasks' = tasks /\ lock' = lock /\ UNCHANGED jobVars /\ pending' = pending /\ pc' = pc
        /\ timer' = timer /\ "leave" \in hazards
    BY <1>3 DEF DeadlinePasses, waiterVars
  <2> QED
    BY <2>1, BesideWakes
<1> QED
  BY <1>2, <1>3

\* The queue was paused: nothing was promised, nor is it now.
LEMMA ResumeQueueWakes ==
    ASSUME WInv, IInv', UNCHANGED hazards, ResumeQueue
    PROVE  WInv'
<1>1. /\ IInv /\ (WakeupsPromised => NothingElse)
      /\ entries \in Seq(Entries) /\ Waits(entries, activeWaiters, Sleepers)
  BY DEF WInv, IInv, TypeOK
<1>2. paused /\ tasks' = tasks \o Wakes(1) /\ lock' = lock
  BY DEF ResumeQueue
<1>3. Wakes(1) \in Seq(Tasks) /\ \A k \in DOMAIN Wakes(1) : Wakes(1)[k].step = "woken"
  BY <1>1, WakesAre DEF Task
<1>4. LockRuns' /\ InOrder(tasks')
  BY <1>2, <1>3, LoopKeepsOrder
<1>5. ~WakeupsPromised /\ WakeupsPromised' = WakeupsPromised
  BY <1>1, <1>2 DEF NothingElse, WakeupsPromised
<1> QED
  BY <1>4, <1>5 DEF WInv

LEMMA InitWakes ==
    ASSUME Init
    PROVE  WInv
<1>1. IInv
  BY InitInv
<1>2. LockRuns /\ InOrder(tasks)
  BY DEF Init, LockRuns, InOrder
<1>3. Sleepers = {} /\ Gap = {}
  BY DEF Init, Sleepers, Gap
<1>4. NothingElse
  BY <1>3 DEF Init, NothingElse
<1>5. Promised
  BY <1>3 DEF Promised
<1> QED
  BY <1>1, <1>2, <1>4, <1>5 DEF WInv

LEMMA NextWakes ==
    ASSUME WInv, [Next]_vars
    PROVE  WInv'
<1>1. IInv'
  BY NextInv, StandStill DEF WInv
<1>2. CASE UNCHANGED vars
  <2>1. /\ UNCHANGED hazards /\ tasks' = tasks /\ lock' = lock /\ UNCHANGED jobVars
        /\ pending' = pending /\ pc' = pc /\ timer' = timer /\ overdue' = overdue /\ entries' = entries
    BY <1>2 DEF vars, broker, waiterVars, pullerVars
  <2> QED
    BY <1>1, <2>1, BesideWakes
<1>3. CASE Next
  <2>1. UNCHANGED hazards /\ Steps
    BY <1>3 DEF Next
  <2>2. CASE Microtask
    BY <1>1, <2>1, <2>2, PullSectionWakes, ReleaseSectionWakes, AwaitWakes, ReturnFromPullWakes,
       WaitForJobWakes, TryAgainWakes, PushSectionWakes, BatchSectionWakes, NotifyBatchWakes,
       AckOrRetryWakes, SilentSectionWakes
       DEF Microtask
  <2>3. ASSUME NEW c \in Pullers, Pull(c) \/ Timeout(c) \/ Abort(c) \/ DeadlinePasses(c)
        PROVE  WInv'
    BY <1>1, <2>1, <2>3, PullWakes, TimeoutWakes, LeaveWakes
  <2>4. ASSUME NEW h \in Handlers, CallsComeIn(h)
        PROVE  WInv'
    BY <1>1, <2>1, <2>4, CallsComeInWakes
  <2>5. CASE PauseQueue \/ ResumeQueue \/ Mature
    BY <1>1, <2>1, <2>5, PauseWakes, MatureWakes, ResumeQueueWakes
  <2> QED
    BY <2>1, <2>2, <2>3, <2>4, <2>5 DEF Steps
<1> QED
  BY <1>2, <1>3

\* The promises hold in every state: for each job that can be taken a puller is
\* on its way to the lock or a notification is to come, but for one job that is
\* left to the timer of the last that goes to sleep, unless nobody sleeps and
\* nobody is about to without the pending bit.
THEOREM PromisesHold == Spec => []WInv
<1>1. Init => WInv
  BY InitWakes
<1>2. WInv /\ [Next]_vars => WInv'
  BY NextWakes
<1> QED
  BY <1>1, <1>2, PTL DEF Spec

\* No wake-up is lost: single and batch pushes, delayed jobs, acks, failures
\* with and without a backoff, pulls of one and of many, deadlines, timers and
\* closing connections, in every order and with any number of calls in line.
THEOREM NoWakeupLost == Spec => []NoLostWakeup
<1>1. ASSUME WInv
      PROVE  NoLostWakeup
  <2> SUFFICES ASSUME WakeupsPromised, Quiet, ready > 0, active < Limit, Sleepers # {}
               PROVE  \E c \in Sleepers : timer[c] = "due"
    BY DEF NoLostWakeup
  <2>1. IInv /\ Enough /\ Waits(entries, activeWaiters, Sleepers)
    BY <1>1 DEF WInv, IInv, Promised
  <2>2. Promises = 0
    BY <1>1, NothingPromised
  <2>3. Gap = {}
    BY DEF Gap, InGap, Quiet
  <2>4. ~(Takeable <= 0) /\ ~(TakeableSoon <= 0)
    <3>1. ready \in Nat /\ active \in Nat /\ Limit \in Nat /\ active <= Limit
      BY <2>1, CountAssumption DEF IInv, TypeOK, SlotsInUse
    <3>2. Limit - active \in Nat /\ Limit - active > 0
      BY <3>1
    <3> QED
      BY <3>1, <3>2 DEF Takeable, TakeableSoon, Smaller
  <2>5. Youngest({"due"})
    BY <2>1, <2>2, <2>3, <2>4 DEF Enough, Last, LastInGap
  <2>6. PICK i \in LiveIn(entries) : timer[entries[i].puller] = "due"
    BY <2>5 DEF Youngest
  <2>7. entries[i].puller \in Sleepers
    BY <2>1 DEF Waits
  <2> QED
    BY <2>6, <2>7
<1>2. WInv => NoLostWakeup
  BY <1>1
<1> QED
  BY <1>2, PromisesHold, PTL

=============================================================================
