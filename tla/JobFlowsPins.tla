---------------------------- MODULE JobFlowsPins ----------------------------
(***************************************************************************)
(* Proofs about JobFlows for any finite set of jobs and every              *)
(* configuration: what the operators make of the proofs of completion and  *)
(* of their order, that every state is typed with the tiers within their   *)
(* bound, and that no step gives up a pin that a registered edge needs.    *)
(* JobFlowsProofs rests on it.                                             *)
(***************************************************************************)
EXTENDS JobFlows, FiniteSetTheorems, SequenceTheorems, WellFoundedInduction, TLAPS

Records == [recent : SUBSET Jobs, pinned : SUBSET Jobs, log : Seq(Jobs),
            table : [Jobs -> {"none", "recent", "pinned"}]]

\* What speaks for the completion of a job: a tier in memory or the table.
Attests(p, d) == d \in p.recent \/ d \in p.pinned \/ p.table[d] # "none"

\* What a configuration says of its jobs.
LEMMA SettingParts ==
    ASSUME setting \in Settings
    PROVE  /\ setting.needs \in [Jobs -> SUBSET Jobs]
           /\ setting.parent \in [Jobs -> Jobs \cup {None}]
           /\ setting.option \in [Jobs -> Options]
           /\ setting.batches \subseteq SUBSET Jobs
           /\ setting.late \subseteq Jobs \X Jobs /\ setting.links \subseteq Jobs \X Jobs
           /\ setting.keep \in Nat \ {0}
           /\ WellFormed(setting)
<1>1. setting \in SettingType
  BY FlowAssumption
<1> QED
  BY <1>1, FlowAssumption DEF SettingType

-----------------------------------------------------------------------------
(***************************************************************************)
(* The proofs of completion.  What the operators make of them attests to   *)
(* nothing that they did not attest to before.                             *)
(***************************************************************************)

Weaker(p, q) == \A d \in Jobs : Attests(p, d) => Attests(q, d)

\* A tier that has taken over or given up records, under any order of them.
LEMMA RecordParts ==
    ASSUME NEW p \in Records
    PROVE  /\ p.recent \subseteq Jobs /\ p.pinned \subseteq Jobs /\ p.log \in Seq(Jobs)
           /\ p.table \in [Jobs -> {"none", "recent", "pinned"}]
           /\ p = [recent |-> p.recent, pinned |-> p.pinned, log |-> p.log, table |-> p.table]
BY DEF Records

LEMMA PinKeeps ==
    ASSUME NEW p \in Records, NEW S, S \subseteq Jobs
    PROVE  /\ Pin(S, p) \in Records
           /\ Pin(S, p).recent = p.recent \ S /\ Pin(S, p).pinned = p.pinned \cup S
           /\ Pin(S, p).table = p.table
BY DEF Records, Pin

LEMMA MarkTableKeeps ==
    ASSUME NEW p \in Records, NEW S, NEW mark \in {"recent", "pinned"}
    PROVE  /\ MarkTable(S, mark, p) \in Records
           /\ Weaker(MarkTable(S, mark, p), p)
BY DEF Records, MarkTable, Weaker, Attests

LEMMA PruneThroughKeeps ==
    ASSUME NEW p \in Records, NEW last
    PROVE  /\ PruneThrough(last, p) \in Records
           /\ Weaker(PruneThrough(last, p), p)
BY DEF Records, PruneThrough, Weaker, Attests

LEMMA HydrateKeeps ==
    ASSUME NEW p \in Records
    PROVE  /\ Hydrate(p) \in Records
           /\ Weaker(Hydrate(p), p)
BY DEF Records, Hydrate, Weaker, Attests

LEMMA WeakerTransitive ==
    ASSUME NEW p, NEW q, NEW r, Weaker(p, q), Weaker(q, r)
    PROVE  Weaker(p, r)
BY DEF Weaker

LEMMA RetainKeeps ==
    ASSUME NEW p \in Records, NEW S, S \subseteq Jobs
    PROVE  /\ Retain(S, p) \in Records
           /\ \A d \in Jobs : Attests(Retain(S, p), d) => Attests(p, d) \/ d \in S
<1> DEFINE kept == Youngest(setting.keep, p.recent \cup (S \ p.pinned), p)
<1>1. kept \subseteq p.recent \cup S
  BY DEF Youngest
<1>2. Retain(S, p) = [p EXCEPT !.recent = kept,
          !.table = [d \in Jobs |-> IF d \in p.recent \ kept /\ @[d] # "pinned"
                                    THEN "none" ELSE @[d]]]
  BY DEF Retain
<1> HIDE DEF kept
<1>3. kept \subseteq Jobs
  BY <1>1, RecordParts
<1>4. /\ Retain(S, p) = [recent |-> kept, pinned |-> p.pinned, log |-> p.log,
                          table |-> Retain(S, p).table]
      /\ Retain(S, p).table =
           [d \in Jobs |-> IF d \in p.recent \ kept /\ p.table[d] # "pinned"
                           THEN "none" ELSE p.table[d]]
  BY <1>2, RecordParts
<1>5. Retain(S, p) \in Records
  BY <1>3, <1>4, RecordParts DEF Records
<1>6. \A d \in Jobs : Retain(S, p).table[d] # "none" => p.table[d] # "none"
  BY <1>4
<1> QED
  BY <1>1, <1>4, <1>5, <1>6 DEF Attests

LEMMA SetToSeqType ==
    ASSUME NEW S, S \subseteq Jobs
    PROVE  SetToSeq(S) \in Seq(Jobs)
<1>1. IsFiniteSet(S)
  BY FlowAssumption, FS_Subset
<1>2. Cardinality(S) \in Nat /\ ExistsBijection(1 .. Cardinality(S), S)
  BY <1>1, FS_CardinalityType
<1>3. \E f \in [1 .. Cardinality(S) -> S] : IsInjective(f)
  BY <1>2 DEF ExistsBijection, Bijection, Injection, IsInjective
<1>4. SetToSeq(S) \in [1 .. Cardinality(S) -> S]
  BY <1>3 DEF SetToSeq
<1>5. SetToSeq(S) \in [1 .. Cardinality(S) -> Jobs]
  BY <1>4
<1> QED
  BY <1>2, <1>5, SeqDef

LEMMA EnterKeeps ==
    ASSUME NEW p \in Records, NEW S, S \subseteq Jobs
    PROVE  /\ Enter(S, p) \in Records
           /\ Enter(S, p).recent = p.recent /\ Enter(S, p).pinned = p.pinned
           /\ Enter(S, p).table = p.table
<1>1. SetToSeq(S \ p.recent) \in Seq(Jobs)
  BY SetToSeqType
<1>2. p.log \o SetToSeq(S \ p.recent) \in Seq(Jobs)
  BY <1>1, RecordParts, ConcatProperties
<1> QED
  BY <1>2 DEF Records, Enter

\* With a database, giving up pins takes what is left from the table.
LEMMA ReleaseKeeps ==
    ASSUME proofs \in Records, setting.storage, NEW S, NEW idx
    PROVE  Release(S, idx) \in Records /\ Weaker(Release(S, idx), proofs)
<1> DEFINE free == Unawaited(S, idx)
           unpinned == MarkTable(free, "recent", proofs)
           pruned == PruneThrough(Latest(unpinned) - setting.keep, unpinned)
<1>1. unpinned \in Records /\ Weaker(unpinned, proofs)
  BY MarkTableKeeps
<1>2. pruned \in Records /\ Weaker(pruned, unpinned)
  BY <1>1, PruneThroughKeeps
<1>3. Hydrate(pruned) \in Records /\ Weaker(Hydrate(pruned), pruned)
  BY <1>2, HydrateKeeps
<1>4. Release(S, idx) = proofs \/ Release(S, idx) = Hydrate(pruned)
  BY DEF Release
<1> HIDE DEF free, unpinned, pruned
<1>5. Weaker(Hydrate(pruned), proofs)
  BY <1>1, <1>2, <1>3, WeakerTransitive
<1> QED
  BY <1>3, <1>4, <1>5 DEF Weaker

LEMMA ReconcileKeeps ==
    ASSUME proofs \in Records, NEW idx
    PROVE  Reconcile(idx) \in Records /\ Weaker(Reconcile(idx), proofs)
<1> DEFINE unpinned == MarkTable(Jobs, "recent", proofs)
           marked == MarkTable(Awaited(idx), "pinned", unpinned)
           pruned == PruneThrough(Latest(marked) - setting.keep, marked)
<1>1. unpinned \in Records /\ Weaker(unpinned, proofs)
  BY MarkTableKeeps
<1>2. marked \in Records /\ Weaker(marked, unpinned)
  BY <1>1, MarkTableKeeps
<1>3. pruned \in Records /\ Weaker(pruned, marked)
  BY <1>2, PruneThroughKeeps
<1>4. Hydrate(pruned) \in Records /\ Weaker(Hydrate(pruned), pruned)
  BY <1>3, HydrateKeeps
<1>5. Reconcile(idx) = Hydrate(pruned)
  BY DEF Reconcile
<1> HIDE DEF unpinned, marked, pruned
<1> QED
  BY <1>1, <1>2, <1>3, <1>4, <1>5, WeakerTransitive

LEMMA ProveKeeps ==
    ASSUME proofs \in Records, setting.storage, NEW j \in Jobs
    PROVE  /\ Prove(j) \in Records
           /\ \A d \in Jobs : Attests(Prove(j), d) => Attests(proofs, d) \/ d = j
<1> DEFINE pinned == j \in Awaited(index)
           entered == Enter({j}, proofs)
           logged == [entered EXCEPT !.table[j] = IF pinned THEN "pinned" ELSE "recent"]
           stored == PruneThrough(Len(logged.log) - setting.keep, logged)
<1>1. /\ entered \in Records
      /\ entered.recent = proofs.recent /\ entered.pinned = proofs.pinned
      /\ entered.table = proofs.table
  BY EnterKeeps
<1>2. Prove(j) = IF pinned THEN Pin({j}, stored) ELSE Retain({j}, stored)
  BY DEF Prove
<1> HIDE DEF entered, pinned
<1>3. /\ logged \in Records
      /\ \A d \in Jobs : Attests(logged, d) => Attests(proofs, d) \/ d = j
  BY <1>1 DEF Records, Attests
<1> HIDE DEF logged
<1>4. stored \in Records /\ Weaker(stored, logged)
  BY <1>3, PruneThroughKeeps
<1> HIDE DEF stored
<1>5. /\ Pin({j}, stored) \in Records
      /\ \A d \in Jobs : Attests(Pin({j}, stored), d) => Attests(stored, d) \/ d = j
  BY <1>4, PinKeeps DEF Attests
<1>6. /\ Retain({j}, stored) \in Records
      /\ \A d \in Jobs : Attests(Retain({j}, stored), d) => Attests(stored, d) \/ d = j
  BY <1>4, RetainKeeps
<1> QED
  BY <1>2, <1>3, <1>4, <1>5, <1>6 DEF Weaker

-----------------------------------------------------------------------------
(***************************************************************************)
(* The order of the proofs.  A record that a tier or the table has is in   *)
(* the order, at one place; a full tier has room for no more than it may.  *)
(***************************************************************************)

LEMMA LeastNatural ==
    ASSUME NEW T \in SUBSET Nat, T # {}
    PROVE  \E m \in T : \A n \in T : m <= n
<1> DEFINE R == OpToRel(<, Nat)
<1>1. IsWellFoundedOn(R, Nat)
  BY NatLessThanWellFounded, Zenon
<1>2. \A x, y \in Nat : y < x => <<y, x>> \in R
  BY DEF OpToRel
<1> HIDE DEF R
<1>3. PICK m \in T : \A n \in T : ~(<<n, m>> \in R)
  BY <1>1, WFMin
<1>4. \A n \in T : ~(n < m)
  BY <1>2, <1>3
<1> QED
  BY <1>4

\* A bounded set of naturals has the maximum that Max chooses.
LEMMA MaxOfBounded ==
    ASSUME NEW T \in SUBSET Nat, T # {}, NEW n \in Nat, \A m \in T : m <= n
    PROVE  Max(T) \in T /\ \A m \in T : Max(T) >= m
<1> DEFINE Below == {n - m : m \in T}
<1>1. Below \in SUBSET Nat /\ Below # {}
  <2>1. \A m \in T : n - m \in Nat
    OBVIOUS
  <2>2. PICK m \in T : TRUE
    OBVIOUS
  <2>3. n - m \in Below
    BY <2>2
  <2> QED
    BY <2>1, <2>3
<1>2. PICK b \in Below : \A c \in Below : b <= c
  BY <1>1, LeastNatural
<1>3. PICK m \in T : b = n - m
  BY <1>2
<1>4. \A k \in T : m >= k
  <2>1. ASSUME NEW k \in T PROVE m >= k
    <3>1. n - m <= n - k
      BY <1>2, <1>3
    <3> QED
      BY <3>1
  <2> QED
    BY <2>1
<1> QED
  BY <1>4 DEF Max

\* Whatever is a proof has its place in the order.
Logged(p) ==
    /\ p.recent \subseteq Range(p.log)
    /\ \A d \in Jobs : p.table[d] # "none" => d \in Range(p.log)

LEMMA SequenceIsPlace ==
    ASSUME NEW p \in Records, NEW d \in Range(p.log)
    PROVE  Sequence(d, p) \in 1 .. Len(p.log) /\ p.log[Sequence(d, p)] = d
<1> DEFINE T == {i \in DOMAIN p.log : p.log[i] = d}
<1>1. p.log \in Seq(Jobs) /\ DOMAIN p.log = 1 .. Len(p.log) /\ Len(p.log) \in Nat
  BY RecordParts
<1>2. T \in SUBSET Nat /\ T # {} /\ \A i \in T : i <= Len(p.log)
  BY <1>1 DEF Range
<1>3. Max(T) \in T
  BY <1>1, <1>2, MaxOfBounded
<1> QED
  BY <1>1, <1>3 DEF Sequence

\* However large the set, no more than n of its members have fewer than n above.
LEMMA YoungestBounded ==
    ASSUME NEW p \in Records, NEW S, S \subseteq Jobs \cap Range(p.log), NEW n \in Nat \ {0}
    PROVE  Cardinality(Youngest(n, S, p)) <= n
<1> DEFINE Y == Youngest(n, S, p)
           Above(d) == {e \in S : Sequence(e, p) > Sequence(d, p)}
<1>1. IsFiniteSet(S)
  BY FlowAssumption, FS_Subset
<1>2. \A d \in S : Sequence(d, p) \in Nat /\ p.log[Sequence(d, p)] = d
  BY SequenceIsPlace
<1>3. ASSUME Y # {} PROVE Cardinality(Y) <= n
  <2> DEFINE T == {Sequence(d, p) : d \in Y}
  <2>1. Y \subseteq S
    BY DEF Youngest
  <2>2. T \in SUBSET Nat /\ T # {}
    BY <1>2, <1>3, <2>1
  <2>3. PICK t \in T : \A u \in T : t <= u
    BY <2>2, LeastNatural
  <2>4. PICK m \in Y : t = Sequence(m, p)
    BY <2>3
  <2>5. Y \subseteq Above(m) \cup {m}
    <3>1. ASSUME NEW d \in Y, d # m PROVE Sequence(d, p) > Sequence(m, p)
      <4>1. Sequence(m, p) <= Sequence(d, p)
        BY <2>3, <2>4
      <4>2. Sequence(m, p) # Sequence(d, p)
        BY <1>2, <2>1, <3>1
      <4> QED
        BY <1>2, <2>1, <4>1, <4>2
    <3> QED
      BY <2>1, <3>1
  <2>6. Cardinality(Above(m)) < n
    BY <2>4 DEF Youngest
  <2>7. IsFiniteSet(Above(m)) /\ Cardinality(Above(m)) \in Nat
    BY <1>1, FS_Subset, FS_CardinalityType
  <2>8. m \notin Above(m)
    BY <1>2, <2>1
  <2> HIDE DEF Above, Y
  <2>9. /\ IsFiniteSet(Above(m) \cup {m})
        /\ Cardinality(Above(m) \cup {m}) = Cardinality(Above(m)) + 1
    BY <2>7, <2>8, FS_AddElement
  <2>10. Cardinality(Y) <= Cardinality(Above(m) \cup {m}) /\ IsFiniteSet(Y)
    BY <2>5, <2>9, FS_Subset
  <2>11. Cardinality(Y) \in Nat
    BY <2>10, FS_CardinalityType
  <2>12. Cardinality(Y) <= n
    BY <2>6, <2>7, <2>9, <2>10, <2>11
  <2> QED
    BY <2>12
<1> HIDE DEF Y
<1>4. Cardinality(Y) <= n
  BY <1>3, FS_EmptySet
<1> QED
  BY <1>4 DEF Y

-----------------------------------------------------------------------------
(***************************************************************************)
(* What the operations make of the tiers and the table: memory stays       *)
(* within its bound, and a pin stays that an edge needs.                   *)
(***************************************************************************)

\* Proofs as the steps leave them: the tier of recent ones within its bound.
Kept(p) == p \in Records /\ Logged(p) /\ Cardinality(p.recent) <= setting.keep

\* PinnedFor, of given proofs.
Held(d, p) == d \in p.pinned /\ (setting.storage => p.table[d] = "pinned")

LEMMA FewerBounded ==
    ASSUME setting \in Settings, NEW S, S \subseteq Jobs, Cardinality(S) <= setting.keep,
           NEW T, T \subseteq S
    PROVE  Cardinality(T) <= setting.keep
<1>1. IsFiniteSet(S) /\ Cardinality(S) \in Nat
  BY FlowAssumption, FS_Subset, FS_CardinalityType
<1>2. IsFiniteSet(T) /\ Cardinality(T) \in Nat /\ Cardinality(T) <= Cardinality(S)
  BY <1>1, FS_Subset, FS_CardinalityType
<1> QED
  BY <1>1, <1>2, SettingParts

LEMMA SetToSeqRange ==
    ASSUME NEW S, S \subseteq Jobs
    PROVE  S \subseteq Range(SetToSeq(S))
<1>1. IsFiniteSet(S)
  BY FlowAssumption, FS_Subset
<1> DEFINE n == Cardinality(S)
<1>2. n \in Nat /\ ExistsBijection(1 .. n, S)
  BY <1>1, FS_CardinalityType
<1>3. \E f \in [1 .. n -> S] : IsInjective(f)
  BY <1>2 DEF ExistsBijection, Bijection, Injection, IsInjective
<1>4. SetToSeq(S) \in [1 .. n -> S] /\ IsInjective(SetToSeq(S))
  BY <1>3 DEF SetToSeq
<1>5. SetToSeq(S) \in Injection(1 .. n, S)
  BY <1>4 DEF Injection, IsInjective
<1>6. IsFiniteSet(1 .. n) /\ Cardinality(1 .. n) = n
  BY <1>2, FS_Interval
<1>7. SetToSeq(S) \in Surjection(1 .. n, S)
  BY <1>1, <1>5, <1>6, FS_Injection
<1> QED
  BY <1>4, <1>7 DEF Surjection, Range

LEMMA ConcatRange ==
    ASSUME NEW s \in Seq(Jobs), NEW t \in Seq(Jobs)
    PROVE  Range(s \o t) = Range(s) \cup Range(t)
<1>1. /\ DOMAIN s = 1 .. Len(s) /\ DOMAIN t = 1 .. Len(t)
      /\ DOMAIN (s \o t) = 1 .. Len(s) + Len(t)
      /\ Len(s) \in Nat /\ Len(t) \in Nat
  BY ConcatProperties
<1>2. \A i \in 1 .. Len(s) + Len(t) :
         (s \o t)[i] = IF i <= Len(s) THEN s[i] ELSE t[i - Len(s)]
  BY ConcatProperties
<1>3. \A i \in 1 .. Len(s) : i \in DOMAIN (s \o t) /\ (s \o t)[i] = s[i]
  BY <1>1, <1>2
<1>4. \A i \in 1 .. Len(t) : Len(s) + i \in DOMAIN (s \o t) /\ (s \o t)[Len(s) + i] = t[i]
  BY <1>1, <1>2
<1>5. \A i \in DOMAIN (s \o t) : (s \o t)[i] \in Range(s) \cup Range(t)
  BY <1>1, <1>2 DEF Range
<1>6. Range(s) \subseteq Range(s \o t)
  BY <1>1, <1>3 DEF Range
<1>7. Range(t) \subseteq Range(s \o t)
  BY <1>1, <1>4 DEF Range
<1>8. Range(s \o t) \subseteq Range(s) \cup Range(t)
  BY <1>5 DEF Range
<1> QED
  BY <1>6, <1>7, <1>8

LEMMA EnterLogs ==
    ASSUME NEW p \in Records, Logged(p), NEW S, S \subseteq Jobs
    PROVE  /\ Enter(S, p) \in Records /\ Logged(Enter(S, p))
           /\ S \subseteq Range(Enter(S, p).log)
           /\ Enter(S, p).recent = p.recent /\ Enter(S, p).pinned = p.pinned
           /\ Enter(S, p).table = p.table
<1> DEFINE new == S \ p.recent
<1>1. SetToSeq(new) \in Seq(Jobs) /\ new \subseteq Range(SetToSeq(new))
  BY SetToSeqType, SetToSeqRange
<1>2. Range(p.log \o SetToSeq(new)) = Range(p.log) \cup Range(SetToSeq(new))
  BY <1>1, ConcatRange, RecordParts
<1>3. Enter(S, p).log = p.log \o SetToSeq(new)
  BY RecordParts DEF Enter
<1> HIDE DEF new
<1>4. /\ Enter(S, p) \in Records
      /\ Enter(S, p).recent = p.recent /\ Enter(S, p).pinned = p.pinned
      /\ Enter(S, p).table = p.table
  BY EnterKeeps
<1>5. S \subseteq p.recent \cup new
  BY DEF new
<1> QED
  BY <1>1, <1>2, <1>3, <1>4, <1>5 DEF Logged

LEMMA RetainBounds ==
    ASSUME setting \in Settings, NEW p \in Records, Logged(p),
           NEW S, S \subseteq Jobs \cap Range(p.log)
    PROVE  /\ Kept(Retain(S, p)) /\ Retain(S, p).pinned = p.pinned
           /\ \A d \in Jobs : Held(d, p) => Held(d, Retain(S, p))
<1> DEFINE all == p.recent \cup (S \ p.pinned)
           kept == Youngest(setting.keep, all, p)
<1>1. all \subseteq Jobs \cap Range(p.log)
  BY RecordParts DEF Logged
<1>2. Cardinality(kept) <= setting.keep
  BY <1>1, YoungestBounded, SettingParts
<1>3. kept \subseteq all
  BY DEF Youngest
<1>4. /\ Retain(S, p).recent = kept /\ Retain(S, p).log = p.log
      /\ Retain(S, p).pinned = p.pinned
      /\ \A d \in Jobs : Retain(S, p).table[d] = p.table[d]
                         \/ (p.table[d] # "pinned" /\ Retain(S, p).table[d] = "none")
  BY RecordParts DEF Retain
<1>5. Retain(S, p) \in Records
  BY RetainKeeps
<1> HIDE DEF kept, all
<1> QED
  BY <1>1, <1>2, <1>3, <1>4, <1>5 DEF Kept, Logged, Held

LEMMA PinHolds ==
    ASSUME setting \in Settings, NEW p, Kept(p), NEW S, S \subseteq Jobs
    PROVE  /\ Kept(Pin(S, p))
           /\ \A d \in Jobs : Held(d, p) => Held(d, Pin(S, p))
<1>1. /\ Pin(S, p) \in Records /\ Pin(S, p).recent = p.recent \ S
      /\ Pin(S, p).pinned = p.pinned \cup S /\ Pin(S, p).table = p.table
  BY PinKeeps DEF Kept
<1>2. Pin(S, p).log = p.log
  BY RecordParts DEF Pin, Kept
<1>3. Cardinality(p.recent \ S) <= setting.keep
  BY FewerBounded, RecordParts DEF Kept
<1> QED
  BY <1>1, <1>2, <1>3 DEF Kept, Logged, Held

LEMMA MarkTableHolds ==
    ASSUME NEW p \in Records, Logged(p), NEW S, NEW mark \in {"recent", "pinned"}
    PROVE  /\ MarkTable(S, mark, p) \in Records /\ Logged(MarkTable(S, mark, p))
           /\ MarkTable(S, mark, p).recent = p.recent
           /\ MarkTable(S, mark, p).pinned = p.pinned
           /\ MarkTable(S, mark, p).log = p.log
           /\ \A d \in Jobs : MarkTable(S, mark, p).table[d] =
                 IF d \in S /\ p.table[d] # "none" THEN mark ELSE p.table[d]
<1>1. MarkTable(S, mark, p) \in Records
  BY MarkTableKeeps
<1>2. /\ MarkTable(S, mark, p).recent = p.recent
      /\ MarkTable(S, mark, p).pinned = p.pinned
      /\ MarkTable(S, mark, p).log = p.log
      /\ \A d \in Jobs : MarkTable(S, mark, p).table[d] =
            IF d \in S /\ p.table[d] # "none" THEN mark ELSE p.table[d]
  BY RecordParts DEF MarkTable
<1> QED
  BY <1>1, <1>2 DEF Logged

LEMMA PruneThroughHolds ==
    ASSUME NEW p \in Records, Logged(p), NEW last
    PROVE  /\ PruneThrough(last, p) \in Records /\ Logged(PruneThrough(last, p))
           /\ PruneThrough(last, p).recent = p.recent
           /\ PruneThrough(last, p).pinned = p.pinned
           /\ PruneThrough(last, p).log = p.log
           /\ \A d \in Jobs : PruneThrough(last, p).table[d] =
                 IF p.table[d] = "recent" /\ Sequence(d, p) <= last THEN "none" ELSE p.table[d]
<1>1. PruneThrough(last, p) \in Records
  BY PruneThroughKeeps
<1>2. /\ PruneThrough(last, p).recent = p.recent
      /\ PruneThrough(last, p).pinned = p.pinned
      /\ PruneThrough(last, p).log = p.log
      /\ \A d \in Jobs : PruneThrough(last, p).table[d] =
            IF p.table[d] = "recent" /\ Sequence(d, p) <= last THEN "none" ELSE p.table[d]
  BY RecordParts DEF PruneThrough
<1> QED
  BY <1>1, <1>2 DEF Logged

\* The table's newest sequences are those that memory takes over: no more than
\* the window is wide.
LEMMA LatestIsLast ==
    ASSUME NEW p \in Records, Logged(p)
    PROVE  /\ Latest(p) \in Nat
           /\ \A d \in Jobs : p.table[d] # "none" => Sequence(d, p) <= Latest(p)
<1> DEFINE T == {Sequence(d, p) : d \in {e \in Jobs : p.table[e] # "none"}} \cup {0}
<1>1. Len(p.log) \in Nat
  BY RecordParts
<1>2. T \in SUBSET Nat /\ T # {} /\ \A i \in T : i <= Len(p.log)
  BY <1>1, SequenceIsPlace DEF Logged
<1>3. Max(T) \in T /\ \A i \in T : Max(T) >= i
  BY <1>1, <1>2, MaxOfBounded
<1>4. Latest(p) = Max(T)
  BY DEF Latest
<1>5. \A d \in Jobs : p.table[d] # "none" => Sequence(d, p) \in T
  OBVIOUS
<1> HIDE DEF T
<1> QED
  BY <1>2, <1>3, <1>4, <1>5

LEMMA HydrateBounds ==
    ASSUME setting \in Settings, NEW p \in Records, Logged(p)
    PROVE  LET q == Hydrate(PruneThrough(Latest(p) - setting.keep, p)) IN
           /\ Kept(q)
           /\ \A d \in Jobs : p.table[d] = "pinned" => d \in q.pinned /\ q.table[d] = "pinned"
<1> DEFINE last == Latest(p)
           r == PruneThrough(last - setting.keep, p)
           q == Hydrate(r)
<1>1. /\ r \in Records /\ Logged(r) /\ r.log = p.log
      /\ \A d \in Jobs : r.table[d] =
            IF p.table[d] = "recent" /\ Sequence(d, p) <= last - setting.keep
            THEN "none" ELSE p.table[d]
  BY PruneThroughHolds
<1>2. last \in Nat /\ \A d \in Jobs : p.table[d] # "none" => Sequence(d, p) <= last
  BY LatestIsLast
<1> HIDE DEF r, last
<1>3. /\ q \in Records
      /\ q.recent = {d \in Jobs : r.table[d] = "recent"}
      /\ q.pinned = {d \in Jobs : r.table[d] = "pinned"}
      /\ q.log = r.log /\ q.table = r.table
  BY <1>1, RecordParts, HydrateKeeps DEF Hydrate
<1> HIDE DEF q
<1>4. setting.keep \in Nat \ {0}
  BY SettingParts
<1> DEFINE window == (last - setting.keep) + 1 .. last
           f == [d \in q.recent |-> Sequence(d, p)]
<1>5. \A d \in q.recent : p.table[d] = "recent" /\ ~(Sequence(d, p) <= last - setting.keep)
  BY <1>1, <1>3
<1>6. \A d \in q.recent : /\ d \in Jobs /\ d \in Range(p.log)
                          /\ Sequence(d, p) \in Nat /\ p.log[Sequence(d, p)] = d
  BY <1>3, <1>5, SequenceIsPlace DEF Logged
<1>7. \A d \in q.recent : Sequence(d, p) \in window
  BY <1>2, <1>3, <1>4, <1>5, <1>6
<1>8. f \in Injection(q.recent, window)
  BY <1>6, <1>7 DEF Injection, IsInjective
<1>9. IsFiniteSet(window) /\ Cardinality(window) = setting.keep
  <2>1. (last - setting.keep) + 1 \in Int /\ last \in Int
    BY <1>2, <1>4
  <2>2. /\ IsFiniteSet(window)
        /\ Cardinality(window) = IF (last - setting.keep) + 1 > last THEN 0
                                 ELSE last - ((last - setting.keep) + 1) + 1
    BY <2>1, FS_Interval
  <2> HIDE DEF window
  <2> QED
    BY <1>2, <1>4, <2>2
<1>10. Cardinality(q.recent) <= setting.keep
  BY <1>8, <1>9, FS_Injection
<1>11. Logged(q)
  BY <1>1, <1>3, <1>5, <1>6 DEF Logged
<1>12. \A d \in Jobs : p.table[d] = "pinned" => d \in q.pinned /\ q.table[d] = "pinned"
  BY <1>1, <1>3
<1> QED
  BY <1>3, <1>10, <1>11, <1>12 DEF Kept, q, r, last

LEMMA ReleaseHolds ==
    ASSUME setting \in Settings, Kept(proofs), NEW S, S \subseteq Jobs, NEW idx
    PROVE  /\ Kept(Release(S, idx))
           /\ \A d \in Jobs \cap Awaited(idx) : Held(d, proofs) => Held(d, Release(S, idx))
<1> DEFINE free == Unawaited(S, idx)
           freed == [proofs EXCEPT !.pinned = @ \ free]
           unpinned == MarkTable(free, "recent", proofs)
<1>1. free \subseteq Jobs /\ free \cap Awaited(idx) = {}
  BY DEF Unawaited
<1>2. CASE free = {}
  BY <1>2 DEF Release
<1>3. CASE free # {} /\ setting.storage
  <2>1. Release(S, idx) = Hydrate(PruneThrough(Latest(unpinned) - setting.keep, unpinned))
    BY <1>3 DEF Release
  <2>2. /\ unpinned \in Records /\ Logged(unpinned)
        /\ \A d \in Jobs : unpinned.table[d] =
              IF d \in free /\ proofs.table[d] # "none" THEN "recent" ELSE proofs.table[d]
    BY MarkTableHolds DEF Kept
  <2> HIDE DEF unpinned, free
  <2>3. /\ Kept(Release(S, idx))
        /\ \A d \in Jobs : unpinned.table[d] = "pinned" =>
              d \in Release(S, idx).pinned /\ Release(S, idx).table[d] = "pinned"
    BY <2>1, <2>2, HydrateBounds
  <2> QED
    BY <1>1, <1>3, <2>2, <2>3 DEF Held
<1>4. CASE free # {} /\ ~setting.storage
  <2>1. Release(S, idx) = Retain(free, Enter(free, freed))
    BY <1>4 DEF Release
  <2>2. /\ freed \in Records /\ Logged(freed)
        /\ freed.pinned = proofs.pinned \ free
    BY DEF Kept, Logged, Records
  <2> HIDE DEF freed, free
  <2>3. /\ Enter(free, freed) \in Records /\ Logged(Enter(free, freed))
        /\ free \subseteq Jobs \cap Range(Enter(free, freed).log)
        /\ Enter(free, freed).pinned = freed.pinned
    BY <1>1, <2>2, EnterLogs
  <2>4. Kept(Release(S, idx)) /\ Release(S, idx).pinned = proofs.pinned \ free
    BY <2>1, <2>2, <2>3, RetainBounds
  <2> QED
    BY <1>1, <1>4, <2>4 DEF Held
<1> QED
  BY <1>2, <1>3, <1>4

LEMMA ReconcileHolds ==
    ASSUME setting \in Settings, setting.storage, Kept(proofs), NEW idx
    PROVE  /\ Kept(Reconcile(idx))
           /\ \A d \in Jobs \cap Awaited(idx) : Held(d, proofs) => Held(d, Reconcile(idx))
<1> DEFINE unpinned == MarkTable(Jobs, "recent", proofs)
           marked == MarkTable(Awaited(idx), "pinned", unpinned)
<1>1. Reconcile(idx) = Hydrate(PruneThrough(Latest(marked) - setting.keep, marked))
  BY DEF Reconcile
<1>2. /\ unpinned \in Records /\ Logged(unpinned)
      /\ \A d \in Jobs : unpinned.table[d] =
            IF proofs.table[d] # "none" THEN "recent" ELSE proofs.table[d]
  BY MarkTableHolds DEF Kept
<1> HIDE DEF unpinned
<1>3. /\ marked \in Records /\ Logged(marked)
      /\ \A d \in Jobs : marked.table[d] =
            IF d \in Awaited(idx) /\ unpinned.table[d] # "none" THEN "pinned"
            ELSE unpinned.table[d]
  BY <1>2, MarkTableHolds
<1> HIDE DEF marked
<1>4. /\ Kept(Reconcile(idx))
      /\ \A d \in Jobs : marked.table[d] = "pinned" =>
            d \in Reconcile(idx).pinned /\ Reconcile(idx).table[d] = "pinned"
  BY <1>1, <1>3, HydrateBounds
<1> QED
  BY <1>2, <1>3, <1>4 DEF Held

LEMMA ProveHolds ==
    ASSUME setting \in Settings, Kept(proofs), NEW j \in Jobs
    PROVE  /\ Kept(Prove(j))
           /\ \A d \in Jobs \cap Awaited(index) : Held(d, proofs) => Held(d, Prove(j))
<1> DEFINE pinned == j \in Awaited(index)
           entered == Enter({j}, proofs)
           logged == [entered EXCEPT !.table[j] = IF pinned THEN "pinned" ELSE "recent"]
           stored == IF setting.storage
                     THEN PruneThrough(Len(logged.log) - setting.keep, logged) ELSE entered
<1>1. /\ entered \in Records /\ Logged(entered) /\ j \in Range(entered.log)
      /\ entered.recent = proofs.recent /\ entered.pinned = proofs.pinned
      /\ entered.table = proofs.table
  BY EnterLogs DEF Kept
<1>2. Prove(j) = IF pinned THEN Pin({j}, stored) ELSE Retain({j}, stored)
  BY DEF Prove
<1> HIDE DEF entered
<1>3. /\ logged \in Records /\ logged.log = entered.log
      /\ logged.recent = proofs.recent /\ logged.pinned = proofs.pinned
      /\ logged.table = [proofs.table EXCEPT ![j] = IF pinned THEN "pinned" ELSE "recent"]
  BY <1>1 DEF Records
<1> HIDE DEF logged, pinned
<1>4. Logged(logged)
  BY <1>1, <1>3 DEF Logged, Kept, Records
<1>5. /\ stored \in Records /\ Logged(stored) /\ stored.log = entered.log
      /\ stored.recent = proofs.recent /\ stored.pinned = proofs.pinned
      /\ \A d \in Jobs : proofs.table[d] = "pinned" /\ (d = j => pinned) /\ setting.storage
            => stored.table[d] = "pinned"
  <2>1. CASE setting.storage
    <3>1. \A d \in Jobs : proofs.table[d] = "pinned" /\ (d = j => pinned)
                           => logged.table[d] = "pinned"
      BY <1>3 DEF Kept, Records
    <3> DEFINE last == Len(logged.log) - setting.keep
    <3>2. stored = PruneThrough(last, logged)
      BY <2>1
    <3> HIDE DEF stored, last
    <3>a. logged \in Records
      BY <1>3
    <3>3. /\ stored \in Records /\ Logged(stored) /\ stored.log = logged.log
          /\ stored.recent = logged.recent /\ stored.pinned = logged.pinned
      BY <1>4, <3>2, <3>a, PruneThroughHolds
    <3>4. \A d \in Jobs : stored.table[d] =
             IF logged.table[d] = "recent" /\ Sequence(d, logged) <= last
             THEN "none" ELSE logged.table[d]
      BY <1>4, <3>2, <3>a, PruneThroughHolds
    <3> QED
      BY <1>3, <3>1, <3>3, <3>4
  <2>2. CASE ~setting.storage
    BY <1>1, <2>2
  <2> QED
    BY <2>1, <2>2
<1>6. \A d \in Jobs \cap Awaited(index) : Held(d, proofs) => Held(d, stored)
  BY <1>5 DEF Held, pinned
<1>7. Kept(stored)
  BY <1>5 DEF Kept
<1> HIDE DEF stored
<1>8. /\ Kept(Pin({j}, stored))
      /\ \A d \in Jobs : Held(d, stored) => Held(d, Pin({j}, stored))
  BY <1>7, PinHolds
<1>9. /\ Kept(Retain({j}, stored))
      /\ \A d \in Jobs : Held(d, stored) => Held(d, Retain({j}, stored))
  BY <1>1, <1>5, RetainBounds
<1> QED
  BY <1>2, <1>6, <1>8, <1>9

-----------------------------------------------------------------------------
(***************************************************************************)
(* Every state is typed, in any configuration, and no step gives up a pin  *)
(* that an edge needs.                                                     *)
(***************************************************************************)

\* TypeOK, with what makes it inductive: each proof is in the order, replay is over
\* when the broker serves, and only a broker with a database restarts.
Typing ==
    /\ TypeOK /\ Kept(proofs)
    /\ up = "up" => replay = {}
    /\ up # "up" => setting.storage

\* What every step does for the pins that edges need.
PinsStay ==
    /\ setting' = setting
    /\ \A d \in Jobs \cap Awaited(index') : Held(d, proofs) => Held(d, proofs')

CheckerRecords == [busy : BOOLEAN, now : SUBSET Jobs, todo : SUBSET Jobs, freed : SUBSET Jobs]

LEMMA EdgesType ==
    ASSUME NEW j \in Jobs, NEW N, N \subseteq Jobs
    PROVE  Edges(j, N) \subseteq Jobs \X Jobs
BY DEF Edges

LEMMA NewestRange ==
    ASSUME NEW s \in Seq(Jobs), NEW n \in Nat
    PROVE  Newest(s, n) \in Seq(Jobs) /\ Range(Newest(s, n)) \subseteq Range(s)
<1> DEFINE m == IF Len(s) < n THEN Len(s) ELSE n
<1>1. m \in Nat /\ m <= Len(s)
  OBVIOUS
<1>2. Newest(s, n) = [i \in 1 .. m |-> s[Len(s) + 1 - i]]
  BY DEF Newest
<1> HIDE DEF m
<1>3. \A i \in 1 .. m : Len(s) + 1 - i \in DOMAIN s
  BY <1>1
<1>4. \A i \in 1 .. m : s[Len(s) + 1 - i] \in Jobs
  BY <1>3
<1>5. Newest(s, n) \in Seq(Jobs)
  BY <1>1, <1>2, <1>4, SeqDef
<1> QED
  BY <1>2, <1>3, <1>5 DEF Range

LEMMA PullTypes ==
    ASSUME Typing, NEW j \in Jobs, Pull(j)
    PROVE  Typing' /\ PinsStay
<1> USE DEF Typing, Pull, Put, SetRow, OnDisk, system, histories
<1>1. UNCHANGED <<setting, proofs>>
  OBVIOUS
<1>2. Kept(proofs)' /\ PinsStay
  BY <1>1 DEF Kept, Logged, PinsStay, Held
<1>3. TypeOK'
  BY <1>1 DEF TypeOK, Places
<1>4. (up = "up" => replay = {})' /\ (up # "up" => setting.storage)'
  OBVIOUS
<1> QED
  BY <1>2, <1>3, <1>4

LEMMA RetryTypes ==
    ASSUME Typing, NEW j \in Jobs, Retry(j)
    PROVE  Typing' /\ PinsStay
<1> USE DEF Typing, Retry, Put, SetRow, OnDisk, system, histories
<1>1. UNCHANGED <<setting, proofs>>
  OBVIOUS
<1>2. Kept(proofs)' /\ PinsStay
  BY <1>1 DEF Kept, Logged, PinsStay, Held
<1>3. TypeOK'
  BY <1>1 DEF TypeOK, Places
<1>4. (up = "up" => replay = {})' /\ (up # "up" => setting.storage)'
  OBVIOUS
<1> QED
  BY <1>2, <1>3, <1>4

LEMMA FailTypes ==
    ASSUME Typing, NEW j \in Jobs, NEW end \in {"dlq", "gone"}, Fail(j, end)
    PROVE  Typing' /\ PinsStay
<1> USE DEF Typing, Fail, ForgetFailuresOf, Told, Record, Put, SetRow, OnDisk, system, histories
<1>1. UNCHANGED <<setting, proofs>>
  OBVIOUS
<1>2. Kept(proofs)' /\ PinsStay
  BY <1>1 DEF Kept, Logged, PinsStay, Held
<1>3. TypeOK'
  BY <1>1 DEF TypeOK, Places
<1>4. (up = "up" => replay = {})' /\ (up # "up" => setting.storage)'
  OBVIOUS
<1> QED
  BY <1>2, <1>3, <1>4

LEMMA BuryTypes ==
    ASSUME Typing, NEW j \in Jobs, Bury(j)
    PROVE  Typing' /\ PinsStay
<1> USE DEF Typing, Bury, ForgetFailuresOf, Put, SetRow, OnDisk, system, histories
<1>1. UNCHANGED <<setting, proofs>>
  OBVIOUS
<1>2. Kept(proofs)' /\ PinsStay
  BY <1>1 DEF Kept, Logged, PinsStay, Held
<1>3. TypeOK'
  BY <1>1 DEF TypeOK, Places
<1>4. (up = "up" => replay = {})' /\ (up # "up" => setting.storage)'
  OBVIOUS
<1> QED
  BY <1>2, <1>3, <1>4

LEMMA RetryDlqTypes ==
    ASSUME Typing, NEW j \in Jobs, RetryDlq(j)
    PROVE  Typing' /\ PinsStay
<1> USE DEF Typing, RetryDlq, Put, SetRow, OnDisk, system, histories
<1>1. UNCHANGED <<setting, proofs>>
  OBVIOUS
<1>2. Kept(proofs)' /\ PinsStay
  BY <1>1 DEF Kept, Logged, PinsStay, Held
<1>3. TypeOK'
  BY <1>1 DEF TypeOK, Places
<1>4. (up = "up" => replay = {})' /\ (up # "up" => setting.storage)'
  OBVIOUS
<1> QED
  BY <1>2, <1>3, <1>4

LEMMA AddChildTypes ==
    ASSUME Typing, NEW c \in Jobs, NEW p \in Jobs, AddChild(c, p)
    PROVE  Typing' /\ PinsStay
<1> USE DEF Typing, AddChild, Put, SetRow, OnDisk, system, histories
<1>a. index' \subseteq Jobs \X Jobs
  BY DEF TypeOK, Edges
<1>1. UNCHANGED <<setting, proofs>>
  OBVIOUS
<1>2. Kept(proofs)' /\ PinsStay
  BY <1>1 DEF Kept, Logged, PinsStay, Held
<1>3. TypeOK'
  BY <1>1, <1>a DEF TypeOK, Places
<1>4. (up = "up" => replay = {})' /\ (up # "up" => setting.storage)'
  OBVIOUS
<1> QED
  BY <1>2, <1>3, <1>4

LEMMA LinkTypes ==
    ASSUME Typing, NEW c \in Jobs, NEW p \in Jobs, Link(c, p)
    PROVE  Typing' /\ PinsStay
<1> USE DEF Typing, Link, Put, SetRow, OnDisk, system, histories
<1>a. index' \subseteq Jobs \X Jobs
  BY DEF TypeOK, Edges
<1>b. handler' \subseteq Jobs \X Jobs \X {"section", "promote"} /\ reported' \subseteq Jobs
  BY DEF TypeOK
<1>c. /\ place' \in [Jobs -> Places] /\ needs' \in [Jobs -> SUBSET Jobs]
      /\ row' \in [Jobs -> {"none", "ready", "waiting-children", "active", "completed", "dlq"}]
      /\ parent' \in [Jobs -> Jobs \cup {None}]
  BY DEF TypeOK, Places
<1>1. UNCHANGED <<setting, proofs>>
  OBVIOUS
<1>2. Kept(proofs)' /\ PinsStay
  BY <1>1 DEF Kept, Logged, PinsStay, Held
<1>3. TypeOK'
  BY <1>1, <1>a, <1>b, <1>c DEF TypeOK, Places
<1>4. (up = "up" => replay = {})' /\ (up # "up" => setting.storage)'
  OBVIOUS
<1> QED
  BY <1>2, <1>3, <1>4

LEMMA SnapshotTypes ==
    ASSUME Typing, NEW k \in Checkers, Snapshot(k)
    PROVE  Typing' /\ PinsStay
<1> USE DEF Typing, Snapshot, Put, SetRow, OnDisk, system, histories
<1>a. checker' \in [Checkers -> CheckerRecords] /\ pending' = {}
  <2> DEFINE todo == {e[2] : e \in {f \in index : f[1] \in pending}}
             now == IF todo = {} THEN {} ELSE pending
             rec == [Idle EXCEPT !.busy = todo # {}, !.todo = todo, !.now = now]
  <2>1. todo \subseteq Jobs /\ now \subseteq Jobs /\ checker \in [Checkers -> CheckerRecords]
    BY DEF TypeOK, CheckerRecords
  <2>2. checker' = [checker EXCEPT ![k] = rec] /\ pending' = {}
    OBVIOUS
  <2> HIDE DEF todo, now
  <2>3. rec \in CheckerRecords
    BY <2>1 DEF Idle, CheckerRecords
  <2> HIDE DEF rec, Snapshot, Typing
  <2> QED
    BY <2>1, <2>2, <2>3
<1>b. up = "up" /\ UNCHANGED <<system, place, needs, parent, index, completed, handler, proofs,
                            row, finished, outbox, replay, histories>>
  BY DEF disk
<1> HIDE DEF Snapshot
<1>1. UNCHANGED <<setting, proofs>>
  BY <1>b
<1>2. Kept(proofs)' /\ PinsStay
  BY <1>1 DEF Kept, Logged, PinsStay, Held
<1>3. TypeOK'
  BY <1>a, <1>b DEF TypeOK, Places, CheckerRecords
<1>4. (up = "up" => replay = {})' /\ (up # "up" => setting.storage)'
  BY <1>b
<1> QED
  BY <1>2, <1>3, <1>4

LEMMA CheckTypes ==
    ASSUME Typing, NEW k \in Checkers, NEW j \in Jobs, Check(k, j)
    PROVE  Typing' /\ PinsStay
<1> USE DEF Typing, Check, Put, SetRow, OnDisk, system, histories
<1>a. checker' \in [Checkers -> CheckerRecords]
  <2>1. needs[j] \subseteq Jobs /\ checker \in [Checkers -> CheckerRecords]
    BY DEF TypeOK, CheckerRecords
  <2> DEFINE seen == [checker EXCEPT ![k].todo = @ \ {j}]
             moved == [seen EXCEPT ![k].freed = checker[k].freed \cup needs[j]]
  <2>2. checker' = seen \/ checker' = moved
    OBVIOUS
  <2> HIDE DEF Check, Typing
  <2>3. seen \in [Checkers -> CheckerRecords]
    BY <2>1 DEF CheckerRecords
  <2> HIDE DEF seen
  <2>4. moved \in [Checkers -> CheckerRecords]
    BY <2>1, <2>3 DEF CheckerRecords
  <2> HIDE DEF moved
  <2> QED
    BY <2>2, <2>3, <2>4
<1>b. /\ up = "up"
      /\ \/ /\ place' = [place EXCEPT ![j] = "queued"]
            /\ row' = [row EXCEPT ![j] = OnDisk("ready")]
            /\ index' = Unregistered(j)
         \/ UNCHANGED <<place, row, index>>
      /\ UNCHANGED <<system, needs, parent, completed, pending, handler, proofs, finished,
                     outbox, replay, histories>>
  OBVIOUS
<1> HIDE DEF Check
<1>1. UNCHANGED <<setting, proofs>>
  BY <1>b
<1>2. Kept(proofs)' /\ PinsStay
  BY <1>1 DEF Kept, Logged, PinsStay, Held
<1>3. TypeOK'
  BY <1>a, <1>b DEF TypeOK, Places, CheckerRecords, Unregistered
<1>4. (up = "up" => replay = {})' /\ (up # "up" => setting.storage)'
  BY <1>b
<1> QED
  BY <1>2, <1>3, <1>4

LEMMA ParentLeftTypes ==
    ASSUME Typing, NEW p \in Jobs, NEW c \in Jobs, ParentLeft(p, c)
    PROVE  Typing' /\ PinsStay
<1> USE DEF Typing, ParentLeft, AtSection, EndSection, Settled, Put, SetRow, OnDisk, system, histories
<1>1. UNCHANGED <<setting, proofs>>
  OBVIOUS
<1>2. Kept(proofs)' /\ PinsStay
  BY <1>1 DEF Kept, Logged, PinsStay, Held
<1>3. TypeOK'
  BY <1>1 DEF TypeOK, Places
<1>4. (up = "up" => replay = {})' /\ (up # "up" => setting.storage)'
  OBVIOUS
<1> QED
  BY <1>2, <1>3, <1>4

LEMMA CrashTypes ==
    ASSUME Typing, Crash
    PROVE  Typing' /\ PinsStay
<1> USE DEF Typing, Crash, May, memory, disk, Put, SetRow, OnDisk, system, histories
<1>1. UNCHANGED <<setting, proofs>>
  OBVIOUS
<1>2. Kept(proofs)' /\ PinsStay
  BY <1>1 DEF Kept, Logged, PinsStay, Held
<1>3. TypeOK'
  BY <1>1, FlowAssumption DEF TypeOK, Places
<1>4. (up = "up" => replay = {})' /\ (up # "up" => setting.storage)'
  OBVIOUS
<1> QED
  BY <1>2, <1>3, <1>4

LEMMA ReplayTypes ==
    ASSUME Typing, NEW r \in outbox, Replay(r)
    PROVE  Typing' /\ PinsStay
<1> USE DEF Typing, Replay, Replayed, Put, SetRow, OnDisk, system, histories
<1>1. UNCHANGED <<setting, up, stops, proofs, parent, completed, pending, checker, handler,
                  finished, done, forced, reported>>
  OBVIOUS
<1>2. Kept(proofs)' /\ PinsStay
  BY <1>1 DEF Kept, Logged, PinsStay, Held
<1>3. r \in Jobs \X Jobs /\ r[1] \in Jobs /\ r[2] \in Jobs /\ r[1] # None
  BY FlowAssumption DEF TypeOK
<1>4. /\ place' \in [Jobs -> Places] /\ needs' \in [Jobs -> SUBSET Jobs]
      /\ row' \in [Jobs -> {"none", "ready", "waiting-children", "active", "completed", "dlq"}]
      /\ index' \subseteq index
      /\ outbox' \subseteq outbox /\ outbox \ {r} \subseteq outbox'
  <2>1. CASE ReplayFail(r)
    BY <1>3, <2>1 DEF ReplayFail, Unregistered, TypeOK, Places
  <2>2. CASE ReplayContinue(r)
    BY <1>3, <2>2 DEF ReplayContinue, Unregistered, TypeOK, Places
  <2>3. CASE ReplayRemove(r)
    BY <1>3, <2>3 DEF ReplayRemove, Unregistered, Settled, ReadyState, TypeOK, Places
  <2>4. CASE ReplayOrphan(r)
    BY <1>3, <2>4 DEF ReplayOrphan, TypeOK, Places
  <2> QED
    BY <2>1, <2>2, <2>3, <2>4
<1>5. replay' = replay \ {r} /\ up = "replaying"
  OBVIOUS
<1> HIDE DEF Replay
<1>6. TypeOK'
  BY <1>1, <1>4, <1>5 DEF TypeOK
<1> QED
  BY <1>1, <1>2, <1>5, <1>6

\* The typed state of a step that changes the proofs.
LEMMA KeptTypes ==
    ASSUME NEW p, Kept(p)
    PROVE  /\ p.recent \subseteq Jobs /\ Cardinality(p.recent) <= setting.keep
           /\ p.pinned \subseteq Jobs /\ p.log \in Seq(Jobs)
           /\ p.table \in [Jobs -> {"none", "recent", "pinned"}]
BY RecordParts DEF Kept

LEMMA DiscardTypes ==
    ASSUME Typing, NEW j \in Jobs, Discard(j), up = "up"
    PROVE  Typing' /\ PinsStay
<1> USE DEF Typing, Discard, Put, SetRow, OnDisk, system, histories
<1>1. needs[j] \subseteq Jobs /\ setting' = setting /\ setting \in Settings
  BY DEF TypeOK
<1>2. Kept(proofs') /\ PinsStay
  BY <1>1, ReleaseHolds DEF PinsStay
<1>3. Kept(proofs)'
  BY <1>1, <1>2 DEF Kept, Logged
<1>4. /\ place' \in [Jobs -> Places]
      /\ row' \in [Jobs -> {"none", "ready", "waiting-children", "active", "completed", "dlq"}]
      /\ index' \subseteq index /\ outbox' \subseteq outbox /\ replay = {}
      /\ UNCHANGED <<system, needs, parent, completed, pending, checker, handler,
                     finished, replay, histories>>
  BY DEF TypeOK, Places, Unregistered, ForgetFailuresOf
<1> HIDE DEF Discard
<1>5. TypeOK'
  BY <1>2, <1>4, KeptTypes DEF TypeOK
<1> QED
  BY <1>2, <1>3, <1>4, <1>5

LEMMA FinishCheckTypes ==
    ASSUME Typing, NEW k \in Checkers, FinishCheck(k)
    PROVE  Typing' /\ PinsStay
<1> USE DEF Typing, FinishCheck, system, disk, histories
<1>1. checker[k].freed \subseteq Jobs /\ setting' = setting /\ setting \in Settings /\ index' = index
  BY DEF TypeOK
<1>2. Kept(proofs') /\ PinsStay
  BY <1>1, ReleaseHolds DEF PinsStay
<1>3. Kept(proofs)'
  BY <1>1, <1>2 DEF Kept, Logged
<1>4. /\ checker' \in [Checkers -> CheckerRecords]
      /\ UNCHANGED <<system, place, needs, parent, index, completed, pending, handler, disk,
                     histories>>
  BY DEF TypeOK, CheckerRecords, Idle
<1> HIDE DEF FinishCheck
<1>5. TypeOK'
  BY <1>2, <1>4, KeptTypes DEF TypeOK, CheckerRecords
<1> QED
  BY <1>2, <1>3, <1>4, <1>5

\* The handlers and the removal of a child give up the pins of one job's edges.
LEMMA DetachTypes ==
    ASSUME Typing, NEW c \in Jobs, Detach(c)
    PROVE  Typing' /\ PinsStay
<1> USE DEF Typing, system, histories
<1> DEFINE p == parent[c]
           left == {d \in needs[p] \ {c} : ~Available(d)}
           freed == needs[p] \ left
<1>1. /\ up = "up" /\ p \in Jobs /\ left \subseteq Jobs /\ freed \subseteq Jobs
      /\ setting \in Settings
  BY FlowAssumption DEF TypeOK, Detach
<1>2. /\ parent' = [parent EXCEPT ![c] = None] /\ needs' = [needs EXCEPT ![p] = left]
      /\ index' = index \ Edges(p, freed)
      /\ \/ place' = [place EXCEPT ![p] = "queued"] \/ place' = place
      /\ row' = [row EXCEPT ![p] = OnDisk(ReadyState(left))]
      /\ proofs' = Release(freed, index')
      /\ outbox' \subseteq outbox
      /\ UNCHANGED <<system, completed, pending, checker, handler, finished, replay, histories>>
  BY DEF Detach, Put, SetRow
<1> HIDE DEF p, left, freed
<1>3. Kept(proofs') /\ PinsStay
  BY <1>1, <1>2, ReleaseHolds DEF PinsStay
<1>4. Kept(proofs)'
  BY <1>2, <1>3 DEF Kept, Logged
<1>5. TypeOK'
  BY <1>1, <1>2, <1>3, KeptTypes DEF TypeOK, Places, OnDisk, ReadyState
<1> QED
  BY <1>1, <1>2, <1>3, <1>4, <1>5

LEMMA FailParentTypes ==
    ASSUME Typing, NEW p \in Jobs, NEW c \in Jobs, FailParent(p, c)
    PROVE  Typing' /\ PinsStay
<1> USE DEF Typing, FailParent, AtSection, EndSection, Put, SetRow, OnDisk, system, histories
<1>1. needs[p] \subseteq Jobs /\ setting' = setting /\ setting \in Settings /\ up = "up"
  BY DEF TypeOK
<1>2. Kept(proofs') /\ PinsStay
  BY <1>1, ReleaseHolds DEF PinsStay
<1>3. Kept(proofs)'
  BY <1>1, <1>2 DEF Kept, Logged
<1>4. /\ place' \in [Jobs -> Places]
      /\ row' \in [Jobs -> {"none", "ready", "waiting-children", "active", "completed", "dlq"}]
      /\ index' \subseteq index /\ outbox' \subseteq outbox /\ handler' \subseteq handler
      /\ UNCHANGED <<system, needs, parent, completed, pending, checker, finished, replay,
                     histories>>
  BY DEF TypeOK, Places, Unregistered, ForgetFailuresOf
<1> HIDE DEF FailParent
<1>5. TypeOK'
  BY <1>1, <1>2, <1>4, KeptTypes DEF TypeOK
<1> QED
  BY <1>1, <1>2, <1>3, <1>4, <1>5

LEMMA FreeParentTypes ==
    ASSUME Typing, NEW p \in Jobs, NEW c \in Jobs, FreeParent(p, c)
    PROVE  Typing' /\ PinsStay
<1> USE DEF Typing, FreeParent, AtSection, PromoteNext, SetRow, OnDisk, system, histories
<1>1. needs[p] \subseteq Jobs /\ setting' = setting /\ setting \in Settings /\ up = "up"
  BY DEF TypeOK
<1>2. Kept(proofs') /\ PinsStay
  BY <1>1, ReleaseHolds DEF PinsStay
<1>3. Kept(proofs)'
  BY <1>1, <1>2 DEF Kept, Logged
<1>4. /\ needs' \in [Jobs -> SUBSET Jobs]
      /\ row' \in [Jobs -> {"none", "ready", "waiting-children", "active", "completed", "dlq"}]
      /\ index' \subseteq index /\ handler' \subseteq Jobs \X Jobs \X {"section", "promote"}
      /\ UNCHANGED <<system, place, parent, completed, pending, checker, finished, outbox,
                     replay, histories>>
  BY DEF TypeOK, Unregistered
<1> HIDE DEF FreeParent
<1>5. TypeOK'
  BY <1>1, <1>2, <1>4, KeptTypes DEF TypeOK
<1> QED
  BY <1>1, <1>2, <1>3, <1>4, <1>5

LEMMA RemoveFromParentTypes ==
    ASSUME Typing, NEW p \in Jobs, NEW c \in Jobs, RemoveFromParent(p, c)
    PROVE  Typing' /\ PinsStay
<1> USE DEF Typing, RemoveFromParent, AtSection, PromoteNext, EndSection, SetRow, OnDisk,
            ReadyState, Settled, system, histories
<1>1. {c} \subseteq Jobs /\ setting' = setting /\ setting \in Settings /\ up = "up"
  BY DEF TypeOK
<1>2. Kept(proofs') /\ PinsStay
  <2>1. proofs' = proofs \/ proofs' = Release({c}, index')
    OBVIOUS
  <2> HIDE DEF RemoveFromParent
  <2> QED
    BY <1>1, <2>1, ReleaseHolds DEF PinsStay
<1>3. Kept(proofs)'
  BY <1>1, <1>2 DEF Kept, Logged
<1>4. /\ needs' = [needs EXCEPT ![p] = needs[p] \ {c}] \/ needs' = needs
      /\ \/ row' = [row EXCEPT ![p] = OnDisk(ReadyState(needs[p] \ {c}))] \/ row' = row
      /\ index' \subseteq index /\ outbox' \subseteq outbox
      /\ \/ handler' = (handler \ {<<p, c, "section">>}) \cup {<<p, c, "promote">>}
         \/ handler' = handler \ {<<p, c, "section">>}
      /\ UNCHANGED <<system, place, parent, completed, pending, checker, finished, replay,
                     histories>>
  BY DEF TypeOK
<1>a. /\ needs' \in [Jobs -> SUBSET Jobs]
      /\ row' \in [Jobs -> {"none", "ready", "waiting-children", "active", "completed", "dlq"}]
      /\ handler' \subseteq Jobs \X Jobs \X {"section", "promote"} /\ replay = {}
  <2> HIDE DEF RemoveFromParent
  <2>1. needs' \in [Jobs -> SUBSET Jobs]
    BY <1>4 DEF TypeOK
  <2>2. row' \in [Jobs -> {"none", "ready", "waiting-children", "active", "completed", "dlq"}]
    BY <1>4 DEF TypeOK
  <2>3. handler' \subseteq Jobs \X Jobs \X {"section", "promote"}
    <3>1. /\ <<p, c, "promote">> \in Jobs \X Jobs \X {"section", "promote"}
          /\ handler \subseteq Jobs \X Jobs \X {"section", "promote"}
      BY DEF TypeOK
    <3> QED
      BY <1>4, <3>1, Zenon
  <2> QED
    BY <1>1, <2>1, <2>2, <2>3
<1> HIDE DEF RemoveFromParent
<1>5. TypeOK'
  BY <1>1, <1>2, <1>4, <1>a, KeptTypes DEF TypeOK
<1> QED
  BY <1>1, <1>2, <1>3, <1>4, <1>5, <1>a

LEMMA PromoteTypes ==
    ASSUME Typing, NEW p \in Jobs, NEW c \in Jobs, Promote(p, c)
    PROVE  Typing' /\ PinsStay
<1> USE DEF Typing, Promote, Put, SetRow, OnDisk, ReadyState, Settled, system, histories
<1>1. needs[p] \subseteq Jobs /\ setting' = setting /\ setting \in Settings /\ up = "up"
  BY DEF TypeOK
<1>2. Kept(proofs') /\ PinsStay
  <2>1. \/ proofs' = proofs
        \/ proofs' = Release(needs[p], index')
    OBVIOUS
  <2> HIDE DEF Promote
  <2> QED
    BY <1>1, <2>1, ReleaseHolds DEF PinsStay
<1>3. Kept(proofs)'
  BY <1>1, <1>2 DEF Kept, Logged
<1>4. /\ place' \in [Jobs -> Places]
      /\ row' \in [Jobs -> {"none", "ready", "waiting-children", "active", "completed", "dlq"}]
      /\ index' \subseteq index /\ handler' \subseteq handler
      /\ outbox' \subseteq outbox /\ replay = {}
      /\ UNCHANGED <<system, needs, parent, completed, pending, checker, finished, replay,
                     histories>>
  BY DEF TypeOK, Places, Unregistered
<1> HIDE DEF Promote
<1>5. TypeOK'
  BY <1>1, <1>2, <1>4, KeptTypes DEF TypeOK
<1> QED
  BY <1>1, <1>2, <1>3, <1>4, <1>5

LEMMA PushTypes ==
    ASSUME Typing, NEW S \in setting.batches, Push(S)
    PROVE  Typing' /\ PinsStay
<1> USE DEF Typing, Push, OnDisk, system, histories
<1> DEFINE parked == {j \in S : \E d \in needs[j] : ~Available(d)}
           held == {d \in Proven : \E j \in parked : d \in needs[j]}
           single == MarkTable(held, "pinned", Pin(held, proofs))
<1>1. /\ setting \in Settings /\ setting' = setting /\ up = "up" /\ up' = "up"
      /\ S \subseteq Jobs /\ parked \subseteq S
  BY SettingParts DEF TypeOK
<1>2. held \subseteq Jobs
  BY DEF Proven, TypeOK
<1>3. proofs' = single \/ proofs' = Pin(held, proofs)
  OBVIOUS
<1>4. index' = index \cup UNION {Edges(j, needs[j]) : j \in parked}
  OBVIOUS
<1>5. index' \subseteq Jobs \X Jobs
  BY <1>1, <1>4 DEF Edges, TypeOK
<1>6. /\ place' \in [Jobs -> Places]
      /\ row' \in [Jobs -> {"none", "ready", "waiting-children", "active", "completed", "dlq"}]
      /\ UNCHANGED <<system, needs, parent, completed, pending, checker, handler,
                     finished, outbox, replay, histories>>
  BY DEF TypeOK, Places
<1> HIDE DEF held, Push
<1>7. /\ Kept(Pin(held, proofs))
      /\ \A d \in Jobs : Held(d, proofs) => Held(d, Pin(held, proofs))
  BY <1>1, <1>2, PinHolds
<1>8. Kept(single) /\ \A d \in Jobs : Held(d, Pin(held, proofs)) => Held(d, single)
  <2>1. /\ single \in Records /\ Logged(single)
        /\ single.recent = Pin(held, proofs).recent /\ single.pinned = Pin(held, proofs).pinned
        /\ \A d \in Jobs : single.table[d] =
              IF d \in held /\ Pin(held, proofs).table[d] # "none" THEN "pinned"
              ELSE Pin(held, proofs).table[d]
    BY <1>7, MarkTableHolds DEF Kept
  <2> QED
    BY <1>7, <2>1 DEF Kept, Held
<1> HIDE DEF single
<1>9. Kept(proofs') /\ PinsStay
  BY <1>1, <1>3, <1>7, <1>8 DEF PinsStay
<1>10. Kept(proofs)'
  BY <1>1, <1>9 DEF Kept, Logged
<1>11. TypeOK'
  BY <1>1, <1>5, <1>6, <1>9, KeptTypes DEF TypeOK
<1> QED
  BY <1>1, <1>6, <1>9, <1>10, <1>11

LEMMA CompleteTypes ==
    ASSUME Typing, NEW j \in Jobs, Complete(j)
    PROVE  Typing' /\ PinsStay
<1> USE DEF Typing, Complete, OnDisk, system, histories
<1>1. /\ setting \in Settings /\ setting' = setting /\ up = "up" /\ up' = "up"
      /\ index' = index
  BY DEF TypeOK
<1>2. Kept(proofs') /\ PinsStay
  <2>1. proofs' = proofs \/ proofs' = Prove(j)
    BY DEF Keep
  <2> HIDE DEF Complete
  <2> QED
    BY <1>1, <2>1, ProveHolds DEF PinsStay
<1>3. Kept(proofs)'
  BY <1>1, <1>2 DEF Kept, Logged
<1>4. /\ completed' \in Seq(Jobs) /\ Len(completed') <= setting.keep
      /\ finished' \in Seq(Jobs)
      /\ place' \in [Jobs -> Places]
      /\ row' \in [Jobs -> {"none", "ready", "waiting-children", "active", "completed", "dlq"}]
  <2>1. CASE j \in setting.removed
    BY <2>1 DEF Put, SetRow, TypeOK, Places
  <2>2. CASE j \notin setting.removed
    <3> DEFINE full == Len(completed) = setting.keep
               kept == IF full THEN Tail(completed) ELSE completed
    <3>1. /\ completed' = Append(kept, j)
          /\ finished' = IF setting.storage THEN Append(finished, j) ELSE finished
      BY <2>2 DEF Keep
    <3>2. setting.keep \in Nat \ {0}
      BY <1>1, SettingParts
    <3>3. kept \in Seq(Jobs) /\ Len(kept) < setting.keep
      <4>1. completed \in Seq(Jobs) /\ Len(completed) <= setting.keep /\ Len(completed) \in Nat
        BY DEF TypeOK
      <4>2. CASE full
        <5>1. completed # <<>>
          BY <3>2, <4>1, <4>2
        <5>2. Tail(completed) \in Seq(Jobs) /\ Len(Tail(completed)) = Len(completed) - 1
          BY <4>1, <5>1
        <5> QED
          BY <3>2, <4>1, <4>2, <5>2
      <4>3. CASE ~full
        BY <3>2, <4>1, <4>3
      <4> QED
        BY <4>2, <4>3
    <3>4. /\ place' \in [Jobs -> Places]
          /\ row' \in [Jobs -> {"none", "ready", "waiting-children", "active", "completed", "dlq"}]
      <4>1. /\ place' = [i \in Jobs |->
                  IF i = j THEN "completed"
                  ELSE IF full /\ i = Head(completed) THEN "gone" ELSE place[i]]
            /\ row' = [row EXCEPT ![j] = OnDisk("completed")]
        BY <2>2 DEF Keep, SetRow
      <4> HIDE DEF full, Complete
      <4> QED
        BY <4>1 DEF TypeOK, Places
    <3>5. finished \in Seq(Jobs)
      BY DEF TypeOK
    <3> HIDE DEF kept, Complete
    <3>6. Append(kept, j) \in Seq(Jobs) /\ Len(Append(kept, j)) = Len(kept) + 1
          /\ Append(finished, j) \in Seq(Jobs) /\ Len(kept) \in Nat
      BY <3>3, <3>5
    <3> QED
      BY <3>1, <3>2, <3>3, <3>4, <3>5, <3>6
  <2> QED
    BY <2>1, <2>2
<1>5. /\ outbox' \subseteq outbox /\ done' \subseteq Jobs /\ pending' \subseteq Jobs /\ replay = {}
      /\ UNCHANGED <<system, needs, parent, index, checker, handler, replay, forced, reported>>
  BY DEF ForgetFailuresOf, TypeOK
<1> HIDE DEF Complete
<1>6. TypeOK'
  BY <1>1, <1>2, <1>4, <1>5, KeptTypes DEF TypeOK
<1> QED
  BY <1>1, <1>2, <1>3, <1>5, <1>6

LEMMA ServeTypes ==
    ASSUME Typing, Serve
    PROVE  Typing' /\ PinsStay
<1> USE DEF Typing, Serve, memory, disk, histories
<1>1. setting \in Settings /\ setting' = setting /\ setting.storage /\ index' = index
  BY DEF TypeOK
<1>2. Kept(proofs') /\ PinsStay
  BY <1>1, ReconcileHolds DEF PinsStay
<1>3. Kept(proofs)'
  BY <1>1, <1>2 DEF Kept, Logged
<1>4. TypeOK'
  BY <1>1, <1>2, KeptTypes DEF TypeOK
<1> QED
  BY <1>1, <1>2, <1>3, <1>4

LEMMA NewestBounded ==
    ASSUME NEW s \in Seq(Jobs), NEW n \in Nat
    PROVE  Newest(s, n) \in Seq(Jobs) /\ Len(Newest(s, n)) <= n
<1> DEFINE m == IF Len(s) < n THEN Len(s) ELSE n
<1>1. m \in Nat /\ m <= n /\ DOMAIN Newest(s, n) = 1 .. m
  BY DEF Newest
<1>2. Newest(s, n) \in Seq(Jobs)
  BY NewestRange
<1>3. Len(Newest(s, n)) = m
  <2>1. /\ DOMAIN Newest(s, n) = 1 .. Len(Newest(s, n)) /\ Len(Newest(s, n)) \in Nat
    BY <1>2
  <2> QED
    BY <1>1, <2>1
<1> QED
  BY <1>1, <1>2, <1>3

LEMMA RecoverTypes ==
    ASSUME Typing, NEW S \in SUBSET Jobs, Recover(S)
    PROVE  Typing' /\ PinsStay
<1> USE DEF Typing, Recover, system, histories
<1> DEFINE parked == {j \in Jobs : row[j] = "waiting-children" /\ \E d \in needs[j] : ~ProvenOnDisk(d)}
           runnable == {j \in Jobs \ (parked \cup S) :
                           row[j] \in {"ready", "waiting-children", "active"}}
           cache == Newest(finished, setting.keep)
<1>1. /\ setting \in Settings /\ setting.storage /\ up' = "replaying" /\ parked \subseteq Jobs
  BY DEF TypeOK
<1>2. /\ place' = [j \in Jobs |-> IF j \in parked THEN "waiting"
                                  ELSE IF j \in runnable THEN "queued"
                                  ELSE IF j \in S \/ row[j] = "dlq" THEN "dlq"
                                  ELSE IF j \in Range(cache) THEN "completed"
                                  ELSE IF place[j] = "new" THEN "new" ELSE "gone"]
      /\ row' = [j \in Jobs |-> IF j \in runnable THEN "ready"
                                ELSE IF j \in S THEN "dlq" ELSE row[j]]
      /\ index' = UNION {Edges(j, needs[j]) : j \in parked}
      /\ completed' = cache /\ proofs' = Reconcile(index')
      /\ outbox' \subseteq outbox /\ replay' = outbox'
      /\ pending' = {} /\ checker' = [k \in Checkers |-> Idle] /\ handler' = {}
      /\ UNCHANGED <<setting, stops, needs, parent, finished, histories>>
  OBVIOUS
<1>3. cache \in Seq(Jobs) /\ Len(cache) <= setting.keep
  BY <1>1, SettingParts, NewestBounded DEF TypeOK
<1>4. index' \subseteq Jobs \X Jobs
  <2>1. \A j \in parked : Edges(j, needs[j]) \subseteq Jobs \X Jobs
    BY <1>1, EdgesType DEF TypeOK
  <2> QED
    BY <1>2, <2>1
<1> HIDE DEF parked, runnable, cache, Recover
<1>5. Kept(proofs') /\ PinsStay
  BY <1>1, <1>2, ReconcileHolds DEF PinsStay
<1>6. Kept(proofs)'
  BY <1>2, <1>5 DEF Kept, Logged
<1>7. /\ place' \in [Jobs -> Places]
      /\ row' \in [Jobs -> {"none", "ready", "waiting-children", "active", "completed", "dlq"}]
      /\ checker' \in [Checkers -> CheckerRecords]
  BY <1>2 DEF TypeOK, Places, CheckerRecords, Idle
<1>8. TypeOK'
  BY <1>1, <1>2, <1>3, <1>4, <1>5, <1>7, KeptTypes DEF TypeOK, CheckerRecords
<1> QED
  BY <1>1, <1>2, <1>5, <1>6, <1>8

LEMMA InitTypes ==
    ASSUME Init
    PROVE  Typing
<1>1. setting \in Settings /\ setting.needs \in [Jobs -> SUBSET Jobs]
      /\ setting.parent \in [Jobs -> Jobs \cup {None}] /\ setting.keep \in Nat \ {0}
  BY SettingParts DEF Init
<1>2. Kept(proofs)
  <2>1. proofs.recent = {} /\ Cardinality({}) = 0 /\ proofs \in Records
    BY FS_EmptySet DEF Init, Records
  <2> QED
    BY <1>1, <2>1 DEF Init, Kept, Logged
<1>3. TypeOK
  <2>1. /\ place \in [Jobs -> Places]
        /\ row \in [Jobs -> {"none", "ready", "waiting-children", "active", "completed", "dlq"}]
        /\ checker \in [Checkers -> CheckerRecords]
    BY DEF Init, Places, Idle, CheckerRecords
  <2>2. Len(completed) <= setting.keep
    BY <1>1 DEF Init
  <2>3. /\ up \in {"up", "down", "replaying"} /\ stops \in 0 .. MaxStops
        /\ needs \in [Jobs -> SUBSET Jobs] /\ parent \in [Jobs -> Jobs \cup {None}]
        /\ index \subseteq Jobs \X Jobs
        /\ completed \in Seq(Jobs) /\ finished \in Seq(Jobs) /\ pending \subseteq Jobs
        /\ handler \subseteq Jobs \X Jobs \X {"section", "promote"}
        /\ outbox \subseteq Jobs \X Jobs /\ replay \subseteq outbox
        /\ done \subseteq Jobs /\ forced \subseteq Jobs /\ reported \subseteq Jobs
    BY <1>1, FlowAssumption DEF Init
  <2> QED
    BY <1>1, <1>2, <2>1, <2>2, <2>3, KeptTypes DEF TypeOK, CheckerRecords
<1> QED
  BY <1>2, <1>3 DEF Init, Typing

LEMMA StepTypes ==
    ASSUME Typing, Next
    PROVE  Typing' /\ PinsStay
<1>1. CASE \E S \in setting.batches : Push(S)
  BY <1>1, PushTypes
<1>2. CASE \E c, p \in Jobs : AddChild(c, p) \/ Link(c, p)
  BY <1>2, AddChildTypes, LinkTypes
<1>3. ASSUME NEW j \in Jobs, Outcomes(j) \/ Cancel(j) \/ DropStale(j) \/ Detach(j)
      PROVE  Typing' /\ PinsStay
  <2>1. CASE Outcomes(j)
    BY <2>1, PullTypes, CompleteTypes, RetryTypes, FailTypes, BuryTypes, RetryDlqTypes
       DEF Outcomes
  <2>2. CASE Cancel(j) \/ DropStale(j)
    BY <2>2, DiscardTypes DEF Cancel, DropStale
  <2> QED
    BY <1>3, <2>1, <2>2, DetachTypes
<1>4. CASE \E k \in Checkers : Snapshot(k) \/ Checking(k)
  BY <1>4, SnapshotTypes, CheckTypes, FinishCheckTypes DEF Checking
<1>5. CASE \E p, c \in Jobs : Section(p, c) \/ Promote(p, c)
  BY <1>5, ParentLeftTypes, FailParentTypes, FreeParentTypes, RemoveFromParentTypes,
     PromoteTypes DEF Section
<1>6. CASE Crash \/ Startup
  BY <1>6, CrashTypes, RecoverTypes, ReplayTypes, ServeTypes DEF Startup
<1> QED
  BY <1>1, <1>2, <1>3, <1>4, <1>5, <1>6 DEF Next

LEMMA StutterTypes ==
    ASSUME Typing, UNCHANGED vars
    PROVE  Typing' /\ PinsStay
<1> USE DEF Typing, vars, system, memory, disk, histories
<1>1. TypeOK'
  BY DEF TypeOK
<1>2. Kept(proofs)' /\ PinsStay
  BY DEF Kept, Logged, PinsStay, Held
<1> QED
  BY <1>1, <1>2

\* Typing is inductive.
LEMMA TypingInvariant == Spec => []Typing
<1>1. Init => Typing
  BY InitTypes
<1>2. Typing /\ [Next]_vars => Typing'
  BY StepTypes, StutterTypes
<1> QED
  BY <1>1, <1>2, PTL DEF Spec

\* Every state is typed in every configuration; with that, memory never holds more
\* proofs that nobody waits for than maxCompletedJobs, though records are entered,
\* pinned, released and read back from the table by different steps.
THEOREM TypesHold == Spec => []TypeOK
<1>1. Typing => TypeOK
  BY DEF Typing
<1> QED
  BY <1>1, TypingInvariant, PTL

\* A pin stays while an edge needs it, whatever the configuration: through the
\* release of other edges, the eviction of other proofs, a removal, a handler, a
\* crash and both reconciliations of a startup.
THEOREM PinsAreKept == Spec => PinsHold
<1> DEFINE Step == \A d \in Jobs : d \in Awaited(index') /\ PinnedFor(d) => PinnedFor(d)'
<1>1. Typing /\ [Next]_vars => [Step]_vars
  <2>1. ASSUME Typing, Next PROVE Step
    BY <2>1, StepTypes DEF PinsStay, Held, PinnedFor
  <2> QED
    BY <2>1
<1>2. Spec => [][Step]_vars
  BY <1>1, TypingInvariant, PTL DEF Spec
<1> QED
  BY <1>2 DEF PinsHold
=============================================================================
