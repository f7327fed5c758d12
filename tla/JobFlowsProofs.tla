--------------------------- MODULE JobFlowsProofs ---------------------------
(***************************************************************************)
(* Proofs about JobFlows, for any finite set of jobs and any configuration *)
(* with a database in which two gaps of the code cannot bite (Ordinary):   *)
(* nothing starts before what it depends on, and a reported failure        *)
(* reaches the parent through any crashes and restarts.  The operators on  *)
(* the proofs of completion and the typing are in JobFlowsPins.            *)
(***************************************************************************)
EXTENDS JobFlowsPins

\* A job that has finished can be linked to a parent (parentLinkState gives the
\* parent's row the wrong state), but then the process does not restart.  Late
\* children and failures that free the parent do not come together: one that is
\* added between the two sections of such a handler is not waited for.
Ordinary(s) ==
    /\ s.storage
    /\ s.links = {} \/ "restart" \notin s.hazards
    /\ (s.late = {} /\ s.links = {}) \/ \A j \in Jobs : s.option[j] \in {"none", "fail"}

-----------------------------------------------------------------------------
(***************************************************************************)
(* The inductive invariant.                                                *)
(***************************************************************************)

\* What the proofs below need of Typing.
Typed ==
    /\ setting \in Settings /\ up \in {"up", "down", "replaying"}
    /\ place \in [Jobs -> Places]
    /\ row \in [Jobs -> {"none", "ready", "waiting-children", "active", "completed", "dlq"}]
    /\ needs \in [Jobs -> SUBSET Jobs] /\ parent \in [Jobs -> Jobs \cup {None}]
    /\ index \subseteq Jobs \X Jobs
    /\ completed \in Seq(Jobs) /\ finished \in Seq(Jobs) /\ pending \subseteq Jobs
    /\ checker \in [Checkers -> [busy : BOOLEAN, now : SUBSET Jobs, todo : SUBSET Jobs,
                                 freed : SUBSET Jobs]]
    /\ handler \subseteq Jobs \X Jobs \X {"section", "promote"}
    /\ proofs \in Records
    /\ outbox \subseteq Jobs \X Jobs /\ replay \subseteq outbox
    /\ up = "up" => replay = {}
    /\ done \subseteq Jobs /\ forced \subseteq Jobs /\ reported \subseteq Jobs

Evidence ==
    /\ \A d \in Jobs : Attests(proofs, d) => d \in done
    /\ Range(completed) \subseteq done /\ Range(finished) \subseteq done
    /\ pending \subseteq done
    /\ \A k \in Checkers : checker[k].now \subseteq done

\* What the place and the row of a job have to do with its history.
JobAgrees(j) ==
    /\ place[j] = "new" =>
          /\ row[j] = "none" /\ j \notin done /\ j \notin reported
          /\ needs[j] = setting.needs[j] /\ parent[j] = setting.parent[j]
    /\ j \in done => place[j] \in {"completed", "gone"} /\ row[j] \in {"none", "completed"}
    /\ row[j] = "completed" => j \in done
    /\ j \in reported =>
          /\ place[j] \in {"dlq", "gone"} /\ row[j] \in {"none", "dlq"}
          /\ parent[j] \in Jobs /\ j \notin done
    /\ place[j] = "dlq" => row[j] = "dlq"
    /\ row[j] = "waiting-children" => place[j] \in {"queued", "waiting"}
    /\ setting.links = {} /\ place[j] = "waiting" =>
          row[j] = "waiting-children" \/ needs[j] = {}

\* Nothing is offered, now or by the next restart, before its dependencies.
InTime(j) ==
    /\ place[j] \in {"queued", "active"} => needs[j] \subseteq done
    /\ setting.links = {} /\ row[j] \in {"ready", "active"} => needs[j] \subseteq done

\* A parent is there before its children act on it.
ParentsKnown ==
    /\ \A c, p \in Jobs : place[c] # "new" /\ parent[c] = p => place[p] # "new"
    /\ \A h \in handler : place[h[1]] # "new"

\* Who is about to be promoted by a handler has nothing left to wait for.
Promotions == \A p, c \in Jobs :
    <<p, c, "promote">> \in handler =>
        /\ setting.option[c] \notin {"none", "fail"}
        /\ place[p] = "waiting" => needs[p] \subseteq done

\* Where the report of a failure is while the parent goes on waiting.
WaitsOn(p, c) == c \in reported /\ parent[c] = p /\ c \in needs[p] /\ p \notin forced

Reports ==
    /\ setting.links = {} => \A p, c \in Jobs :
          WaitsOn(p, c) /\ row[p] = "waiting-children" => <<p, c>> \in outbox
    /\ up = "up" => \A p, c \in Jobs :
          WaitsOn(p, c) /\ place[p] = "waiting" => <<p, c, "section">> \in handler
    /\ up = "replaying" => \A p, c \in Jobs :
          WaitsOn(p, c) /\ place[p] = "waiting" => <<p, c>> \in replay

IInv ==
    /\ Ordinary(setting)
    /\ Evidence
    /\ \A j \in Jobs : JobAgrees(j)
    /\ \A j \in Jobs \ forced : InTime(j)
    /\ ParentsKnown
    /\ Promotions
    /\ Reports
    /\ up # "up" => "restart" \in setting.hazards

-----------------------------------------------------------------------------
(***************************************************************************)
(* The initial state, and the steps.                                       *)
(***************************************************************************)

LEMMA TypingTyped ==
    ASSUME Typing
    PROVE  Typed
BY DEF Typing, TypeOK, Kept, Typed

LEMMA InitKeeps ==
    ASSUME \A s \in Settings : Ordinary(s), Init
    PROVE  IInv
<1> USE DEF Init
<1>1. Ordinary(setting)
  OBVIOUS
<1>2. Evidence
  <2>1. Range(<<>>) = {}
    BY DEF Range
  <2> QED
    BY <2>1 DEF Evidence, Attests, Idle
<1>3. \A j \in Jobs : JobAgrees(j) /\ InTime(j)
  BY DEF JobAgrees, InTime
<1>4. ParentsKnown /\ Promotions
  BY DEF ParentsKnown, Promotions
<1>5. Reports
  BY DEF Reports, WaitsOn
<1> QED
  BY <1>1, <1>2, <1>3, <1>4, <1>5 DEF IInv

LEMMA PullKeeps ==
    ASSUME Typed, IInv, NEW j \in Jobs, Pull(j)
    PROVE  IInv'
<1> USE DEF IInv, Pull, Put, SetRow, OnDisk, Ordinary, system, histories
<1>1. Evidence'
  BY DEF Evidence, Attests
<1>2. ASSUME NEW i \in Jobs PROVE JobAgrees(i)'
  BY DEF Typed, JobAgrees
<1>3. ASSUME NEW i \in Jobs \ forced' PROVE InTime(i)'
  BY DEF Typed, InTime
<1>4. ParentsKnown'
  BY DEF Typed, ParentsKnown
<1>5. Promotions'
  BY DEF Typed, Promotions
<1>6. Reports'
  BY DEF Typed, Reports, WaitsOn
<1> QED
  BY <1>1, <1>2, <1>3, <1>4, <1>5, <1>6

LEMMA RetryKeeps ==
    ASSUME Typed, IInv, NEW j \in Jobs, Retry(j)
    PROVE  IInv'
<1> USE DEF IInv, Retry, Put, SetRow, OnDisk, Ordinary, system, histories
<1>1. Evidence'
  BY DEF Evidence, Attests
<1>2. ASSUME NEW i \in Jobs PROVE JobAgrees(i)'
  BY DEF Typed, JobAgrees
<1>3. ASSUME NEW i \in Jobs \ forced' PROVE InTime(i)'
  BY DEF Typed, InTime
<1>4. ParentsKnown'
  BY DEF Typed, ParentsKnown
<1>5. Promotions'
  BY DEF Typed, Promotions
<1>6. Reports'
  BY DEF Typed, Reports, WaitsOn
<1> QED
  BY <1>1, <1>2, <1>3, <1>4, <1>5, <1>6

LEMMA BuryKeeps ==
    ASSUME Typed, IInv, NEW j \in Jobs, Bury(j)
    PROVE  IInv'
<1> USE DEF IInv, Bury, Put, SetRow, OnDisk, ForgetFailuresOf, Ordinary, system, histories
<1>1. Evidence'
  BY DEF Evidence, Attests
<1>2. ASSUME NEW i \in Jobs PROVE JobAgrees(i)'
  BY DEF Typed, JobAgrees
<1>3. ASSUME NEW i \in Jobs \ forced' PROVE InTime(i)'
  BY DEF Typed, InTime
<1>4. ParentsKnown'
  BY DEF Typed, ParentsKnown
<1>5. Promotions'
  BY DEF Typed, Promotions
<1>6. Reports'
  BY DEF Typed, Reports, WaitsOn
<1> QED
  BY <1>1, <1>2, <1>3, <1>4, <1>5, <1>6

LEMMA RetryDlqKeeps ==
    ASSUME Typed, IInv, NEW j \in Jobs, RetryDlq(j)
    PROVE  IInv'
<1> USE DEF IInv, RetryDlq, Put, SetRow, OnDisk, Ordinary, system, histories
<1>1. Evidence'
  BY DEF Evidence, Attests
<1>2. ASSUME NEW i \in Jobs PROVE JobAgrees(i)'
  BY DEF Typed, JobAgrees
<1>3. ASSUME NEW i \in Jobs \ forced' PROVE InTime(i)'
  BY DEF Typed, InTime
<1>4. ParentsKnown'
  BY DEF Typed, ParentsKnown
<1>5. Promotions'
  BY DEF Typed, Promotions
<1>6. Reports'
  BY DEF Typed, Reports, WaitsOn
<1> QED
  BY <1>1, <1>2, <1>3, <1>4, <1>5, <1>6

LEMMA FailKeeps ==
    ASSUME Typed, IInv, NEW j \in Jobs, NEW end \in {"dlq", "gone"}, Fail(j, end)
    PROVE  IInv'
<1> USE DEF IInv, Fail, Put, SetRow, OnDisk, ForgetFailuresOf, Told, Record, Ordinary, system, histories
<1>1. Evidence'
  BY DEF Evidence, Attests
<1>2. ASSUME NEW i \in Jobs PROVE JobAgrees(i)'
  BY DEF Typed, JobAgrees
<1>3. ASSUME NEW i \in Jobs \ forced' PROVE InTime(i)'
  BY DEF Typed, InTime
<1>4. ParentsKnown'
  BY DEF Typed, ParentsKnown
<1>5. Promotions'
  BY DEF Typed, Promotions
<1>6. Reports'
  BY DEF Typed, Reports, WaitsOn
<1> QED
  BY <1>1, <1>2, <1>3, <1>4, <1>5, <1>6

\* What the checks of readiness accept has completed.
LEMMA AvailableDone ==
    ASSUME Typed, Evidence, NEW d \in Jobs, Available(d)
    PROVE  d \in done
BY DEF Available, Proven, Evidence, Attests

LEMMA PushKeeps ==
    ASSUME Typed, IInv, NEW S \in setting.batches, Push(S)
    PROVE  IInv'
<1> USE DEF IInv, Push, OnDisk, Ordinary, system, histories
<1> DEFINE parked == {j \in S : \E d \in needs[j] : ~Available(d)}
           held == {d \in Proven : \E j \in parked : d \in needs[j]}
<1>a. /\ S \subseteq Jobs /\ up = "up" /\ up' = "up"
      /\ \A j \in S : place[j] = "new" /\ setting.parent[j] \in S \cup {None}
  BY SettingParts DEF Typed, WellFormed
<1>b. /\ place' = [j \in Jobs |-> IF j \in parked THEN "waiting"
                                  ELSE IF j \in S THEN "queued" ELSE place[j]]
      /\ row' = [j \in Jobs |-> IF j \in parked THEN "waiting-children"
                                ELSE IF j \in S THEN "ready" ELSE row[j]]
      /\ index' = index \cup UNION {Edges(j, needs[j]) : j \in parked}
      /\ UNCHANGED <<system, needs, parent, completed, pending, checker, handler,
                     finished, outbox, replay, histories>>
  OBVIOUS
<1>c. proofs' \in Records /\ Weaker(proofs', proofs)
  <2>1. Pin(held, proofs) \in Records /\ Weaker(Pin(held, proofs), proofs)
    <3>1. held \subseteq Jobs /\ \A d \in held : Attests(proofs, d)
      BY DEF Typed, Records, Proven, Attests
    <3> HIDE DEF held
    <3> QED
      BY <3>1, PinKeeps DEF Typed, Weaker, Attests
  <2>2. MarkTable(held, "pinned", Pin(held, proofs)) \in Records
        /\ Weaker(MarkTable(held, "pinned", Pin(held, proofs)), Pin(held, proofs))
    BY <2>1, MarkTableKeeps
  <2>3. \/ proofs' = Pin(held, proofs)
        \/ proofs' = MarkTable(held, "pinned", Pin(held, proofs))
    OBVIOUS
  <2> HIDE DEF held
  <2> QED
    BY <2>1, <2>2, <2>3 DEF Weaker
<1>d. \A j \in S \ parked : needs[j] \subseteq done
  BY <1>a, AvailableDone DEF Typed
<1>e. parked \subseteq S
  OBVIOUS
<1> HIDE DEF parked, held, Push
<1>1. Evidence'
  BY <1>b, <1>c DEF Evidence, Attests, Weaker
<1>2. ASSUME NEW i \in Jobs PROVE JobAgrees(i)'
  BY <1>a, <1>b, <1>e DEF Typed, JobAgrees
<1>3. ASSUME NEW i \in Jobs \ forced' PROVE InTime(i)'
  BY <1>a, <1>b, <1>e, <1>d DEF Typed, InTime
<1>4. ParentsKnown'
  BY <1>a, <1>b, <1>e, FlowAssumption DEF Typed, ParentsKnown, JobAgrees
<1>5. Promotions'
  BY <1>a, <1>b, <1>e DEF Typed, Promotions, ParentsKnown
<1>6. Reports'
  BY <1>a, <1>b, <1>e DEF Typed, Reports, WaitsOn, ParentsKnown, JobAgrees
<1> QED
  BY <1>a, <1>b, <1>1, <1>2, <1>3, <1>4, <1>5, <1>6

LEMMA AddChildKeeps ==
    ASSUME Typed, IInv, NEW c \in Jobs, NEW p \in Jobs, AddChild(c, p)
    PROVE  IInv'
<1> USE DEF IInv, AddChild, OnDisk, InQueue, Ordinary, system, histories
<1>a. /\ c # p /\ setting.needs[c] = {} /\ c \in Jobs /\ p \in Jobs /\ setting.late # {}
      /\ \A j \in Jobs : setting.option[j] \in {"none", "fail"}
  BY SettingParts DEF Typed, WellFormed
<1>1. Evidence'
  BY DEF Evidence, Attests
<1>2. ASSUME NEW i \in Jobs PROVE JobAgrees(i)'
  <2>1. JobAgrees(i)
    OBVIOUS
  <2>2. CASE i \notin {c, p}
    BY <2>1, <2>2 DEF Typed, JobAgrees
  <2>3. CASE i = c
    BY <1>a, <2>1, <2>3 DEF Typed, JobAgrees
  <2>4. CASE i = p
    BY <1>a, <2>1, <2>4 DEF Typed, JobAgrees
  <2> QED
    BY <2>2, <2>3, <2>4
<1>3. ASSUME NEW i \in Jobs \ forced' PROVE InTime(i)'
  BY <1>a DEF Typed, InTime, JobAgrees
<1>4. ParentsKnown'
  BY <1>a DEF Typed, ParentsKnown
<1>5. Promotions'
  BY <1>a DEF Typed, Promotions
<1>6. Reports'
  BY <1>a DEF Typed, Reports, WaitsOn, JobAgrees, InTime
<1> QED
  BY <1>1, <1>2, <1>3, <1>4, <1>5, <1>6

LEMMA LinkKeeps ==
    ASSUME Typed, IInv, NEW c \in Jobs, NEW p \in Jobs, Link(c, p)
    PROVE  IInv'
<1> USE DEF IInv, Link, OnDisk, Put, SetRow, InQueue, Ordinary, system, histories
<1>a. /\ setting.links # {} /\ "restart" \notin setting.hazards
      /\ \A j \in Jobs : setting.option[j] \in {"none", "fail"}
  BY DEF Typed
<1>b. Available(c) => c \in done
  BY AvailableDone
<1>1. Evidence'
  BY DEF Evidence, Attests
<1>2. ASSUME NEW i \in Jobs PROVE JobAgrees(i)'
  BY <1>a, FlowAssumption DEF Typed, JobAgrees
<1>3. ASSUME NEW i \in Jobs \ forced' PROVE InTime(i)'
  BY <1>a, <1>b DEF Typed, InTime
<1>4. ParentsKnown'
  BY <1>a, FlowAssumption DEF Typed, ParentsKnown
<1>5. Promotions'
  BY <1>a DEF Typed, Promotions
<1>6. Reports'
  BY <1>a, <1>b, FlowAssumption DEF Typed, Reports, WaitsOn, JobAgrees, InTime
<1> QED
  BY <1>1, <1>2, <1>3, <1>4, <1>5, <1>6

\* The bounded cache and the rows by completedAt, as sequences.
LEMMA AppendRange ==
    ASSUME NEW s \in Seq(Jobs), NEW j \in Jobs
    PROVE  Append(s, j) \in Seq(Jobs) /\ Range(Append(s, j)) \subseteq Range(s) \cup {j}
BY AppendProperties DEF Range

LEMMA TailRange ==
    ASSUME NEW s \in Seq(Jobs), s # <<>>
    PROVE  /\ Tail(s) \in Seq(Jobs) /\ Range(Tail(s)) \subseteq Range(s)
           /\ Head(s) \in Range(s)
BY HeadTailProperties DEF Range

LEMMA CompleteKeeps ==
    ASSUME Typed, IInv, NEW j \in Jobs, Complete(j)
    PROVE  IInv'
<1> USE DEF IInv, Complete, OnDisk, Ordinary, system, histories
<1>a. j \notin done /\ j \notin reported /\ up = "up" /\ replay = {}
  BY DEF Typed, JobAgrees
<1>b. /\ outbox' = {r \in outbox : r[1] # j} /\ done' = done \cup {j}
      /\ pending' = pending \cup {j}
      /\ UNCHANGED <<system, needs, parent, index, checker, handler, replay, forced, reported>>
  BY DEF ForgetFailuresOf
<1>c. /\ \A i \in Jobs \ {j} :
            /\ row'[i] = row[i]
            /\ place'[i] = place[i] \/ (i \in done /\ place'[i] = "gone")
      /\ place'[j] \in {"completed", "gone"} /\ row'[j] \in {"none", "completed"}
      /\ Range(completed') \subseteq Range(completed) \cup {j}
      /\ Range(finished') \subseteq Range(finished) \cup {j}
      /\ \A d \in Jobs : Attests(proofs', d) => Attests(proofs, d) \/ d = j
  <2>1. CASE j \in setting.removed
    BY <2>1, ProveKeeps DEF Typed, Places, Put, SetRow
  <2>2. CASE j \notin setting.removed
    <3>1. Keep(j)
      BY <2>2
    <3> DEFINE full == Len(completed) = setting.keep
               kept == IF full THEN Tail(completed) ELSE completed
    <3>2. full => completed # <<>>
      BY SettingParts DEF Typed
    <3>3. kept \in Seq(Jobs) /\ Range(kept) \subseteq Range(completed)
      BY <3>2, TailRange DEF Typed
    <3>4. full => Head(completed) \in done
      BY <3>2, TailRange DEF Typed, Evidence
    <3>5. /\ completed' = Append(kept, j) /\ finished' = Append(finished, j)
          /\ place' = [i \in Jobs |-> IF i = j THEN "completed"
                                      ELSE IF full /\ i = Head(completed) THEN "gone" ELSE place[i]]
          /\ row' = [row EXCEPT ![j] = "completed"] /\ proofs' = proofs
      BY <3>1 DEF Keep, SetRow
    <3> HIDE DEF full, kept, Complete
    <3>6. Range(completed') \subseteq Range(completed) \cup {j}
      BY <3>3, <3>5, AppendRange
    <3>7. Range(finished') \subseteq Range(finished) \cup {j}
      BY <3>5, AppendRange DEF Typed
    <3> QED
      BY <3>4, <3>5, <3>6, <3>7 DEF Typed, Places
  <2> QED
    BY <2>1, <2>2
<1>d. place[j] = "active"
  OBVIOUS
<1> HIDE DEF Complete
<1>1. Evidence'
  BY <1>a, <1>b, <1>c, <1>d DEF Typed, Evidence
<1>2. ASSUME NEW i \in Jobs PROVE JobAgrees(i)'
  <2>1. JobAgrees(i)
    OBVIOUS
  <2>2. CASE i # j
    BY <1>b, <1>c, <2>1, <2>2 DEF JobAgrees
  <2>3. CASE i = j
    BY <1>a, <1>b, <1>c, <2>1, <2>3 DEF JobAgrees
  <2> QED
    BY <2>2, <2>3
<1>3. ASSUME NEW i \in Jobs \ forced' PROVE InTime(i)'
  BY <1>a, <1>b, <1>c, <1>d DEF Typed, InTime
<1>4. ParentsKnown'
  <2>1. \A i \in Jobs : place'[i] = "new" <=> place[i] = "new"
    BY <1>c, <1>d DEF JobAgrees
  <2>2. \A h \in handler : h[1] \in Jobs
    BY DEF Typed
  <2> QED
    BY <2>1, <2>2, <1>b DEF ParentsKnown
<1>5. Promotions'
  BY <1>a, <1>b, <1>c, <1>d DEF Typed, Promotions
<1>6. Reports'
  BY <1>a, <1>b, <1>c, <1>d DEF Typed, Reports, WaitsOn
<1> QED
  BY <1>a, <1>b, <1>1, <1>2, <1>3, <1>4, <1>5, <1>6

LEMMA DiscardKeeps ==
    ASSUME Typed, IInv, NEW j \in Jobs, InQueue(j), up = "up", Discard(j)
    PROVE  IInv'
<1> USE DEF IInv, Discard, Put, SetRow, OnDisk, ForgetFailuresOf, InQueue, Unregistered, Ordinary, system, histories
<1>p. proofs' \in Records /\ Weaker(proofs', proofs)
  BY ReleaseKeeps DEF Typed, Weaker
<1>1. Evidence'
  BY <1>p DEF Typed, Evidence, Weaker
<1>2. ASSUME NEW i \in Jobs PROVE JobAgrees(i)'
  BY DEF Typed, JobAgrees
<1>3. ASSUME NEW i \in Jobs \ forced' PROVE InTime(i)'
  BY DEF Typed, InTime
<1>4. ParentsKnown'
  BY DEF Typed, ParentsKnown
<1>5. Promotions'
  BY DEF Typed, Promotions
<1>6. Reports'
  BY DEF Typed, Reports, WaitsOn
<1> QED
  BY <1>1, <1>2, <1>3, <1>4, <1>5, <1>6

LEMMA DetachKeeps ==
    ASSUME Typed, IInv, NEW c \in Jobs, Detach(c)
    PROVE  IInv'
<1> USE DEF IInv, Detach, Put, SetRow, OnDisk, InQueue, ReadyState, Ordinary, system, histories
<1> DEFINE p == parent[c]
           left == {d \in needs[p] \ {c} : ~Available(d)}
<1>a. /\ p \in Jobs /\ left \subseteq needs[p] /\ c \in needs[p]
      /\ up = "up" /\ place[c] # "new" /\ c \notin reported /\ place[p] = "waiting"
  BY DEF Typed, JobAgrees
<1>b. /\ parent' = [parent EXCEPT ![c] = None] /\ needs' = [needs EXCEPT ![p] = left]
      /\ place' = IF left = {} THEN [place EXCEPT ![p] = "queued"] ELSE place
      /\ row' = [row EXCEPT ![p] = IF left = {} THEN "ready" ELSE "waiting-children"]
      /\ outbox' = outbox \ {<<p, c>>} /\ index' \subseteq index
      /\ UNCHANGED <<system, completed, pending, checker, handler, finished, replay, histories>>
  OBVIOUS
<1>p. proofs' \in Records /\ Weaker(proofs', proofs)
  BY ReleaseKeeps DEF Typed, Weaker
<1> HIDE DEF p, left, Detach
<1>1. Evidence'
  BY <1>p, <1>b DEF Typed, Evidence, Weaker
<1>2. ASSUME NEW i \in Jobs PROVE JobAgrees(i)'
  <2>1. JobAgrees(i)
    OBVIOUS
  <2>2. CASE i # p
    BY <1>a, <1>b, <2>1, <2>2 DEF Typed, JobAgrees
  <2>3. CASE i = p
    BY <1>a, <1>b, <2>1, <2>3 DEF Typed, JobAgrees
  <2> QED
    BY <2>2, <2>3
<1>3. ASSUME NEW i \in Jobs \ forced' PROVE InTime(i)'
  BY <1>a, <1>b DEF Typed, InTime
<1>4. ParentsKnown'
  BY <1>a, <1>b, FlowAssumption DEF Typed, ParentsKnown
<1>5. Promotions'
  BY <1>a, <1>b DEF Typed, Promotions
<1>6. Reports'
  <2>1. /\ \A q \in Jobs \ {p} : place'[q] = place[q] /\ row'[q] = row[q] /\ needs'[q] = needs[q]
        /\ needs'[p] = left /\ (row[p] = "waiting-children" \/ setting.links # {})
        /\ \A d \in Jobs \ {c} : parent'[d] = parent[d]
        /\ parent'[c] = None
    BY <1>a, <1>b DEF Typed, JobAgrees
  <2>2. \A q, d \in Jobs : WaitsOn(q, d)' => WaitsOn(q, d) /\ d # c
    BY <2>1, <1>a, <1>b, FlowAssumption DEF Typed, WaitsOn
  <2> QED
    BY <2>1, <2>2, <1>a, <1>b DEF Reports
<1> QED
  BY <1>a, <1>b, <1>1, <1>2, <1>3, <1>4, <1>5, <1>6

LEMMA SnapshotKeeps ==
    ASSUME Typed, IInv, NEW k \in Checkers, Snapshot(k)
    PROVE  IInv'
<1> USE DEF IInv, Snapshot, disk, Ordinary, system, histories
<1>a. checker' \in [Checkers -> CheckerRecords]
      /\ \A l \in Checkers : checker'[l].now \subseteq checker[l].now \cup pending
  <2> DEFINE todo == {e[2] : e \in {f \in index : f[1] \in pending}}
             now == IF todo = {} THEN {} ELSE pending
             rec == [Idle EXCEPT !.busy = todo # {}, !.todo = todo, !.now = now]
  <2>1. todo \subseteq Jobs /\ now \subseteq Jobs /\ now \subseteq pending
    BY DEF Typed
  <2>2. checker' = [checker EXCEPT ![k] = rec]
    OBVIOUS
  <2> HIDE DEF todo, now
  <2>3. rec \in CheckerRecords /\ rec.now = now
    BY <2>1 DEF Idle, CheckerRecords
  <2> HIDE DEF rec, Snapshot
  <2> QED
    BY <2>1, <2>2, <2>3 DEF Typed, CheckerRecords
<1>b. up = "up" /\ pending' = {}
      /\ UNCHANGED <<system, place, needs, parent, index, completed, handler, proofs, disk, histories>>
  OBVIOUS
<1> HIDE DEF Snapshot
<1>1. Evidence'
  BY <1>a, <1>b DEF Typed, Evidence, Attests
<1>2. ASSUME NEW i \in Jobs PROVE JobAgrees(i)'
  BY <1>b DEF JobAgrees
<1>3. ASSUME NEW i \in Jobs \ forced' PROVE InTime(i)'
  BY <1>b DEF InTime
<1>4. ParentsKnown'
  BY <1>b DEF ParentsKnown
<1>5. Promotions'
  BY <1>b DEF Promotions
<1>6. Reports'
  BY <1>b DEF Reports, WaitsOn
<1> QED
  BY <1>b, <1>1, <1>2, <1>3, <1>4, <1>5, <1>6

LEMMA CheckKeeps ==
    ASSUME Typed, IInv, NEW k \in Checkers, NEW j \in Jobs, Check(k, j)
    PROVE  IInv'
<1> USE DEF IInv, Check, Put, SetRow, OnDisk, Ordinary, system, histories
<1>a. /\ checker' \in [Checkers -> CheckerRecords]
      /\ \A l \in Checkers : checker'[l].now = checker[l].now
  <2>1. needs[j] \subseteq Jobs /\ checker \in [Checkers -> CheckerRecords]
    BY DEF Typed, CheckerRecords
  <2> DEFINE seen == [checker EXCEPT ![k].todo = @ \ {j}]
             moved == [seen EXCEPT ![k].freed = checker[k].freed \cup needs[j]]
  <2>2. checker' = seen \/ checker' = moved
    OBVIOUS
  <2> HIDE DEF Check
  <2>3. /\ seen \in [Checkers -> CheckerRecords]
        /\ \A l \in Checkers : seen[l].now = checker[l].now
    BY <2>1 DEF CheckerRecords
  <2> HIDE DEF seen
  <2>4. /\ moved \in [Checkers -> CheckerRecords]
        /\ \A l \in Checkers : moved[l].now = seen[l].now
    BY <2>1, <2>3 DEF CheckerRecords
  <2> HIDE DEF moved
  <2> QED
    BY <2>2, <2>3, <2>4
<1>b. /\ up = "up"
      /\ \/ /\ place[j] = "waiting" /\ needs[j] \subseteq done
            /\ place' = [place EXCEPT ![j] = "queued"] /\ row' = [row EXCEPT ![j] = "ready"]
            /\ index' = Unregistered(j)
         \/ UNCHANGED <<place, row, index>>
      /\ UNCHANGED <<system, needs, parent, completed, pending, handler, proofs, finished,
                     outbox, replay, histories>>
  <2>1. MetFor(k, j) => needs[j] \subseteq done
    BY AvailableDone DEF MetFor, Evidence, Typed
  <2> QED
    BY <2>1
<1> HIDE DEF Check
<1>1. Evidence'
  BY <1>a, <1>b DEF Typed, Evidence, Attests
<1>2. ASSUME NEW i \in Jobs PROVE JobAgrees(i)'
  BY <1>b DEF Typed, JobAgrees
<1>3. ASSUME NEW i \in Jobs \ forced' PROVE InTime(i)'
  BY <1>b DEF Typed, InTime
<1>4. ParentsKnown'
  <2>1. \A i \in Jobs : place'[i] = "new" <=> place[i] = "new"
    BY <1>b DEF Typed
  <2>2. \A h \in handler : h[1] \in Jobs
    BY DEF Typed
  <2> QED
    BY <2>1, <2>2, <1>b DEF ParentsKnown
<1>5. Promotions'
  BY <1>b DEF Typed, Promotions
<1>6. Reports'
  BY <1>b DEF Typed, Reports, WaitsOn
<1> QED
  BY <1>b, <1>1, <1>2, <1>3, <1>4, <1>5, <1>6

LEMMA FinishCheckKeeps ==
    ASSUME Typed, IInv, NEW k \in Checkers, FinishCheck(k)
    PROVE  IInv'
<1> USE DEF IInv, FinishCheck, disk, Ordinary, system, histories
<1>a. /\ checker' \in [Checkers -> CheckerRecords]
      /\ \A l \in Checkers : checker'[l].now \subseteq checker[l].now
  BY DEF Typed, CheckerRecords, Idle
<1>b. /\ proofs' \in Records /\ Weaker(proofs', proofs)
      /\ UNCHANGED <<system, place, needs, parent, index, completed, pending, handler, disk, histories>>
  BY ReleaseKeeps DEF Typed, CheckerRecords, Weaker
<1> HIDE DEF FinishCheck
<1>1. Evidence'
  BY <1>a, <1>b DEF Typed, Evidence, Weaker
<1>2. ASSUME NEW i \in Jobs PROVE JobAgrees(i)'
  BY <1>b DEF JobAgrees
<1>3. ASSUME NEW i \in Jobs \ forced' PROVE InTime(i)'
  BY <1>b DEF InTime
<1>4. ParentsKnown'
  BY <1>b DEF ParentsKnown
<1>5. Promotions'
  BY <1>b DEF Promotions
<1>6. Reports'
  BY <1>b DEF Reports, WaitsOn
<1> QED
  BY <1>b, <1>1, <1>2, <1>3, <1>4, <1>5, <1>6

LEMMA ParentLeftKeeps ==
    ASSUME Typed, IInv, NEW p \in Jobs, NEW c \in Jobs, ParentLeft(p, c)
    PROVE  IInv'
<1> USE DEF IInv, ParentLeft, AtSection, EndSection, InQueue, Settled, Ordinary, system, histories
<1>1. Evidence'
  BY DEF Evidence, Attests
<1>2. ASSUME NEW i \in Jobs PROVE JobAgrees(i)'
  BY DEF Typed, JobAgrees
<1>3. ASSUME NEW i \in Jobs \ forced' PROVE InTime(i)'
  BY DEF Typed, InTime
<1>4. ParentsKnown'
  BY DEF Typed, ParentsKnown
<1>5. Promotions'
  BY DEF Typed, Promotions
<1>6. Reports'
  BY DEF Typed, Reports, WaitsOn, JobAgrees
<1> QED
  BY <1>1, <1>2, <1>3, <1>4, <1>5, <1>6

LEMMA FailParentKeeps ==
    ASSUME Typed, IInv, NEW p \in Jobs, NEW c \in Jobs, FailParent(p, c)
    PROVE  IInv'
<1> USE DEF IInv, FailParent, AtSection, EndSection, InQueue, Put, SetRow, OnDisk, Unregistered, ForgetFailuresOf, Ordinary, system, histories
<1>p. proofs' \in Records /\ Weaker(proofs', proofs)
  BY ReleaseKeeps DEF Typed, Weaker
<1>1. Evidence'
  BY <1>p DEF Typed, Evidence, Weaker
<1>2. ASSUME NEW i \in Jobs PROVE JobAgrees(i)'
  BY DEF Typed, JobAgrees
<1>3. ASSUME NEW i \in Jobs \ forced' PROVE InTime(i)'
  BY DEF Typed, InTime
<1>4. ParentsKnown'
  BY DEF Typed, ParentsKnown
<1>5. Promotions'
  BY DEF Typed, Promotions
<1>6. Reports'
  BY DEF Typed, Reports, WaitsOn
<1> QED
  BY <1>1, <1>2, <1>3, <1>4, <1>5, <1>6

LEMMA FreeParentKeeps ==
    ASSUME Typed, IInv, NEW p \in Jobs, NEW c \in Jobs, FreeParent(p, c)
    PROVE  IInv'
<1> USE DEF IInv, FreeParent, AtSection, PromoteNext, InQueue, Put, SetRow, OnDisk, Unregistered, Ordinary, system, histories
<1>p. proofs' \in Records /\ Weaker(proofs', proofs)
  BY ReleaseKeeps DEF Typed, Weaker
<1>1. Evidence'
  BY <1>p DEF Typed, Evidence, Weaker
<1>2. ASSUME NEW i \in Jobs PROVE JobAgrees(i)'
  BY DEF Typed, JobAgrees
<1>3. ASSUME NEW i \in Jobs \ forced' PROVE InTime(i)'
  BY DEF Typed, InTime
<1>4. ParentsKnown'
  BY DEF Typed, ParentsKnown
<1>5. Promotions'
  BY DEF Typed, Promotions
<1>6. Reports'
  BY DEF Typed, Reports, WaitsOn
<1> QED
  BY <1>1, <1>2, <1>3, <1>4, <1>5, <1>6

LEMMA RemoveFromParentKeeps ==
    ASSUME Typed, IInv, NEW p \in Jobs, NEW c \in Jobs, RemoveFromParent(p, c)
    PROVE  IInv'
<1> USE DEF IInv, RemoveFromParent, AtSection, EndSection, PromoteNext, InQueue, SetRow, OnDisk, ReadyState, Ordinary, system, histories
<1> DEFINE left == needs[p] \ {c}
           ready == place[p] = "waiting" /\ left \subseteq Range(completed)
<1>a. /\ up = "up" /\ <<p, c, "section">> \in handler /\ place[p] \in {"queued", "waiting"}
      /\ setting.option[c] \in {"ignore", "remove"}
      /\ ready => place[p] = "waiting" /\ left \subseteq done
      /\ left \subseteq Jobs /\ \A d \in Jobs : d \in left <=> d \in needs[p] /\ d # c
      /\ setting.links = {}
  BY DEF Evidence, Typed
<1>b. /\ \/ /\ place[p] = "waiting" /\ needs' = [needs EXCEPT ![p] = left] /\ index' = index \ {<<c, p>>}
            /\ row' = [row EXCEPT ![p] = IF left = {} THEN "ready" ELSE "waiting-children"]
         \/ ~(place[p] = "waiting" /\ c \in needs[p]) /\ UNCHANGED <<needs, index, row>>
      /\ \/ /\ ready /\ outbox' = outbox
            /\ handler' = (handler \ {<<p, c, "section">>}) \cup {<<p, c, "promote">>}
         \/ handler' = handler \ {<<p, c, "section">>} /\ outbox' \in {outbox, outbox \ {<<p, c>>}}
      /\ UNCHANGED <<system, place, parent, completed, pending, checker, finished, replay, histories>>
  BY DEF Settled
<1>p. proofs' \in Records /\ Weaker(proofs', proofs)
  BY ReleaseKeeps DEF Typed, Weaker
<1> HIDE DEF left, ready, RemoveFromParent
<1>1. Evidence'
  BY <1>p, <1>b DEF Typed, Evidence, Weaker
<1>2. ASSUME NEW i \in Jobs PROVE JobAgrees(i)'
  BY <1>a, <1>b DEF Typed, JobAgrees
<1>3. ASSUME NEW i \in Jobs \ forced' PROVE InTime(i)'
  BY <1>a, <1>b DEF Typed, InTime
<1>4. ParentsKnown'
  BY <1>a, <1>b DEF Typed, ParentsKnown
<1>5. Promotions'
  BY <1>a, <1>b DEF Typed, Promotions
<1>6. Reports'
  BY <1>a, <1>b DEF Typed, Reports, WaitsOn, JobAgrees, InTime
<1> QED
  BY <1>a, <1>b, <1>1, <1>2, <1>3, <1>4, <1>5, <1>6

LEMMA PromoteKeeps ==
    ASSUME Typed, IInv, NEW p \in Jobs, NEW c \in Jobs, Promote(p, c)
    PROVE  IInv'
<1> USE DEF IInv, Promote, Put, SetRow, OnDisk, ReadyState, Ordinary, system, histories
<1>a. /\ up = "up" /\ setting.option[c] \notin {"none", "fail"} /\ setting.links = {}
      /\ place[p] = "waiting" => needs[p] \subseteq done
  BY DEF Promotions, Typed
<1>b. /\ \/ /\ place[p] = "waiting" /\ place' = [place EXCEPT ![p] = "queued"]
            /\ row' = [row EXCEPT ![p] = IF needs[p] = {} THEN "ready" ELSE "waiting-children"]
            /\ index' \subseteq index
         \/ place[p] # "waiting" /\ UNCHANGED <<place, row, index>>
      /\ handler' = handler \ {<<p, c, "promote">>} /\ outbox' \in {outbox, outbox \ {<<p, c>>}}
      /\ UNCHANGED <<system, needs, parent, completed, pending, checker, finished, replay, histories>>
  BY DEF Settled, Unregistered
<1>p. proofs' \in Records /\ Weaker(proofs', proofs)
  BY ReleaseKeeps DEF Typed, Weaker
<1> HIDE DEF Promote
<1>1. Evidence'
  BY <1>p, <1>b DEF Typed, Evidence, Weaker
<1>2. ASSUME NEW i \in Jobs PROVE JobAgrees(i)'
  BY <1>a, <1>b DEF Typed, JobAgrees
<1>3. ASSUME NEW i \in Jobs \ forced' PROVE InTime(i)'
  BY <1>a, <1>b DEF Typed, InTime
<1>4. ParentsKnown'
  BY <1>a, <1>b DEF Typed, ParentsKnown
<1>5. Promotions'
  BY <1>a, <1>b DEF Typed, Promotions
<1>6. Reports'
  BY <1>a, <1>b DEF Typed, Reports, WaitsOn, JobAgrees, InTime
<1> QED
  BY <1>a, <1>b, <1>1, <1>2, <1>3, <1>4, <1>5, <1>6

LEMMA CrashKeeps ==
    ASSUME Typed, IInv, Crash
    PROVE  IInv'
<1> USE DEF IInv, Crash, May, memory, disk, Ordinary, system, histories
<1>1. Evidence'
  BY DEF Evidence, Attests
<1>2. ASSUME NEW i \in Jobs PROVE JobAgrees(i)'
  BY DEF JobAgrees
<1>3. ASSUME NEW i \in Jobs \ forced' PROVE InTime(i)'
  BY DEF InTime
<1>4. ParentsKnown'
  BY DEF ParentsKnown
<1>5. Promotions'
  BY DEF Promotions
<1>6. Reports'
  BY DEF Reports, WaitsOn
<1> QED
  BY <1>1, <1>2, <1>3, <1>4, <1>5, <1>6

LEMMA RecoverKeeps ==
    ASSUME Typed, IInv, NEW S \in SUBSET Jobs, Recover(S)
    PROVE  IInv'
<1> USE DEF IInv, Recover, Ordinary, system, histories
<1> DEFINE parked == {j \in Jobs : row[j] = "waiting-children" /\ \E d \in needs[j] : ~ProvenOnDisk(d)}
           runnable == {j \in Jobs \ (parked \cup S) :
                           row[j] \in {"ready", "waiting-children", "active"}}
           cache == Newest(finished, setting.keep)
<1>a. /\ up = "down" /\ up' = "replaying" /\ setting.links = {} /\ "restart" \in setting.hazards
      /\ S \subseteq Jobs /\ \A j \in S : row[j] = "active"
  OBVIOUS
<1>b. /\ place' = [j \in Jobs |-> IF j \in parked THEN "waiting"
                                  ELSE IF j \in runnable THEN "queued"
                                  ELSE IF j \in S \/ row[j] = "dlq" THEN "dlq"
                                  ELSE IF j \in Range(cache) THEN "completed"
                                  ELSE IF place[j] = "new" THEN "new" ELSE "gone"]
      /\ row' = [j \in Jobs |-> IF j \in runnable THEN "ready"
                                ELSE IF j \in S THEN "dlq" ELSE row[j]]
      /\ index' = UNION {Edges(j, needs[j]) : j \in parked}
      /\ completed' = cache /\ proofs' = Reconcile(index')
      /\ outbox' = {r \in outbox : r[1] \notin S} /\ replay' = outbox'
      /\ pending' = {} /\ checker' = [k \in Checkers |-> Idle] /\ handler' = {}
      /\ UNCHANGED <<setting, stops, needs, parent, finished, histories>>
  OBVIOUS
<1>c. cache \in Seq(Jobs) /\ Range(cache) \subseteq done
  BY SettingParts, NewestRange DEF Typed, Evidence
<1>d. /\ \A j \in parked : row[j] = "waiting-children"
      /\ \A j \in runnable : j \notin parked \cup S /\ row[j] \in {"ready", "waiting-children", "active"}
      /\ \A j \in Jobs : row[j] \in {"ready", "waiting-children", "active"}
            => j \in parked \cup runnable \cup S
      /\ \A j \in runnable : row[j] = "waiting-children" => needs[j] \subseteq done
  <2>1. \A d \in Jobs : ProvenOnDisk(d) => d \in done
    BY DEF ProvenOnDisk, Evidence, Attests, JobAgrees
  <2> QED
    BY <2>1 DEF Typed
<1>e. proofs' \in Records /\ Weaker(proofs', proofs)
  BY <1>b, ReconcileKeeps DEF Typed
<1> HIDE DEF parked, runnable, cache, Recover
<1>f. \A j \in Jobs : place'[j] = "new" <=> place[j] = "new"
  BY <1>a, <1>b, <1>c, <1>d DEF JobAgrees
<1>1. Evidence'
  BY <1>b, <1>c, <1>e DEF Typed, Evidence, Weaker, Idle
<1>2. ASSUME NEW i \in Jobs PROVE JobAgrees(i)'
  <2>1. JobAgrees(i)
    OBVIOUS
  <2>2. CASE i \in parked
    BY <1>a, <1>b, <1>d, <2>1, <2>2 DEF Typed, JobAgrees
  <2>3. CASE i \in runnable /\ i \notin parked
    BY <1>b, <1>d, <2>1, <2>3 DEF Typed, JobAgrees
  <2>4. CASE i \in S
    BY <1>a, <1>b, <1>d, <2>1, <2>4 DEF Typed, JobAgrees
  <2>5. CASE i \notin parked \cup runnable \cup S
    BY <1>b, <1>c, <1>d, <2>1, <2>5 DEF Typed, JobAgrees
  <2> QED
    BY <2>2, <2>3, <2>4, <2>5
<1>3. ASSUME NEW i \in Jobs \ forced' PROVE InTime(i)'
  BY <1>a, <1>b, <1>c, <1>d DEF Typed, InTime
<1>4. ParentsKnown'
  BY <1>b, <1>f DEF Typed, ParentsKnown
<1>5. Promotions'
  BY <1>a, <1>b, <1>c, <1>d DEF Typed, Promotions
<1>6. Reports'
  BY <1>a, <1>b, <1>c, <1>d DEF Typed, Reports, WaitsOn, JobAgrees
<1> QED
  BY <1>a, <1>b, <1>1, <1>2, <1>3, <1>4, <1>5, <1>6

LEMMA ServeKeeps ==
    ASSUME Typed, IInv, Serve
    PROVE  IInv'
<1> USE DEF IInv, Serve, memory, disk, Ordinary, system, histories
<1>p. proofs' \in Records /\ Weaker(proofs', proofs)
  BY ReconcileKeeps DEF Typed
<1>1. Evidence'
  BY <1>p DEF Evidence, Weaker
<1>2. ASSUME NEW i \in Jobs PROVE JobAgrees(i)'
  BY DEF JobAgrees
<1>3. ASSUME NEW i \in Jobs \ forced' PROVE InTime(i)'
  BY DEF InTime
<1>4. ParentsKnown'
  BY DEF ParentsKnown
<1>5. Promotions'
  BY DEF Promotions
<1>6. Reports'
  BY DEF Reports, WaitsOn
<1> QED
  BY <1>1, <1>2, <1>3, <1>4, <1>5, <1>6

LEMMA RecordPair ==
    ASSUME Typed, NEW r \in replay
    PROVE  \E p \in Jobs, c \in Jobs : r = <<p, c>> /\ <<p, c>> \in replay
<1>1. r \in Jobs \X Jobs
  BY DEF Typed
<1>2. r[1] \in Jobs /\ r[2] \in Jobs /\ r = <<r[1], r[2]>>
  BY <1>1
<1> QED
  BY <1>2

LEMMA ReplayFailKeeps ==
    ASSUME Typed, IInv, NEW r \in replay, Replay(r), ReplayFail(r)
    PROVE  IInv'
<1> USE DEF IInv, Ordinary, system, histories
<1>a. PICK p \in Jobs, c \in Jobs : r = <<p, c>> /\ <<p, c>> \in replay
  BY RecordPair
<1>b. /\ up = "replaying" /\ up' = up /\ setting.links = {} /\ "restart" \in setting.hazards
      /\ replay' = replay \ {<<p, c>>}
      /\ UNCHANGED <<system, parent, completed, pending, checker, handler, proofs, finished, histories>>
  BY <1>a DEF Replay, Replayed
<1>c. /\ place[p] \in {"queued", "waiting"}
      /\ place' = [place EXCEPT ![p] = "dlq"] /\ row' = [row EXCEPT ![p] = "dlq"]
      /\ index' \subseteq index /\ outbox' = outbox \ {<<p, c>>} /\ needs' = needs
  BY <1>a DEF ReplayFail, InQueue, Put, SetRow, OnDisk, Unregistered
<1>1. Evidence'
  BY <1>a, <1>b, <1>c DEF Typed, Evidence, Attests
<1>2. ASSUME NEW i \in Jobs PROVE JobAgrees(i)'
  BY <1>a, <1>b, <1>c DEF Typed, JobAgrees
<1>3. ASSUME NEW i \in Jobs \ forced' PROVE InTime(i)'
  BY <1>a, <1>b, <1>c DEF Typed, InTime
<1>4. ParentsKnown'
  BY <1>a, <1>b, <1>c DEF Typed, ParentsKnown
<1>5. Promotions'
  BY <1>a, <1>b, <1>c DEF Typed, Promotions
<1>6. Reports'
  BY <1>a, <1>b, <1>c DEF Typed, Reports, WaitsOn, JobAgrees, InTime
<1> QED
  BY <1>b, <1>1, <1>2, <1>3, <1>4, <1>5, <1>6

LEMMA ReplayContinueKeeps ==
    ASSUME Typed, IInv, NEW r \in replay, Replay(r), ReplayContinue(r)
    PROVE  IInv'
<1> USE DEF IInv, Ordinary, system, histories
<1>a. PICK p \in Jobs, c \in Jobs : r = <<p, c>> /\ <<p, c>> \in replay
  BY RecordPair
<1>b. /\ up = "replaying" /\ up' = up /\ setting.links = {} /\ "restart" \in setting.hazards
      /\ replay' = replay \ {<<p, c>>}
      /\ UNCHANGED <<system, parent, completed, pending, checker, handler, proofs, finished, histories>>
  BY <1>a DEF Replay, Replayed
<1>c. /\ place[p] \in {"queued", "waiting"}
      /\ place' = [place EXCEPT ![p] = "queued"] /\ row' = [row EXCEPT ![p] = "ready"]
      /\ needs' = [needs EXCEPT ![p] = {}] /\ index' \subseteq index /\ outbox' = outbox
  BY <1>a DEF ReplayContinue, InQueue, Put, SetRow, OnDisk, Unregistered
<1>1. Evidence'
  BY <1>a, <1>b, <1>c DEF Typed, Evidence, Attests
<1>2. ASSUME NEW i \in Jobs PROVE JobAgrees(i)'
  BY <1>a, <1>b, <1>c DEF Typed, JobAgrees
<1>3. ASSUME NEW i \in Jobs \ forced' PROVE InTime(i)'
  BY <1>a, <1>b, <1>c DEF Typed, InTime
<1>4. ParentsKnown'
  BY <1>a, <1>b, <1>c DEF Typed, ParentsKnown
<1>5. Promotions'
  BY <1>a, <1>b, <1>c DEF Typed, Promotions
<1>6. Reports'
  BY <1>a, <1>b, <1>c DEF Typed, Reports, WaitsOn, JobAgrees, InTime
<1> QED
  BY <1>b, <1>1, <1>2, <1>3, <1>4, <1>5, <1>6

LEMMA ReplayRemoveKeeps ==
    ASSUME Typed, IInv, NEW r \in replay, Replay(r), ReplayRemove(r)
    PROVE  IInv'
<1> USE DEF IInv, Ordinary, system, histories
<1>a. PICK p \in Jobs, c \in Jobs : r = <<p, c>> /\ <<p, c>> \in replay
  BY RecordPair
<1>b. /\ up = "replaying" /\ up' = up /\ setting.links = {} /\ "restart" \in setting.hazards
      /\ replay' = replay \ {<<p, c>>}
      /\ UNCHANGED <<system, parent, completed, pending, checker, handler, proofs, finished, histories>>
  BY <1>a DEF Replay, Replayed
<1> DEFINE left == needs[p] \ {c}
           ready == \A d \in left : Available(d)
<1>c. /\ place[p] \in {"queued", "waiting"} /\ needs' = [needs EXCEPT ![p] = left]
      /\ \/ /\ ready /\ place' = [place EXCEPT ![p] = "queued"]
            /\ row' = [row EXCEPT ![p] = IF left = {} THEN "ready" ELSE "waiting-children"]
         \/ /\ c \in needs[p] /\ ~ready /\ place' = place
            /\ row' = [row EXCEPT ![p] = "waiting-children"]
         \/ c \notin needs[p] /\ place' = place /\ row' = row
      /\ index' \subseteq index /\ outbox' \in {outbox, outbox \ {<<p, c>>}}
  BY <1>a DEF ReplayRemove, InQueue, Put, SetRow, OnDisk, Unregistered, Settled, ReadyState
<1>d. /\ left \subseteq Jobs /\ (ready => left \subseteq done)
      /\ \A d \in Jobs : d \in left <=> d \in needs[p] /\ d # c
  BY AvailableDone DEF Typed
<1> HIDE DEF left, ready
<1>1. Evidence'
  BY <1>a, <1>b, <1>c, <1>d DEF Typed, Evidence, Attests
<1>2. ASSUME NEW i \in Jobs PROVE JobAgrees(i)'
  BY <1>a, <1>b, <1>c, <1>d DEF Typed, JobAgrees
<1>3. ASSUME NEW i \in Jobs \ forced' PROVE InTime(i)'
  BY <1>a, <1>b, <1>c, <1>d DEF Typed, InTime
<1>4. ParentsKnown'
  BY <1>a, <1>b, <1>c, <1>d DEF Typed, ParentsKnown
<1>5. Promotions'
  BY <1>a, <1>b, <1>c, <1>d DEF Typed, Promotions
<1>6. Reports'
  BY <1>a, <1>b, <1>c, <1>d DEF Typed, Reports, WaitsOn, JobAgrees, InTime
<1> QED
  BY <1>b, <1>1, <1>2, <1>3, <1>4, <1>5, <1>6

LEMMA ReplayOrphanKeeps ==
    ASSUME Typed, IInv, NEW r \in replay, Replay(r), ReplayOrphan(r)
    PROVE  IInv'
<1> USE DEF IInv, Ordinary, system, histories
<1>a. PICK p \in Jobs, c \in Jobs : r = <<p, c>> /\ <<p, c>> \in replay
  BY RecordPair
<1>b. /\ up = "replaying" /\ up' = up /\ setting.links = {} /\ "restart" \in setting.hazards
      /\ replay' = replay \ {<<p, c>>}
      /\ UNCHANGED <<system, parent, completed, pending, checker, handler, proofs, finished, histories>>
  BY <1>a DEF Replay, Replayed
<1>c. /\ place[p] \notin {"queued", "waiting"} /\ outbox' = outbox \ {<<p, c>>}
      /\ UNCHANGED <<place, needs, index, row>>
  BY <1>a DEF ReplayOrphan, InQueue
<1>1. Evidence'
  BY <1>a, <1>b, <1>c DEF Typed, Evidence, Attests
<1>2. ASSUME NEW i \in Jobs PROVE JobAgrees(i)'
  BY <1>a, <1>b, <1>c DEF Typed, JobAgrees
<1>3. ASSUME NEW i \in Jobs \ forced' PROVE InTime(i)'
  BY <1>a, <1>b, <1>c DEF Typed, InTime
<1>4. ParentsKnown'
  BY <1>a, <1>b, <1>c DEF Typed, ParentsKnown
<1>5. Promotions'
  BY <1>a, <1>b, <1>c DEF Typed, Promotions
<1>6. Reports'
  BY <1>a, <1>b, <1>c DEF Typed, Reports, WaitsOn, JobAgrees, InTime
<1> QED
  BY <1>b, <1>1, <1>2, <1>3, <1>4, <1>5, <1>6

LEMMA StepKeeps ==
    ASSUME Typed, IInv, Next
    PROVE  IInv'
<1>1. CASE \E S \in setting.batches : Push(S)
  BY <1>1, PushKeeps
<1>2. CASE \E c, p \in Jobs : AddChild(c, p) \/ Link(c, p)
  BY <1>2, AddChildKeeps, LinkKeeps
<1>3. ASSUME NEW j \in Jobs, Outcomes(j) \/ Cancel(j) \/ DropStale(j) \/ Detach(j)
      PROVE  IInv'
  <2>1. CASE Outcomes(j)
    BY <2>1, PullKeeps, CompleteKeeps, RetryKeeps, FailKeeps, BuryKeeps, RetryDlqKeeps
       DEF Outcomes
  <2>2. CASE Cancel(j) \/ DropStale(j)
    BY <2>2, DiscardKeeps DEF Cancel, DropStale, InQueue
  <2> QED
    BY <1>3, <2>1, <2>2, DetachKeeps
<1>4. CASE \E k \in Checkers : Snapshot(k) \/ Checking(k)
  BY <1>4, SnapshotKeeps, CheckKeeps, FinishCheckKeeps DEF Checking
<1>5. CASE \E p, c \in Jobs : Section(p, c) \/ Promote(p, c)
  BY <1>5, ParentLeftKeeps, FailParentKeeps, FreeParentKeeps, RemoveFromParentKeeps,
     PromoteKeeps DEF Section
<1>6. ASSUME NEW r \in outbox, Replay(r) PROVE IInv'
  <2>1. r \in replay /\ (ReplayFail(r) \/ ReplayContinue(r) \/ ReplayRemove(r) \/ ReplayOrphan(r))
    BY <1>6 DEF Replay
  <2> QED
    BY <1>6, <2>1, ReplayFailKeeps, ReplayContinueKeeps, ReplayRemoveKeeps, ReplayOrphanKeeps
<1>7. CASE Crash \/ Startup
  BY <1>6, <1>7, CrashKeeps, RecoverKeeps, ServeKeeps DEF Startup
<1> QED
  BY <1>1, <1>2, <1>3, <1>4, <1>5, <1>7 DEF Next

LEMMA StutterKeeps ==
    ASSUME Typed, IInv, UNCHANGED vars
    PROVE  IInv'
<1> USE DEF IInv, vars, system, memory, disk, histories
<1>1. Ordinary(setting)' /\ Evidence'
  BY DEF Ordinary, Evidence, Attests
<1>2. \A j \in Jobs : JobAgrees(j)' /\ (j \notin forced' => InTime(j)')
  BY DEF JobAgrees, InTime
<1>3. ParentsKnown' /\ Promotions' /\ Reports'
  BY DEF ParentsKnown, Promotions, Reports, WaitsOn
<1> QED
  BY <1>1, <1>2, <1>3

-----------------------------------------------------------------------------
(***************************************************************************)
(* The theorems.                                                           *)
(***************************************************************************)

\* The inductive invariant holds in every state, with any number of jobs, flows,
\* crashes and restarts, in every configuration that is Ordinary.
THEOREM Invariance ==
    ASSUME \A s \in Settings : Ordinary(s)
    PROVE  Spec => []IInv
<1>1. Init => IInv
  BY InitKeeps
<1>2. Typed /\ IInv /\ [Next]_vars => IInv'
  BY StepKeeps, StutterKeeps
<1>3. Typing => Typed
  BY TypingTyped
<1> QED
  BY <1>1, <1>2, <1>3, TypingInvariant, PTL DEF Spec

\* No job is offered to workers before every job it depends on has completed:
\* what the cache, the two tiers of proofs, the tables, the snapshots of the
\* checkers, the handlers and the rows a restart reads say about a dependency
\* is never more than what happened.
THEOREM NothingStartsEarly ==
    ASSUME \A s \in Settings : Ordinary(s)
    PROVE  Spec => []NoEarlyStart
<1>1. IInv => NoEarlyStart
  BY DEF IInv, InTime, NoEarlyStart
<1> QED
  BY <1>1, Invariance, PTL

\* A parent that goes on waiting for a child whose failure was reported, and was
\* not retried out of the DLQ, has the failure on its way: in a handler, or in the
\* outbox that startup replays.
LEMMA ReportIsOnItsWay ==
    ASSUME Typed, IInv, NEW c \in reported, NEW p, p = parent[c], p \notin forced,
           place[p] = "waiting", c \in needs[p]
    PROVE  \/ up = "up" /\ <<p, c, "section">> \in handler
           \/ up = "down" /\ <<p, c>> \in outbox
           \/ up = "replaying" /\ <<p, c>> \in replay
<1>1. c \in Jobs /\ p \in Jobs /\ WaitsOn(p, c)
  BY DEF IInv, Typed, JobAgrees, WaitsOn
<1>2. CASE up = "up"
  BY <1>1, <1>2 DEF IInv, Reports
<1>3. CASE up = "replaying"
  BY <1>1, <1>3 DEF IInv, Reports
<1>4. CASE up = "down"
  <2>1. setting.links = {}
    BY <1>4 DEF IInv, Ordinary
  <2>2. row[p] = "waiting-children"
    BY <1>1, <2>1 DEF IInv, JobAgrees
  <2> QED
    BY <1>1, <1>4, <2>1, <2>2 DEF IInv, Reports
<1> QED
  BY <1>2, <1>3, <1>4 DEF IInv, Typed

\* The failure of a child is not lost on the way to its parent, whatever crashes
\* and restarts come between the transaction that records it and the sections of
\* the handler; where nobody retries jobs out of the DLQ.
THEOREM FailuresReachParents ==
    ASSUME \A s \in Settings : Ordinary(s) /\ "retry" \notin s.hazards
    PROVE  Spec => []FailureReachesParent
<1> DEFINE Unforced == setting \in Settings /\ forced = {}
<1>1. Init => Unforced
  BY DEF Init
<1>2. Unforced /\ [Next]_vars => Unforced'
  <2> USE DEF vars, system, memory, disk, histories
  <2>1. ASSUME NEW j \in Jobs, Unforced, RetryDlq(j) PROVE FALSE
    BY <2>1 DEF RetryDlq, May
  <2>2. ASSUME Unforced, Next PROVE UNCHANGED <<setting, forced>>
    <3>1. ASSUME NEW j \in Jobs, Outcomes(j) PROVE UNCHANGED <<setting, forced>>
      BY <2>1, <2>2, <3>1 DEF Outcomes, Pull, Complete, Retry, Fail, Bury
    <3>2. ASSUME NEW j \in Jobs, Cancel(j) \/ DropStale(j) \/ Detach(j)
          PROVE UNCHANGED <<setting, forced>>
      BY <3>2 DEF Cancel, DropStale, Discard, Detach
    <3>3. ASSUME NEW k \in Checkers, Snapshot(k) \/ Checking(k)
          PROVE UNCHANGED <<setting, forced>>
      BY <3>3 DEF Checking, Snapshot, Check, FinishCheck
    <3>4. ASSUME NEW p \in Jobs, NEW c \in Jobs, Section(p, c) \/ Promote(p, c)
          PROVE UNCHANGED <<setting, forced>>
      BY <3>4 DEF Section, Promote, ParentLeft, FailParent, FreeParent, RemoveFromParent
    <3>5. ASSUME Crash \/ Startup PROVE UNCHANGED <<setting, forced>>
      BY <3>5 DEF Crash, Startup, Recover, Replay, Serve
    <3>6. ASSUME NEW S, Push(S) PROVE UNCHANGED <<setting, forced>>
      BY <3>6 DEF Push
    <3>7. ASSUME NEW c, NEW p, AddChild(c, p) \/ Link(c, p)
          PROVE UNCHANGED <<setting, forced>>
      BY <3>7 DEF AddChild, Link
    <3> QED
      BY <2>2, <3>1, <3>2, <3>3, <3>4, <3>5, <3>6, <3>7 DEF Next
  <2> QED
    BY <2>2
<1>3. Typing /\ IInv /\ Unforced => FailureReachesParent
  BY TypingTyped, ReportIsOnItsWay DEF FailureReachesParent
<1>4. Spec => []IInv
  BY Invariance
<1> QED
  BY <1>1, <1>2, <1>3, <1>4, TypingInvariant, PTL DEF Spec
=============================================================================
