----------------------------- MODULE MCJobFlows -----------------------------
(***************************************************************************)
(* Instances of JobFlows for TLC.                                          *)
(***************************************************************************)
EXTENDS JobFlows, TLC

CONSTANTS a, b, top, side

Plain == [storage |-> TRUE, needs |-> [j \in Jobs |-> {}], parent |-> [j \in Jobs |-> None],
          option |-> [j \in Jobs |-> "none"], removed |-> {}, batches |-> {},
          late |-> {}, links |-> {}, keep |-> Cardinality(Jobs), hazards |-> {}]

\* Two removed jobs, two that wait for them, and room for one proof.
Diamond == [Plain EXCEPT !.needs[top] = {a, b}, !.needs[side] = {a}, !.removed = {a, b}, !.keep = 1,
                         !.batches = {{a}, {b}, {top}, {side}}, !.hazards = {"restart", "stale"}]
InMemory == [Diamond EXCEPT !.storage = FALSE, !.hazards = {}]

\* A flow with one child of each option.
Flow(option) == [Plain EXCEPT !.needs[top] = {a, b}, !.parent[a] = top, !.parent[b] = top,
                              !.option[a] = option, !.batches = {{a, b, top}},
                              !.hazards = {"restart", "retry", "bury"}]
Flows == {Flow(option) : option \in Options}
         \cup {[Flow(option) EXCEPT !.removed = {b}] : option \in {"none", "fail", "continue"}}

\* A child that joins a parent which waits or is about to run.
Late == [Plain EXCEPT !.needs[top] = {a}, !.option[b] = "fail", !.late = {<<b, top>>},
                      !.batches = {{a}, {top}}, !.hazards = {"restart"}]
Linked == [Late EXCEPT !.storage = FALSE, !.late = {}, !.links = {<<b, top>>},
                       !.batches = {{a}, {b}, {top}}, !.hazards = {}]

\* Callers take jobs away.
Leaving == [Flow("none") EXCEPT !.hazards = {"restart", "cancel", "detach"}]

MCSettings == {Diamond, InMemory, Late, Linked, Leaving} \cup Flows

\* A failed child is taken out, and its sibling has completed and is removed.
MCIgnored == {[Flow("remove") EXCEPT !.removed = {b}, !.hazards = {}]}
=============================================================================
