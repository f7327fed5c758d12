--------------------------- MODULE MCPostgresLease ---------------------------
(***************************************************************************)
(* Instances of PostgresLease for TLC.                                     *)
(***************************************************************************)
EXTENDS PostgresLease, TLC

CONSTANTS a1, a2, b1, j1, j2

\* a2 is started in place of a1, with the same brokerId.
MCIdOf == (a1 :> "a") @@ (a2 :> "a") @@ (b1 :> "b")

OneJob == [jobs |-> {j1}, processes |-> {a1, b1}, limit |-> NoLimit, stalls |-> 2,
           batch |-> 1, clock |-> 2, tokens |-> 2, hazards |-> {}]
TwoJobs == [OneJob EXCEPT !.jobs = {j1, j2}, !.stalls = 0, !.tokens = 1]

Leases == [OneJob EXCEPT !.hazards = {"renew", "close", "disconnect", "lostReply"}]
Crashes == [OneJob EXCEPT !.hazards = {"renew", "crash", "lostReply"}, !.stalls = 1, !.clock = 3]
Takeover == [OneJob EXCEPT !.hazards = {"renew", "stale"}, !.processes = {a1, a2, b1}, !.tokens = 1]
Limited == [TwoJobs EXCEPT !.hazards = {"pause"}, !.limit = 1]
Batched == [TwoJobs EXCEPT !.hazards = {"batch", "abort"}, !.batch = 2]
MCSettings == {Leases, Crashes, Takeover, Limited, Batched}

MCRecovery == {[OneJob EXCEPT !.hazards = {"crash", "abort"}, !.tokens = 1]}

Symmetry == Permutations(Connections)
=============================================================================
