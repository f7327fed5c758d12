---------------------------- MODULE MCJobStorage ----------------------------
(***************************************************************************)
(* Instances of JobStorage for TLC.                                        *)
(***************************************************************************)
EXTENDS JobStorage, TLC

MCSettings ==
    {[attempts |-> 2, stalls |-> 2, stops |-> 2, hazards |-> {"crash", "flush"}],
     [attempts |-> 1, stalls |-> 2, stops |-> 1, hazards |-> {"crash", "flush", "write"}],
     [attempts |-> 2, stalls |-> 2, stops |-> 1, hazards |-> {"crash", "torn"}]}
=============================================================================
