--------------------------- MODULE MCJobDelivery ---------------------------
(***************************************************************************)
(* Instances of JobDelivery for TLC.                                       *)
(***************************************************************************)
EXTENDS JobDelivery, TLC

Symmetry == Permutations(Jobs) \cup Permutations(Clients)
=============================================================================
