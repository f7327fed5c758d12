------------------------------ MODULE MCRWLock ------------------------------
(***************************************************************************)
(* The instance of RWLock and its refinement for TLC.  Callers are not     *)
(* declared interchangeable: one of the properties is liveness.            *)
(***************************************************************************)
EXTENDS RWLockRefinement
=============================================================================
