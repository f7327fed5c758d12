----------------------------- MODULE MCLongPoll -----------------------------
(***************************************************************************)
(* Instances of LongPoll for TLC.                                          *)
(***************************************************************************)
EXTENDS LongPoll

\* Everything at once; and what NoLostWakeup is promised under, which is polls
\* that leave or jobs with a delay, but not both.
MCHazardSets == {{"leave", "delay", "pause", "silent"}, {"leave"}, {"delay"}}
=============================================================================
