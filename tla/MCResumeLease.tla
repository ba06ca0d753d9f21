---------------------------- MODULE MCResumeLease ----------------------------
(* Small instances of ResumeLease for TLC.                                 *)
EXTENDS ResumeLease, TLC

Symmetry == Permutations(Launch) \cup Permutations(Web) \cup Permutations(Killer)
=============================================================================
