--------------------------- MODULE MCPulseReporter ---------------------------
(* Reporters are interchangeable.                                          *)
EXTENDS PulseReporter, TLC

Symmetry == Permutations(Reporter)
=============================================================================
