---------------------------- MODULE MCAutoCompact ----------------------------
(***************************************************************************)
(* AutoCompact for TLC, in two instances of one run: several requests with *)
(* the polls at rest ("requests"), and one request beside the polls of     *)
(* both processes, with a crash or a fault ("polls").  part never changes. *)
(***************************************************************************)
EXTENDS AutoCompact, TLC

VARIABLE part

Made == {r \in Req : rpc[r] # "new"}

PartsInit ==
  /\ part \in {"requests", "polls"}
  /\ Init
  /\ part = "requests" => acMarker = None

RequestsOnly == part = "requests" /\ PaneNext /\ UNCHANGED compactVars

PollsToo ==
  /\ part = "polls" /\ Next
  /\ Cardinality(Made') <= 1 /\ crashes' + faults' <= 1 /\ UNCHANGED restarts

PartsSpec == PartsInit /\ [][(RequestsOnly \/ PollsToo) /\ UNCHANGED part]_<<vars, part>>

----------------------------------------------------------------------------
Symmetry == Permutations(Req) \cup Permutations(Proc) \cup Permutations(Log)
=============================================================================
