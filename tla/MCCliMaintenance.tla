-------------------------- MODULE MCCliMaintenance --------------------------
(***************************************************************************)
(* Small instances of CliMaintenance for TLC.  The run "maintenance" has   *)
(* two in one: both processes and one pane with every fault (alone =       *)
(* None; three faults and crashes in all), and two panes with one process, *)
(* alone, that meets one crash.                                            *)
(***************************************************************************)
EXTENDS CliMaintenance, TLC

CONSTANTS i1, i2, p1, p2, c1, c2, d1, d2

OneHarness == [c \in Conv |-> 1]
TwoHarnesses == [c \in Conv |-> IF c = c1 THEN 1 ELSE 2]
Symmetry == Permutations(Proc) \cup Permutations(Pane) \cup Permutations(Digest)

VARIABLE alone

AloneInit ==
  /\ alone \in Proc \cup {None}
  /\ Init
  /\ Cardinality({p \in Pane : alive[p]}) = IF alone = None THEN 1 ELSE 2

\* The bounds of the part with two panes.
Smaller ==
  /\ \A j \in Proc \ {alone} : pc'[j] = "idle"
  /\ crashes' <= 1 /\ faults' = 0 /\ misses' = 0 /\ damages' = 0

AloneNext ==
  /\ Next /\ UNCHANGED alone
  /\ IF alone = None THEN crashes' + faults' + misses' + damages' <= 3 ELSE Smaller

AloneSpec == AloneInit /\ [][AloneNext]_<<vars, alone>>

=============================================================================
