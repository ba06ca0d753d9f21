--------------------------- MODULE LaggingReplica ---------------------------
(***************************************************************************)
(* What federation promises about one machine's panes at a coordinator:    *)
(* the coordinator shows either nothing or, exactly, a list the machine    *)
(* once had, and never an older one than it has shown before.              *)
(***************************************************************************)
EXTENDS Integers, Sequences

CONSTANT View  \* the lists of panes a machine can publish

VARIABLES
  log,   \* every list the machine has published
  held,  \* position of the list the coordinator showed last, 0 before the first
  shown  \* what it shows: {}, or the set of one list

vars == <<log, held, shown>>

Init ==
  /\ log \in {<<v>> : v \in View}
  /\ held = 0 /\ shown = {}

Publish ==
  /\ \E v \in View : log' = Append(log, v)
  /\ UNCHANGED <<held, shown>>

\* The coordinator moves on, leaving out whatever it has missed.
Follow ==
  /\ held' \in held..Len(log) \ {0}
  /\ shown' = {log[held']}
  /\ UNCHANGED log

Lose ==
  /\ shown' = {}
  /\ UNCHANGED <<log, held>>

Next == Publish \/ Follow \/ Lose

Spec == Init /\ [][Next]_vars
=============================================================================
