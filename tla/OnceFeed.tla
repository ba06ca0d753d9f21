------------------------------ MODULE OnceFeed ------------------------------
(***************************************************************************)
(* What push reporting promises about usage snapshots: the receiver stores *)
(* each of them at most once, in the order of their ids, and passes one    *)
(* over only if retention has removed it from the reporting machine.       *)
(***************************************************************************)
EXTENDS Integers

CONSTANT MaxUsage  \* bound on snapshots

VARIABLES
  usage,   \* ids of the snapshots the reporting machine keeps
  lastId,  \* the last id it gave out
  stored   \* how often the receiver stores each snapshot

vars == <<usage, lastId, stored>>

Id == 1..MaxUsage

Init == usage = {} /\ lastId = 0 /\ stored = [i \in Id |-> 0]

Append ==
  /\ lastId < MaxUsage
  /\ lastId' = lastId + 1 /\ usage' = usage \cup {lastId'}
  /\ UNCHANGED stored

Retain(i) ==
  /\ usage' = usage \ {i}
  /\ UNCHANGED <<lastId, stored>>

\* The next snapshots after those delivered, without a gap but for removed ones.
InOrder(S) ==
  \A i \in S, j \in Id :
    /\ stored[j] > 0 => j < i
    /\ j < i => j \in S \/ stored[j] > 0 \/ j \notin usage

Deliver(S) ==
  /\ S # {} /\ S \subseteq 1..lastId /\ InOrder(S)
  /\ stored' = [i \in Id |-> stored[i] + (IF i \in S THEN 1 ELSE 0)]
  /\ UNCHANGED <<usage, lastId>>

Next ==
  \/ Append
  \/ \E i \in usage : Retain(i)
  \/ \E S \in SUBSET Id : Deliver(S)

Spec == Init /\ [][Next]_vars
=============================================================================
