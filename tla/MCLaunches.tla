----------------------------- MODULE MCLaunches -----------------------------
(***************************************************************************)
(* The liveness of a pane's mutations and of a conversation's launches for *)
(* TLC in one run.  They share no state; part says which of them a         *)
(* behaviour is about, the other stays as it starts.                       *)
(***************************************************************************)
EXTENDS AutoCompact, ResumeLease

VARIABLE part

launchesVars == <<part, vars, leaseVars>>

LaunchesInit ==
  /\ part \in {"pane", "lease"}
  /\ Init /\ LeaseInit
  /\ part = "lease" => acMarker = None /\ log = CHOOSE l \in Log : TRUE

LaunchesNext ==
  /\ UNCHANGED part
  /\ \/ part = "pane" /\ Next /\ UNCHANGED leaseVars
     \/ part = "lease" /\ LeaseNext /\ UNCHANGED vars

(* Fairness and LeaseFairness, each for its own part.                      *)
LaunchesFairness ==
  /\ \A i \in Proc : WF_vars(part = "pane" /\ Poll(i))
  /\ \A r \in Req : WF_vars(part = "pane" /\ Mutation /\ RequestStep(r))
  /\ \A r \in Launch : WF_leaseVars(part = "lease" /\ LaunchStep(r))
  /\ \A i \in Web : WF_leaseVars(part = "lease" /\ Scan(i))
  /\ \A i \in Web : WF_leaseVars(part = "lease" /\ Observe(i))
  /\ \A k \in Killer : WF_leaseVars(part = "lease" /\ KillPane(k))
  /\ \A k \in Killer : WF_leaseVars(part = "lease" /\ KillReleases(k))

LaunchesSpec == LaunchesInit /\ [][LaunchesNext]_launchesVars /\ LaunchesFairness
=============================================================================
