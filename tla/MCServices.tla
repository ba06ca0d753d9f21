----------------------------- MODULE MCServices -----------------------------
(***************************************************************************)
(* Five components for TLC in one run.  They share no state: part says     *)
(* which of them a behaviour is about, the others stay as they start.      *)
(***************************************************************************)
EXTENDS CliMaintenance, PulseAlerts, PulseResets, PulseMirror, FileEdit

CONSTANTS p1, c1, d1

OneHarness == [c \in Conv |-> 1]

VARIABLE part

Parts == {"maintenance", "alerts", "resets", "mirror", "file"}

ServicesInit ==
  /\ part \in Parts
  /\ Init /\ AlertInit /\ ResetInit /\ PullInit /\ FileInit
  \* One start is enough for a part that rests.
  /\ alive[p1]
  /\ part # "maintenance" => \A h \in Harness : installed[h] = d1
  /\ part # "mirror" => \A r \in Rows : source[r] = 0
  \* One inode is like another.
  /\ names.target = CHOOSE i \in Inode : TRUE

----------------------------------------------------------------------------
\* Is(m) says that the other parts' variables are unchanged.
Is(m) ==
  /\ part = m /\ UNCHANGED part
  /\ m # "maintenance" => UNCHANGED vars
  /\ m # "alerts" => UNCHANGED alertVars
  /\ m # "resets" => UNCHANGED resetVars
  /\ m # "mirror" => UNCHANGED pullVars
  /\ m # "file" => UNCHANGED editVars

ServicesNext ==
  \/ part = "maintenance" /\ Next /\ Is("maintenance")
  \/ part = "alerts" /\ AlertNext /\ Is("alerts")
  \/ part = "resets" /\ ResetNext /\ Is("resets")
  \/ part = "mirror" /\ PullNext /\ Is("mirror")
  \/ part = "file" /\ FileNext /\ Is("file")

(* The fairness of each component, for its own part; the fairness for two  *)
(* steps of the maintenance is asked of their disjunction, which is less.  *)
ServicesFairness ==
  /\ \A i \in Proc : WF_vars(part = "maintenance" /\ CycleStep(i))
  /\ \A i \in Proc : WF_vars(part = "maintenance" /\ PaneStep(i))
  /\ \A i \in Proc : SF_vars(part = "maintenance" /\ CheckDue(i, TRUE))
  /\ \A i \in Proc : SF_vars(part = "maintenance" /\ (ClaimBeforeRespawn(i) \/ Forget(i)))
  /\ \A c \in Collector : WF_alertVars(part = "alerts" /\ AlertStep(c))
  /\ WF_alertVars(part = "alerts" /\ AlertTick)
  /\ \A t \in Timer : WF_resetVars(part = "resets" /\ TimerStep(t))
  /\ WF_resetVars(part = "resets" /\ ResetTick)
  /\ \A p \in Puller : WF_pullVars(part = "mirror" /\ PullStep(p))

servicesVars == <<part, vars, alertVars, resetVars, pullVars, editVars>>

ServicesSpec == ServicesInit /\ [][ServicesNext]_servicesVars /\ ServicesFairness

----------------------------------------------------------------------------
\* The variables of the small parts have their types; a reset resumes a pane
\* once but for what excuses a repetition (ResumedOnce); editors' newest text is
\* kept through a conditional write (NewestKept).
ServicesSafe ==
  /\ AlertTypeOK /\ ResetTypeOK /\ PullTypeOK /\ FileTypeOK
  /\ ResumedOnce /\ NewestKept

\* LauncherReconciled, of the maintenance: a state file that does not exist
\* yet knows of no launcher.
LauncherKnown ==
  \A h \in Harness : <>[](part # "maintenance" \/ disk.hs[h].applied = installed[h])

\* No update is left half known, and no plan is kept for ever: the liveness of
\* the maintenance of the CLIs.
MaintenanceSettles == IntentsSettle /\ LauncherKnown /\ PlansSettle
=============================================================================
