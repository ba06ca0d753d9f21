----------------------------- MODULE ResumeLease -----------------------------
(***************************************************************************)
(* Launching one saved conversation (control.rs, tmux.rs).                 *)
(*                                                                         *)
(* A saved conversation must not be resumed in two panes.  Three things    *)
(* say that it is taken: the reservation in the memory of a process, a     *)
(* lock file shared by the processes, and the lease option on the pane.    *)
(* They are checked and changed in different steps of a launch; a client   *)
(* may go away, a process may crash, another request may kill the pane.    *)
(* Conversations share nothing, so one is enough.                          *)
(***************************************************************************)
EXTENDS Integers, FiniteSets

CONSTANTS
  Web,       \* web processes of one owner
  Launch,    \* launches of the conversation, each made at most once
  Killer,    \* kill requests
  Nobody,    \* nobody
  MaxLeaseCrash,  \* bound on crashes of a process
  MaxLeaseFault  \* bound on failed tmux commands

ASSUME LeaseActors == Launch \cap Web = {} /\ Nobody \notin Launch \cup Web
ASSUME LeaseBounds == MaxLeaseCrash \in Nat /\ MaxLeaseFault \in Nat

VARIABLES
  inFlight, active,  \* ResumeLeaseState of each process
  leaseFile,     \* who holds the lock file: a task of a launch, or process_locks
  pane,     \* the pane of each launch
  scan,     \* the panes each process saw in the scan it is about to apply
  shown,    \* the panes in its overview
  lpc,      \* where each launch is
  proc,     \* the process it was made to
  guarded,  \* its ResumeLeaseGuard is alive
  kpc, kproc, victim,  \* kill requests: where, which process, which pane
  leaseCrashes, leaseFaults  \* bounded environment steps

stateVars == <<inFlight, active>>
viewVars == <<scan, shown>>
launchVars == <<lpc, proc, guarded>>
killVars == <<kpc, kproc, victim>>
leaseVars == <<stateVars, leaseFile, pane, viewVars, launchVars, killVars, leaseCrashes, leaseFaults>>

LookUp == {"lock", "check"}
Launching == {"create", "publish", "respawn", "stable"}
LeasePC == {"new", "found", "held", "done"} \cup LookUp \cup Launching

(* A placeholder carries no lease yet; it may run the agent only later.    *)
PaneState == {"none", "placeholder", "leased", "running"}

LeaseTypeOK ==
  /\ inFlight \in [Web -> BOOLEAN] /\ active \in [Web -> BOOLEAN]
  /\ leaseFile \in Web \cup Launch \cup {Nobody}
  /\ pane \in [Launch -> PaneState]
  /\ scan \in [Web -> SUBSET Launch] /\ shown \in [Web -> SUBSET Launch]
  /\ lpc \in [Launch -> LeasePC] /\ proc \in [Launch -> Web \cup {Nobody}]
  /\ guarded \in [Launch -> BOOLEAN]
  /\ kpc \in [Killer -> {"new", "kill", "release", "done"}]
  /\ kproc \in [Killer -> Web \cup {Nobody}]
  /\ victim \in [Killer -> Launch \cup {Nobody}]
  /\ leaseCrashes \in Nat /\ leaseFaults \in Nat

LeaseInit ==
  /\ inFlight = [i \in Web |-> FALSE] /\ active = [i \in Web |-> FALSE]
  /\ leaseFile = Nobody /\ pane = [r \in Launch |-> "none"]
  /\ scan = [i \in Web |-> {}] /\ shown = [i \in Web |-> {}]
  /\ lpc = [r \in Launch |-> "new"] /\ proc = [r \in Launch |-> Nobody]
  /\ guarded = [r \in Launch |-> FALSE]
  /\ kpc = [k \in Killer |-> "new"] /\ kproc = [k \in Killer |-> Nobody]
  /\ victim = [k \in Killer |-> Nobody]
  /\ leaseCrashes = 0 /\ leaseFaults = 0

-----------------------------------------------------------------------------
(* ResumeLeaseState.                                                       *)

LeaseFault == leaseFaults < MaxLeaseFault /\ leaseFaults' = leaseFaults + 1

\* Panes that carry the lease, and the agents that run the conversation.
Leased == {r \in Launch : pane[r] \in {"leased", "running"}}
Running == {r \in Launch : pane[r] = "running"}

\* release: reservation, held lock and activity of the process are dropped.
Release(i) ==
  /\ inFlight' = [inFlight EXCEPT ![i] = FALSE]
  /\ active' = [active EXCEPT ![i] = FALSE]
  /\ leaseFile' = IF leaseFile = i THEN Nobody ELSE leaseFile

\* activate, when the lock is held by process_locks or by the task r.
Activate(i, r) ==
  /\ inFlight' = [inFlight EXCEPT ![i] = FALSE]
  /\ active' = [active EXCEPT ![i] = TRUE]
  /\ leaseFile' = IF leaseFile \in {i, r} THEN Nobody ELSE leaseFile

\* Mutant: a launch ends in a state no step knows.
EndElsewhere(r) ==
  /\ lpc' = [lpc EXCEPT ![r] = "failed"]
  /\ guarded' = [guarded EXCEPT ![r] = FALSE]

End(r) ==
  /\ lpc' = [lpc EXCEPT ![r] = "done"]
  /\ guarded' = [guarded EXCEPT ![r] = FALSE]

-----------------------------------------------------------------------------
(* A launch: acquire_resume_lease, then the blocking tmux task.            *)

\* Mutant: a launch of this process that is going on is not noticed.
ReserveAgain(r, i) ==
  /\ lpc[r] = "new"
  /\ proc' = [proc EXCEPT ![r] = i]
  /\ IF active[i]
     THEN /\ lpc' = [lpc EXCEPT ![r] = "done"]
          /\ UNCHANGED <<inFlight, guarded>>
     ELSE /\ inFlight' = [inFlight EXCEPT ![i] = TRUE]
          /\ lpc' = [lpc EXCEPT ![r] = "lock"]
          /\ guarded' = [guarded EXCEPT ![r] = TRUE]
  /\ UNCHANGED <<active, leaseFile, pane, viewVars, killVars, leaseCrashes, leaseFaults>>

Reserve(r, i) ==
  /\ lpc[r] = "new"
  /\ proc' = [proc EXCEPT ![r] = i]
  /\ IF inFlight[i] \/ active[i]
     THEN /\ lpc' = [lpc EXCEPT ![r] = "done"]
          /\ UNCHANGED <<inFlight, guarded>>
     ELSE /\ inFlight' = [inFlight EXCEPT ![i] = TRUE]
          /\ lpc' = [lpc EXCEPT ![r] = "lock"]
          /\ guarded' = [guarded EXCEPT ![r] = TRUE]
  /\ UNCHANGED <<active, leaseFile, pane, viewVars, killVars, leaseCrashes, leaseFaults>>

\* Mutant: the guard was disarmed.
DropDisarmed(r) == UNCHANGED <<stateVars, leaseFile>>

\* The guard, if the client is still there, drops the reservation.
DropGuard(r) == IF guarded[r] THEN Release(proc[r]) ELSE UNCHANGED <<stateVars, leaseFile>>

\* Mutant: the lock is not exclusive.
LockFileShared(r) ==
  /\ lpc[r] = "lock" /\ leaseFile' = r
  /\ lpc' = [lpc EXCEPT ![r] = "check"]
  /\ UNCHANGED <<stateVars, guarded, pane, viewVars, proc, killVars, leaseCrashes, leaseFaults>>

\* acquire_persistent_resume_lock: taken at once, or Busy.
LockFile(r) ==
  /\ lpc[r] = "lock"
  /\ \/ /\ leaseFile = Nobody /\ leaseFile' = r
        /\ lpc' = [lpc EXCEPT ![r] = "check"]
        /\ UNCHANGED <<stateVars, guarded>>
     \/ leaseFile # Nobody /\ DropGuard(r) /\ End(r)
  /\ UNCHANGED <<pane, viewVars, proc, killVars, leaseCrashes, leaseFaults>>

(* resume_lease_active, and what becomes of its result.  Without a client  *)
(* the result, and with it the lock, is dropped.                           *)
Check(r) ==
  LET i == proc[r] IN
  /\ lpc[r] = "check" /\ guarded[r]
  /\ \/ /\ Leased = {} /\ leaseFile' = i
        /\ lpc' = [lpc EXCEPT ![r] = "held"]
        /\ UNCHANGED <<stateVars, guarded, leaseFaults>>
     \/ Leased # {} /\ Activate(i, r) /\ End(r) /\ UNCHANGED leaseFaults
     \/ /\ LeaseFault /\ End(r) /\ leaseFile' = Nobody
        /\ inFlight' = [inFlight EXCEPT ![i] = FALSE]
        /\ active' = [active EXCEPT ![i] = FALSE]
  /\ UNCHANGED <<pane, viewVars, proc, killVars, leaseCrashes>>

Abandoned(r) ==
  /\ lpc[r] = "check" /\ ~guarded[r]
  /\ leaseFile' = Nobody /\ End(r)
  /\ UNCHANGED <<stateVars, pane, viewVars, proc, killVars, leaseCrashes, leaseFaults>>

\* Mutant: the guard goes without dropping the reservation.
CancelKeeps(r) ==
  /\ lpc[r] \in LookUp \cup {"held"} /\ guarded[r]
  /\ guarded' = [guarded EXCEPT ![r] = FALSE]
  /\ lpc' = IF lpc[r] = "held" THEN [lpc EXCEPT ![r] = "done"] ELSE lpc
  /\ UNCHANGED <<stateVars, leaseFile, pane, viewVars, proc, killVars, leaseCrashes, leaseFaults>>

(* The client goes away while the launch awaits the lookup or the handover *)
(* summary: the guard is dropped, a blocking lookup runs on.               *)
CancelLaunch(r) ==
  /\ lpc[r] \in LookUp \cup {"held"} /\ guarded[r]
  /\ Release(proc[r])
  /\ guarded' = [guarded EXCEPT ![r] = FALSE]
  /\ lpc' = IF lpc[r] = "held" THEN [lpc EXCEPT ![r] = "done"] ELSE lpc
  /\ UNCHANGED <<pane, viewVars, proc, killVars, leaseCrashes, leaseFaults>>

(* The guard moves into the blocking task; from here on the launch does    *)
(* not depend on its client.                                               *)
Begin(r) ==
  /\ lpc[r] = "held"
  /\ \/ lpc' = [lpc EXCEPT ![r] = "create"] /\ UNCHANGED <<stateVars, leaseFile, guarded>>
     \/ DropGuard(r) /\ End(r)  \* prepare_handover failed
  /\ UNCHANGED <<pane, viewVars, proc, killVars, leaseCrashes, leaseFaults>>

\* launch_inner: one tmux command after the other.
TmuxStep(r, at, state, then) ==
  /\ lpc[r] = at
  /\ pane' = [pane EXCEPT ![r] = state]
  /\ lpc' = [lpc EXCEPT ![r] = then]
  /\ UNCHANGED <<stateVars, leaseFile, viewVars, proc, guarded, killVars, leaseCrashes, leaseFaults>>

Create(r) == TmuxStep(r, "create", "placeholder", "publish")
PublishLease(r) == pane[r] # "none" /\ TmuxStep(r, "publish", "leased", "respawn")
RunAgent(r) == pane[r] # "none" /\ TmuxStep(r, "respawn", "running", "stable")

\* The session is stable; the task activates the lease.
Launched(r) ==
  /\ lpc[r] = "stable" /\ pane[r] # "none"
  /\ Activate(proc[r], r)
  /\ End(r)
  /\ UNCHANGED <<pane, viewVars, proc, killVars, leaseCrashes, leaseFaults>>

(* A command fails because the pane is gone, or otherwise; the session is  *)
(* killed, unless that fails too, and the guard is dropped.                *)
LaunchFails(r) ==
  /\ lpc[r] \in Launching
  /\ IF lpc[r] # "create" /\ pane[r] = "none" THEN UNCHANGED leaseFaults ELSE LeaseFault
  /\ \E state \in {pane[r], "none"} : pane' = [pane EXCEPT ![r] = state]
  /\ DropGuard(r) /\ End(r)
  /\ UNCHANGED <<viewVars, proc, killVars, leaseCrashes>>

LaunchStep(r) ==
  \/ LockFile(r) \/ Check(r) \/ Abandoned(r) \/ Begin(r)
  \/ Create(r) \/ PublishLease(r) \/ RunAgent(r) \/ Launched(r) \/ LaunchFails(r)

-----------------------------------------------------------------------------
(* Refreshes, kills, and the end of panes and processes.                   *)

\* refresh: the scan shows every agent, and may show a leased placeholder.
Scan(i) ==
  /\ \E P \in SUBSET (Leased \ Running) : scan' = [scan EXCEPT ![i] = Running \cup P]
  /\ UNCHANGED <<stateVars, leaseFile, pane, shown, launchVars, killVars, leaseCrashes, leaseFaults>>

\* Mutant: a refresh only adds.
ObserveAdds(i) ==
  /\ active' = [active EXCEPT ![i] = @ \/ scan[i] # {}]
  /\ shown' = [shown EXCEPT ![i] = scan[i]]
  /\ UNCHANGED <<inFlight, leaseFile, pane, scan, launchVars, killVars, leaseCrashes, leaseFaults>>

\* apply_refresh and ResumeLeaseState::observe; panes may have changed since.
Observe(i) ==
  /\ active' = [active EXCEPT ![i] = scan[i] # {}]
  /\ shown' = [shown EXCEPT ![i] = scan[i]]
  /\ UNCHANGED <<inFlight, leaseFile, pane, scan, launchVars, killVars, leaseCrashes, leaseFaults>>

\* kill resolves the pane, and with it the lease, from the overview.
Resolve(k, i) ==
  /\ kpc[k] = "new"
  /\ \E p \in shown[i] : victim' = [victim EXCEPT ![k] = p]
  /\ kproc' = [kproc EXCEPT ![k] = i]
  /\ kpc' = [kpc EXCEPT ![k] = "kill"]
  /\ UNCHANGED <<stateVars, leaseFile, pane, viewVars, launchVars, leaseCrashes, leaseFaults>>

KillPane(k) ==
  LET p == victim[k] IN
  /\ kpc[k] = "kill"
  /\ IF pane[p] = "none" THEN kpc' = [kpc EXCEPT ![k] = "done"] /\ UNCHANGED pane
     ELSE /\ kpc' = [kpc EXCEPT ![k] = "release"]
          /\ pane' = [pane EXCEPT ![p] = "none"]
  /\ UNCHANGED <<stateVars, leaseFile, viewVars, launchVars, kproc, victim, leaseCrashes, leaseFaults>>

\* release_resume_lease, after the kill was awaited.
KillReleases(k) ==
  /\ kpc[k] = "release"
  /\ Release(kproc[k])
  /\ kpc' = [kpc EXCEPT ![k] = "done"]
  /\ UNCHANGED <<pane, viewVars, launchVars, kproc, victim, leaseCrashes, leaseFaults>>

\* The agent ends, or a user closes the pane.
PaneEnds(r) ==
  /\ pane[r] # "none" /\ pane' = [pane EXCEPT ![r] = "none"]
  /\ UNCHANGED <<stateVars, leaseFile, viewVars, launchVars, killVars, leaseCrashes, leaseFaults>>

\* The process dies with its memory and locks; its successor scans anew.
WebDies(i) ==
  LET lost == {r \in Launch : proc[r] = i} IN
  /\ leaseCrashes < MaxLeaseCrash /\ leaseCrashes' = leaseCrashes + 1
  /\ inFlight' = [inFlight EXCEPT ![i] = FALSE]
  /\ leaseFile' = IF leaseFile \in lost \cup {i} THEN Nobody ELSE leaseFile
  /\ scan' = [scan EXCEPT ![i] = Running]
  /\ shown' = [shown EXCEPT ![i] = Running]
  /\ active' = [active EXCEPT ![i] = Running # {}]
  /\ lpc' = [r \in Launch |-> IF r \in lost THEN "done" ELSE lpc[r]]
  /\ guarded' = [r \in Launch |-> guarded[r] /\ r \notin lost]
  /\ kpc' = [k \in Killer |-> IF kproc[k] = i THEN "done" ELSE kpc[k]]
  /\ UNCHANGED <<pane, proc, kproc, victim, leaseFaults>>

LeaseNext ==
  \/ \E r \in Launch : LaunchStep(r) \/ CancelLaunch(r) \/ PaneEnds(r)
  \/ \E r \in Launch, i \in Web : Reserve(r, i)
  \/ \E i \in Web : Scan(i) \/ Observe(i) \/ WebDies(i)
  \/ \E k \in Killer, i \in Web : Resolve(k, i)
  \/ \E k \in Killer : KillPane(k) \/ KillReleases(k)

LeaseSpec == LeaseInit /\ [][LeaseNext]_leaseVars

(* The monitor refreshes for ever, blocking tasks run to their end.        *)
LeaseFairness ==
  /\ \A r \in Launch : WF_leaseVars(LaunchStep(r))
  /\ \A i \in Web : WF_leaseVars(Scan(i)) /\ WF_leaseVars(Observe(i))
  /\ \A k \in Killer :
       WF_leaseVars(KillPane(k)) /\ WF_leaseVars(KillReleases(k))
LeaseFairSpec == LeaseSpec /\ LeaseFairness

-----------------------------------------------------------------------------
(* Properties.                                                             *)

(* The conversation runs in at most one pane, whatever scans, crashes,     *)
(* cancelled clients and failed commands do (acquire_resume_lease).        *)
OneConversation == Cardinality(Running) <= 1

(* Without a kill request, which releases the lease by its name alone, the *)
(* reservations and the lock file are enough (acquire_resume_lease).       *)
NoKill == \A k \in Killer : kpc[k] = "new"
OneConversationUnlessKilled == NoKill => OneConversation

(* A reservation or a held lock belongs to a launch that is still going    *)
(* on: no cancelled, failed or crashed launch leaves one behind            *)
(* (ResumeLeaseGuard).                                                     *)
NoLeak ==
  \A i \in Web : inFlight[i] \/ leaseFile = i =>
    \E r \in Launch : proc[r] = i /\ guarded[r]

(* When no pane carries the lease any more and no launch is going on, the  *)
(* conversation can be launched again.                                     *)
FreeAgain ==
  <>[](Leased = {} /\ \A r \in Launch : lpc[r] \in {"new", "done"}) =>
    <>[](leaseFile = Nobody /\ \A i \in Web : ~inFlight[i] /\ ~active[i])

(* A launch keeps the lock file from its check until its pane carries the  *)
(* lease, unless a kill releases it (process_locks' comment: "held until   *)
(* tmux metadata is durable").                                             *)
LockHeldUntilDurable ==
  NoKill => \A r \in Launch :
    lpc[r] \in {"held", "create", "publish"} => leaseFile = proc[r]

(* The reservations, the lock file and the lease on the pane together keep *)
(* the conversation in one pane, and none of them outlives its launch; the *)
(* variables have their types.                                             *)
LeaseSafe == LeaseTypeOK /\ OneConversationUnlessKilled /\ LockHeldUntilDurable /\ NoLeak
=============================================================================
