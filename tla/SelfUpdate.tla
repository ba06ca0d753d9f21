------------------------------ MODULE SelfUpdate ------------------------------
(***************************************************************************)
(* A node replaces its own executable (self_update.rs).                    *)
(*                                                                         *)
(* Checks, installs and rollbacks are tasks of one process; a one-shot     *)
(* command runs the same code in a process of its own.  The executable,    *)
(* the one it replaced (<exe>.prev), the staged files and the durable      *)
(* record change by one rename, link or write after the other; the process *)
(* may die in between, and it re-executes itself some time after an        *)
(* install has reported its end.                                           *)
(*                                                                         *)
(* Abstractions.  A file is the version it contains, and equal versions    *)
(* have equal digests.  Download, digest and --version probe of the staged *)
(* file touch no other file: they are one step, which may fail.            *)
(***************************************************************************)
EXTENDS Integers, FiniteSets

CONSTANTS
  Updater,      \* processes that run the updater on this executable
  OneShot,      \* those of them that never restart: atmux self-update
  Task,         \* requests a process serves at the same time
  NoVersion,    \* no file, no version
  HardLinks,    \* whether linking works: always, or never (a file system without)
  MaxVersion,   \* bound on releases
  MaxFetch,     \* bound on checks of a process that wait for the network
  MaxRollback,  \* bound on rollbacks
  MaxUpdateCrash,  \* bound on crashes of a process
  MaxUpdateFault  \* bound on failed downloads, renames, writes and execs

ASSUME UpdateBounds ==
  /\ MaxVersion \in Nat \ {0} /\ MaxFetch \in Nat /\ MaxRollback \in Nat
  /\ MaxUpdateCrash \in Nat /\ MaxUpdateFault \in Nat
ASSUME UpdateConstants == OneShot \subseteq Updater /\ HardLinks \in BOOLEAN /\ NoVersion \notin Nat

Version == 1..MaxVersion
File == Version \cup {NoVersion}

VARIABLES
  release,   \* the latest release on GitHub
  exe, prev,  \* the executable, and <exe>.prev
  state,     \* state.json: what was applied, what it replaced, its digest
  running,   \* the version each process runs, NoVersion when it is down
  staged, aside,        \* each process's staging files: install, rollback
  busy,                 \* Shared.busy
  candidate, verified,  \* Shared.candidate, Shared.latest.verified
  fetched,   \* releases read by the checks that have not reported yet
  armed,     \* a restart of the process is scheduled
  step, at,  \* where each task is, and in which process
  wanted,    \* the version it installs or restores
  leaving,   \* the digest of the executable it replaces
  linked,    \* whether that one was linked, not moved
  rollbacks, updateCrashes, updateFaults  \* bounded steps

exeVars == <<exe, prev, staged, aside>>
sharedVars == <<busy, candidate, verified, fetched, armed>>
taskVars == <<step, at, wanted, leaving, linked>>
updateBounds == <<rollbacks, updateCrashes, updateFaults>>
updateVars == <<release, exeVars, state, running, sharedVars, taskVars, updateBounds>>

Installing == {"stage", "hash", "unlink", "link", "install", "record",
               "verify", "aside", "restore", "keep"}
TaskPC == {"idle", "check", "learn", "claim"} \cup Installing
Record == [applied : Version, previous : Version, sha : Version]

UpdateTypeOK ==
  /\ release \in Version /\ exe \in File /\ prev \in File
  /\ state \in Record \cup {NoVersion}
  /\ running \in [Updater -> File]
  /\ staged \in [Updater -> File] /\ aside \in [Updater -> File]
  /\ busy \in [Updater -> BOOLEAN]
  /\ candidate \in [Updater -> File] /\ verified \in [Updater -> BOOLEAN]
  /\ fetched \in [Updater -> SUBSET Version] /\ armed \in [Updater -> BOOLEAN]
  /\ step \in [Task -> TaskPC] /\ at \in [Task -> Updater \cup {NoVersion}]
  /\ wanted \in [Task -> File] /\ leaving \in [Task -> File]
  /\ linked \in [Task -> BOOLEAN]
  /\ rollbacks \in Nat /\ updateCrashes \in Nat /\ updateFaults \in Nat

UpdateInit ==
  /\ release = 1 /\ exe = 1 /\ prev = NoVersion /\ state = NoVersion
  /\ running = [p \in Updater |-> 1]
  /\ staged = [p \in Updater |-> NoVersion] /\ aside = [p \in Updater |-> NoVersion]
  /\ busy = [p \in Updater |-> FALSE]
  /\ candidate = [p \in Updater |-> NoVersion] /\ verified = [p \in Updater |-> FALSE]
  /\ fetched = [p \in Updater |-> {}] /\ armed = [p \in Updater |-> FALSE]
  /\ step = [t \in Task |-> "idle"] /\ at = [t \in Task |-> NoVersion]
  /\ wanted = [t \in Task |-> NoVersion] /\ leaving = [t \in Task |-> NoVersion]
  /\ linked = [t \in Task |-> FALSE]
  /\ rollbacks = 0 /\ updateCrashes = 0 /\ updateFaults = 0

-----------------------------------------------------------------------------
(* Checks.                                                                 *)

UpdateFault == updateFaults < MaxUpdateFault /\ updateFaults' = updateFaults + 1

\* Mutant: no candidate is version 0.
NewerDefault(p, v) == IF v > running[p] THEN v ELSE 0

\* select_candidate: only a release newer than the running version.
Newer(p, v) == IF v > running[p] THEN v ELSE NoVersion

Learn(p, v) ==
  /\ candidate' = [candidate EXCEPT ![p] = Newer(p, v)]
  /\ verified' = [verified EXCEPT ![p] = Newer(p, v) # NoVersion]

\* check, up to its answer from the network.
Fetch(p) ==
  /\ running[p] # NoVersion /\ ~busy[p] /\ Cardinality(fetched[p]) < MaxFetch
  /\ fetched' = [fetched EXCEPT ![p] = @ \cup {release}]
  /\ UNCHANGED <<release, exeVars, state, running, busy, candidate, verified, armed,
                 taskVars, updateBounds>>

(* The end of check.  An error leaves the candidate; a signature that does *)
(* not verify leaves it too, but marks the latest release unverified.      *)
Outcome(p, v) ==
  \/ Learn(p, v) /\ UNCHANGED updateFaults
  \/ UpdateFault /\ UNCHANGED candidate
     /\ verified' \in {verified, [verified EXCEPT ![p] = FALSE]}

\* It does not matter what was started or reported meanwhile.
Report(p, v) ==
  /\ v \in fetched[p] /\ fetched' = [fetched EXCEPT ![p] = @ \ {v}]
  /\ Outcome(p, v)
  /\ UNCHANGED <<release, exeVars, state, running, busy, armed, taskVars, rollbacks,
                 updateCrashes>>

-----------------------------------------------------------------------------
(* apply.                                                                  *)

Move(t, from, to) == step[t] = from /\ step' = [step EXCEPT ![t] = to]

\* The task answers; what it carried is dropped.
Answer(t) ==
  /\ step' = [step EXCEPT ![t] = "idle"]
  /\ at' = [at EXCEPT ![t] = NoVersion]
  /\ wanted' = [wanted EXCEPT ![t] = NoVersion]
  /\ leaving' = [leaving EXCEPT ![t] = NoVersion]
  /\ linked' = [linked EXCEPT ![t] = FALSE]

AskApply(t, p) ==
  /\ step[t] = "idle" /\ running[p] # NoVersion /\ ~busy[p]
  /\ step' = [step EXCEPT ![t] = IF candidate[p] = NoVersion THEN "check" ELSE "claim"]
  /\ at' = [at EXCEPT ![t] = p]
  /\ UNCHANGED <<release, exeVars, state, running, sharedVars, wanted, leaving, linked,
                 updateBounds>>

\* apply found no candidate and checks first: up to the network's answer ...
CheckFirst(t) ==
  LET p == at[t] IN
  /\ step[t] = "check"
  /\ \/ busy[p] /\ Answer(t)
     \/ ~busy[p] /\ Move(t, "check", "learn")
        /\ wanted' = [wanted EXCEPT ![t] = release]
        /\ UNCHANGED <<at, leaving, linked>>
  /\ UNCHANGED <<release, exeVars, state, running, sharedVars, updateBounds>>

\* ... and the rest; a check that fails is no error of apply.
LearnFirst(t) ==
  LET p == at[t] IN
  /\ Move(t, "learn", "claim")
  /\ wanted' = [wanted EXCEPT ![t] = NoVersion]
  /\ Outcome(p, wanted[t])
  /\ UNCHANGED <<release, exeVars, state, running, busy, fetched, armed, at, leaving,
                 linked, rollbacks, updateCrashes>>

\* Mutant: the claim does not look at busy again.
ClaimTwice(t) ==
  LET p == at[t] IN
  /\ step[t] = "claim"
  /\ IF candidate[p] = NoVersion \/ ~verified[p]
     THEN Answer(t) /\ UNCHANGED busy
     ELSE /\ busy' = [busy EXCEPT ![p] = TRUE]
          /\ wanted' = [wanted EXCEPT ![t] = candidate[p]]
          /\ Move(t, "claim", "stage")
          /\ UNCHANGED <<at, leaving, linked>>
  /\ UNCHANGED <<release, exeVars, state, running, candidate, verified, fetched, armed,
                 updateBounds>>

\* The candidate is read and busy is claimed under one lock.
ClaimUpdater(t) ==
  LET p == at[t] IN
  /\ step[t] = "claim"
  /\ IF busy[p] \/ candidate[p] = NoVersion \/ ~verified[p]
     THEN Answer(t) /\ UNCHANGED busy
     ELSE /\ busy' = [busy EXCEPT ![p] = TRUE]
          /\ wanted' = [wanted EXCEPT ![t] = candidate[p]]
          /\ Move(t, "claim", "stage")
          /\ UNCHANGED <<at, leaving, linked>>
  /\ UNCHANGED <<release, exeVars, state, running, candidate, verified, fetched, armed,
                 updateBounds>>

\* finish
EndTask(t) == Answer(t) /\ busy' = [busy EXCEPT ![at[t]] = FALSE]

\* The steps of a task that has the claim and changes files only.
FileStep ==
  UNCHANGED <<release, state, running, sharedVars, at, updateBounds>>

\* install: download, verify, probe.
Stage(t) ==
  /\ Move(t, "stage", "hash")
  /\ staged' = [staged EXCEPT ![at[t]] = wanted[t]]
  /\ FileStep /\ UNCHANGED <<exe, prev, aside, wanted, leaving, linked>>

Hash(t) ==
  /\ exe # NoVersion /\ Move(t, "hash", "unlink")
  /\ leaving' = [leaving EXCEPT ![t] = exe]
  /\ FileStep /\ UNCHANGED <<exeVars, wanted, linked>>

\* swap_into_place
Unlink(t) ==
  /\ Move(t, "unlink", "link")
  /\ prev' = NoVersion
  /\ FileStep /\ UNCHANGED <<exe, staged, aside, wanted, leaving, linked>>

\* Mutant: two renames.
LinkMoves(t) ==
  /\ exe # NoVersion /\ Move(t, "link", "install")
  /\ prev' = exe /\ exe' = NoVersion
  /\ linked' = [linked EXCEPT ![t] = FALSE]
  /\ FileStep /\ UNCHANGED <<staged, aside, wanted, leaving>>

Link(t) ==
  /\ exe # NoVersion /\ Move(t, "link", "install")
  /\ prev' = exe
  /\ LET can == HardLinks /\ prev = NoVersion IN
       /\ linked' = [linked EXCEPT ![t] = can]
       /\ exe' = IF can THEN exe ELSE NoVersion
  /\ FileStep /\ UNCHANGED <<staged, aside, wanted, leaving>>

InstallStaged(t) ==
  LET p == at[t] IN
  /\ Move(t, "install", "record") /\ staged[p] # NoVersion
  /\ exe' = staged[p] /\ staged' = [staged EXCEPT ![p] = NoVersion]
  /\ FileStep /\ UNCHANGED <<prev, aside, wanted, leaving, linked>>

-----------------------------------------------------------------------------
(* rollback.                                                               *)

AskRollback(t, p) ==
  /\ step[t] = "idle" /\ running[p] # NoVersion /\ ~busy[p] /\ prev # NoVersion
  /\ rollbacks < MaxRollback /\ rollbacks' = rollbacks + 1
  /\ busy' = [busy EXCEPT ![p] = TRUE]
  /\ step' = [step EXCEPT ![t] = "verify"]
  /\ at' = [at EXCEPT ![t] = p]
  /\ UNCHANGED <<release, exeVars, state, running, candidate, verified, fetched, armed,
                 wanted, leaving, linked, updateCrashes, updateFaults>>

\* Mutant: the record is not compared.
RestorableAny == state # NoVersion

\* install_rollback: <exe>.prev is still the file that was set aside.
Restorable == state # NoVersion /\ prev = state.sha

Verify(t) ==
  /\ step[t] = "verify"
  /\ IF Restorable
     THEN /\ Move(t, "verify", "aside")
          /\ wanted' = [wanted EXCEPT ![t] = prev]
          /\ UNCHANGED <<at, leaving, linked, busy>>
     ELSE EndTask(t)
  /\ UNCHANGED <<release, exeVars, state, running, candidate, verified, fetched, armed,
                 updateBounds>>

\* restore_previous
SetAside(t) ==
  LET p == at[t] IN
  /\ exe # NoVersion /\ Move(t, "aside", "restore")
  /\ aside' = [aside EXCEPT ![p] = exe]
  /\ leaving' = [leaving EXCEPT ![t] = exe]
  /\ linked' = [linked EXCEPT ![t] = HardLinks]
  /\ exe' = IF HardLinks THEN exe ELSE NoVersion
  /\ FileStep /\ UNCHANGED <<prev, staged, wanted>>

Restore(t) ==
  /\ prev # NoVersion /\ Move(t, "restore", "keep")
  /\ exe' = prev /\ prev' = NoVersion
  /\ FileStep /\ UNCHANGED <<staged, aside, wanted, leaving, linked>>

KeepReplaced(t) ==
  LET p == at[t] IN
  /\ Move(t, "keep", "record")
  /\ prev' = aside[p] /\ aside' = [aside EXCEPT ![p] = NoVersion]
  /\ FileStep /\ UNCHANGED <<exe, staged, wanted, leaving, linked>>

-----------------------------------------------------------------------------
(* The end of both.                                                        *)

\* Mutant: the digest recorded is that of the new executable.
RecordOf(t) == [applied |-> wanted[t], previous |-> running[at[t]], sha |-> wanted[t]]

\* record_applied names the version of this process as the one replaced.
Recorded(t) == [applied |-> wanted[t], previous |-> running[at[t]], sha |-> leaving[t]]

\* Mutant: no restart.
RecordSilent(t) ==
  /\ step[t] = "record" /\ state' = Recorded(t)
  /\ EndTask(t)
  /\ UNCHANGED <<release, exeVars, running, candidate, verified, fetched, armed, updateBounds>>

\* record_applied, restart, finish.
RecordApplied(t) ==
  /\ step[t] = "record"
  /\ state' = Recorded(t)
  /\ armed' = [armed EXCEPT ![at[t]] = at[t] \notin OneShot]
  /\ EndTask(t)
  /\ UNCHANGED <<release, exeVars, running, candidate, verified, fetched, updateBounds>>

(* A step fails.  A failed rename of the new executable is undone; a       *)
(* rollback that cannot read what it set aside, or keep it, just stops.    *)
TaskFails(t) ==
  LET p == at[t] IN
  /\ step[t] \in Installing
  /\ IF exe = NoVersion /\ step[t] \in {"hash", "link", "aside"} THEN UNCHANGED updateFaults ELSE UpdateFault
  /\ CASE step[t] \in {"stage", "hash", "unlink", "link"} ->
            staged' \in {staged, [staged EXCEPT ![p] = NoVersion]}
            /\ UNCHANGED <<exe, prev, aside>>
       [] step[t] = "install" ->
            /\ IF linked[t] THEN UNCHANGED exe ELSE exe' = prev
            /\ prev' = NoVersion /\ UNCHANGED <<staged, aside>>
       [] step[t] = "restore" ->
            \/ /\ IF linked[t] THEN UNCHANGED exe ELSE exe' = aside[p]
               /\ aside' = [aside EXCEPT ![p] = NoVersion]
               /\ UNCHANGED <<prev, staged>>
            \/ UNCHANGED exeVars
       [] OTHER -> UNCHANGED exeVars
  /\ EndTask(t)
  /\ UNCHANGED <<release, state, running, candidate, verified, fetched, armed, rollbacks,
                 updateCrashes>>

TaskStep(t) ==
  \/ CheckFirst(t) \/ LearnFirst(t) \/ ClaimUpdater(t) \/ Stage(t) \/ Hash(t) \/ Unlink(t)
  \/ Link(t) \/ InstallStaged(t) \/ Verify(t) \/ SetAside(t) \/ Restore(t) \/ KeepReplaced(t)
  \/ RecordApplied(t) \/ TaskFails(t)

-----------------------------------------------------------------------------
(* Processes.                                                              *)

\* The memory of p, and its tasks, are gone.
Lost(p) ==
  LET gone == {t \in Task : at[t] = p} IN
  /\ busy' = [busy EXCEPT ![p] = FALSE]
  /\ candidate' = [candidate EXCEPT ![p] = NoVersion]
  /\ verified' = [verified EXCEPT ![p] = FALSE]
  /\ fetched' = [fetched EXCEPT ![p] = {}]
  /\ armed' = [armed EXCEPT ![p] = FALSE]
  /\ step' = [t \in Task |-> IF t \in gone THEN "idle" ELSE step[t]]
  /\ at' = [t \in Task |-> IF t \in gone THEN NoVersion ELSE at[t]]
  /\ wanted' = [t \in Task |-> IF t \in gone THEN NoVersion ELSE wanted[t]]
  /\ leaving' = [t \in Task |-> IF t \in gone THEN NoVersion ELSE leaving[t]]
  /\ linked' = [t \in Task |-> t \notin gone /\ linked[t]]

\* The restart task: exec replaces the process, whatever it is doing.
Exec(p) ==
  /\ armed[p]
  /\ \/ /\ exe # NoVersion /\ running' = [running EXCEPT ![p] = exe]
        /\ Lost(p) /\ UNCHANGED updateFaults
     \/ /\ IF exe = NoVersion THEN UNCHANGED updateFaults ELSE UpdateFault
        /\ armed' = [armed EXCEPT ![p] = FALSE]
        /\ UNCHANGED <<running, busy, candidate, verified, fetched, taskVars>>
  /\ UNCHANGED <<release, exeVars, state, rollbacks, updateCrashes>>

UpdaterDies(p) ==
  /\ running[p] # NoVersion /\ updateCrashes < MaxUpdateCrash /\ updateCrashes' = updateCrashes + 1
  /\ running' = [running EXCEPT ![p] = NoVersion]
  /\ Lost(p)
  /\ UNCHANGED <<release, exeVars, state, rollbacks, updateFaults>>

\* The supervisor starts what is at the executable's path.
Start(p) ==
  /\ running[p] = NoVersion /\ exe # NoVersion
  /\ running' = [running EXCEPT ![p] = exe]
  /\ UNCHANGED <<release, exeVars, state, sharedVars, taskVars, updateBounds>>

PublishRelease ==
  /\ release < MaxVersion /\ release' = release + 1
  /\ UNCHANGED <<exeVars, state, running, sharedVars, taskVars, updateBounds>>

UpdateNext ==
  \/ PublishRelease
  \/ \E p \in Updater : Fetch(p) \/ Exec(p) \/ UpdaterDies(p) \/ Start(p)
  \/ \E p \in Updater, v \in Version : Report(p, v)
  \/ \E t \in Task, p \in Updater : AskApply(t, p) \/ AskRollback(t, p)
  \/ \E t \in Task : TaskStep(t)

UpdateSpec == UpdateInit /\ [][UpdateNext]_updateVars

(* spawn_background with auto_apply: it checks, and applies what it found, *)
(* again and again; a service is restarted by its supervisor.              *)
UpdateFairness ==
  /\ \A p \in Updater :
       /\ WF_updateVars(Fetch(p)) /\ WF_updateVars(Exec(p))
       /\ WF_updateVars(Start(p))
       /\ WF_updateVars(\E t \in Task : AskApply(t, p))
  /\ \A p \in Updater, v \in Version : WF_updateVars(Report(p, v))
  /\ \A t \in Task : WF_updateVars(TaskStep(t))
UpdateFairSpec == UpdateSpec /\ UpdateFairness

-----------------------------------------------------------------------------
(* Properties.                                                             *)

(* An executable is always there, so that whenever the process dies its    *)
(* supervisor finds one (swap_into_place, "without the path ever going     *)
(* missing").                                                              *)
ExecutableStays == exe # NoVersion

(* Two simultaneous requests must not both reach the renames: the comment  *)
(* in apply.                                                               *)
OneInstall ==
  \A t, u \in Task : t # u /\ step[t] \in Installing /\ step[u] \in Installing =>
    at[t] # at[u]

(* A rollback puts back the very file that the record says was set aside,  *)
(* also when a crash has fallen between the renames and the record of an   *)
(* earlier install (install_rollback).                                     *)
RollbackIsRecorded ==
  [][\A t \in Task : step[t] = "restore" /\ Restore(t) => prev = state.sha]_updateVars

(* An install that was not interrupted leaves what it replaced next to the *)
(* executable and on record, so that it can be rolled back: not the new    *)
(* one, and not what another task put there.                               *)
AppliedIsReversible ==
  [][\A t \in Task : step[t] = "record" /\ RecordApplied(t) =>
       prev = leaving[t] /\ prev = state'.sha /\ exe = wanted[t]]_updateVars

(* The files never leave the machine without an executable or with two     *)
(* hands on it, whatever crashes and failed renames do (swap_into_place).  *)
InstallSafe == ExecutableStays /\ OneInstall

(* The record and <exe>.prev tell the truth whenever they are acted on: at *)
(* a rollback, and when an install reports its end (install_rollback).     *)
RecordsAreTrue == RollbackIsRecorded /\ AppliedIsReversible

(* Once releases, crashes, failures and rollbacks have stopped, every      *)
(* service runs the latest release, although a download, a rename or the   *)
(* exec failed, or the process died in the middle.                         *)
UpToDate == \A p \in Updater \ OneShot : <>[](running[p] = release)
=============================================================================
