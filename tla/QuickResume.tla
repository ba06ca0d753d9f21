----------------------------- MODULE QuickResume -----------------------------
(***************************************************************************)
(* Quick Resume: a web process runs the host's recovery script, which      *)
(* makes the tmux sessions of a roster that are missing and types each     *)
(* one's launch command (recovery.rs; the script's helpers are pinned to   *)
(* tests/fixtures/resume_tron_transactional_helpers.sh).  Processes,       *)
(* scripts and users share one tmux server.                                *)
(***************************************************************************)
EXTENDS Integers

CONSTANTS
  Server,      \* web processes of the host
  NumUnit,     \* the roster: units 1..NumUnit, each with a session's name
  Unlocked,    \* nobody holds the runtime lock
  MaxRun,      \* bound on the scripts that are started
  MaxUser,     \* bound on what users do to the sessions
  MaxRunFault  \* bound on failed commands, kills and crashes

ASSUME QuickResumeAssumption ==
  /\ NumUnit \in Nat \ {0} /\ MaxRun \in Nat /\ MaxUser \in Nat /\ MaxRunFault \in Nat
  /\ Unlocked \notin Server

VARIABLES
  phase,      \* RecoveryStatus.phase of each process, and the run it waits for
  runLock,    \* who holds the runtime lock
  script,     \* the scripts: [at, unit, created, failures, term]
  sessions,   \* by id: [name, by, typed]; name 0 when there is none
  orphaned,   \* history: a process died and left its script running
  torn,       \* history: a script was killed, or lost the id of its session
  notKilled,  \* history: sessions a rollback failed to kill
  userActs, runFaults

historyVars == <<orphaned, torn, notKilled>>
resumeVars == <<phase, runLock, script, sessions, historyVars, userActs, runFaults>>

Unit == 1..NumUnit
Run == 1..MaxRun
User == 0
SessionId == 1..(MaxRun * NumUnit + MaxUser)

NoScript == [at |-> "none", unit |-> 0, created |-> 0, failures |-> 0, term |-> "none"]
NoSession == [name |-> 0, by |-> 0, typed |-> {}]

ResumeInit ==
  /\ phase = [w \in Server |-> [is |-> "idle", run |-> 0]]
  /\ runLock = Unlocked
  /\ script = [r \in Run |-> NoScript]
  /\ sessions = [i \in SessionId |-> NoSession]
  /\ orphaned = FALSE /\ torn = FALSE /\ notKilled = {} /\ userActs = 0 /\ runFaults = 0

----------------------------------------------------------------------------
(* The tmux server.  Ids are not given out again. *)

Named(name) == {i \in SessionId : sessions[i].name = name}
FreshId == CHOOSE i \in SessionId :
             sessions[i] = NoSession /\ \A j \in SessionId : j < i => sessions[j] # NoSession

\* A session that is gone keeps its id.
KillSession(i) == [sessions EXCEPT ![i].name = -1]

NewSession(name, by) == [sessions EXCEPT ![FreshId] = [name |-> name, by |-> by, typed |-> {}]]

TypeInto(i, who) == [sessions EXCEPT ![i].typed = @ \cup {who}]

UserActs ==
  /\ userActs < MaxUser /\ userActs' = userActs + 1
  /\ \/ \E i \in SessionId : sessions[i].name > 0 /\ sessions' = KillSession(i)
     \/ \E n \in Unit : Named(n) = {} /\ sessions' = NewSession(n, User)
     \* Renamed to something that is not in the roster.
     \/ \E i \in SessionId : sessions[i].name > 0 /\ sessions' = [sessions EXCEPT ![i].name = NumUnit + 1]
  /\ UNCHANGED <<phase, runLock, script, historyVars, runFaults>>

----------------------------------------------------------------------------
(* The script.  Its current unit has created the session whose id it kept. *)

Alive(r) == script[r].at \notin {"none", "exited"}

NextUnit(s) ==
  IF s.unit = NumUnit THEN [s EXCEPT !.at = "exited", !.created = 0]
  ELSE [s EXCEPT !.at = "has", !.unit = @ + 1, !.created = 0]

Exited(s, status) == [s EXCEPT !.at = "exited", !.failures = status]

\* session_belongs_to_unit
Belongs(r) ==
  script[r].created # 0 /\ sessions[script[r].created].name = script[r].unit

Fail(r) ==
  /\ script' = [script EXCEPT ![r].at = "fail"]
  /\ UNCHANGED sessions

\* The end of fail_unit, called by a command or by resume_signal_trap.
UnitFailed(s) ==
  IF s.term = "trapped" THEN [Exited(s, 143) EXCEPT !.created = 0]
  ELSE NextUnit([s EXCEPT !.failures = @ + 1])

\* Not interrupted: SIGTERM was not sent, or the trap runs.
Proceeds(r, at) == script[r].at = at /\ script[r].term # "sent"

\* fail_unit rolls back by id: it asks whether the session is still the unit's,
\* and kills it by another command.  Either may fail and leave the session.
Rollback(r) ==
  /\ \/ /\ Proceeds(r, "fail")
        /\ script' = [script EXCEPT ![r] = IF Belongs(r) THEN [@ EXCEPT !.at = "kill"] ELSE UnitFailed(@)]
        /\ UNCHANGED <<sessions, notKilled, runFaults>>
     \/ /\ Proceeds(r, "kill")
        /\ script' = [script EXCEPT ![r] = UnitFailed(@)]
        /\ sessions' = IF sessions[script[r].created].name > 0 THEN KillSession(script[r].created) ELSE sessions
        /\ UNCHANGED <<notKilled, runFaults>>
     \/ /\ Proceeds(r, "fail") \/ Proceeds(r, "kill")
        /\ script[r].created # 0
        /\ runFaults < MaxRunFault /\ runFaults' = runFaults + 1
        /\ script' = [script EXCEPT ![r] = UnitFailed(@)]
        /\ notKilled' = notKilled \cup {script[r].created}
        /\ UNCHANGED sessions
  /\ UNCHANGED <<phase, runLock, orphaned, torn, userActs>>

\* new: a session of that name is preserved.
Has(r) ==
  /\ Proceeds(r, "has")
  /\ script' = [script EXCEPT ![r] = IF Named(@.unit) # {} THEN NextUnit(@) ELSE [@ EXCEPT !.at = "create"]]
  /\ UNCHANGED <<phase, runLock, sessions, historyVars, userActs, runFaults>>

\* tmux refuses a second session of the name.
Create(r) ==
  /\ Proceeds(r, "create")
  /\ IF Named(script[r].unit) # {} THEN Fail(r)
     ELSE /\ sessions' = NewSession(script[r].unit, r)
          /\ script' = [script EXCEPT ![r] = [@ EXCEPT !.at = "send", !.created = FreshId]]
  /\ UNCHANGED <<phase, runLock, historyVars, userActs, runFaults>>

\* Mutant: the launch command goes to the session's name.
TargetByName(r) ==
  IF Named(script[r].unit) = {} THEN script[r].created ELSE CHOOSE i \in Named(script[r].unit) : TRUE

Target(r) == script[r].created

\* send, and ok after it: both ask who the session belongs to, then type.
Send(r) ==
  /\ \/ /\ Proceeds(r, "send")
        /\ IF Belongs(r)
           THEN script' = [script EXCEPT ![r].at = "type"] /\ UNCHANGED sessions
           ELSE Fail(r)
     \/ /\ Proceeds(r, "type")
        /\ IF sessions[Target(r)].name > 0
           THEN /\ sessions' = TypeInto(Target(r), r)
                /\ script' = [script EXCEPT ![r].at = "finish"]
           ELSE Fail(r)
  /\ UNCHANGED <<phase, runLock, historyVars, userActs, runFaults>>

\* finish_unit: the session still exists after its launch.
Finish(r) ==
  /\ Proceeds(r, "finish")
  /\ IF Belongs(r) THEN script' = [script EXCEPT ![r] = NextUnit(@)] /\ UNCHANGED sessions ELSE Fail(r)
  /\ UNCHANGED <<phase, runLock, historyVars, userActs, runFaults>>

\* resume_signal_trap, once the command it interrupts has returned.
Trap(r) ==
  /\ Alive(r) /\ script[r].term = "sent"
  /\ script' = [script EXCEPT ![r] =
       IF @.created # 0 THEN [@ EXCEPT !.at = "fail", !.term = "trapped"] ELSE Exited(@, 143)]
  /\ UNCHANGED <<phase, runLock, sessions, historyVars, userActs, runFaults>>

\* A command fails without effect; the launched agent exits at once.
CommandFails(r) ==
  /\ runFaults < MaxRunFault /\ runFaults' = runFaults + 1
  /\ \E at \in {"create", "type", "finish"} : Proceeds(r, at)
  /\ Fail(r)
  /\ UNCHANGED <<phase, runLock, historyVars, userActs>>

\* SIGTERM finds the script waiting for tmux new-session, whose output is lost.
CreateTorn(r) ==
  /\ script[r].at = "create" /\ script[r].term = "sent" /\ Named(script[r].unit) = {}
  /\ runFaults < MaxRunFault /\ runFaults' = runFaults + 1
  /\ sessions' = NewSession(script[r].unit, r)
  /\ script' = [script EXCEPT ![r] = Exited(@, 143)]
  /\ torn' = TRUE
  /\ UNCHANGED <<phase, runLock, orphaned, notKilled, userActs>>

ScriptStep(r) == Has(r) \/ Create(r) \/ Send(r) \/ Finish(r) \/ Rollback(r) \/ Trap(r)

----------------------------------------------------------------------------
(* RecoveryRunner *)

\* The task of a run is there: its phase is Running.
Waits(w) == phase[w].is \in {"running", "terminating"}

\* Mutant: the lock file is opened and not locked.
AcquireAlways(w) == TRUE

AcquireLock(w) == runLock = Unlocked

\* start: one run per process by its phase, one per host by the lock.
StartRecovery(w) ==
  /\ ~Waits(w) /\ AcquireLock(w)
  /\ \E r \in Run :
       /\ script[r] = NoScript /\ \A q \in Run : q < r => script[q] # NoScript
       /\ phase' = [phase EXCEPT ![w] = [is |-> "running", run |-> r]]
       /\ script' = [script EXCEPT ![r] = [NoScript EXCEPT !.at = "has", !.unit = 1]]
  /\ runLock' = w
  /\ UNCHANGED <<sessions, historyVars, userActs, runFaults>>

\* The script, a command or the runtime directory fails its validation.
RefuseStart(w) ==
  /\ ~Waits(w)
  /\ runFaults < MaxRunFault /\ runFaults' = runFaults + 1
  /\ phase' = [phase EXCEPT ![w] = [is |-> "unavailable", run |-> 0]]
  /\ UNCHANGED <<runLock, script, sessions, historyVars, userActs>>

\* status: available again.
Status(w) ==
  /\ phase[w].is = "unavailable"
  /\ phase' = [phase EXCEPT ![w].is = "idle"]
  /\ UNCHANGED <<runLock, script, sessions, historyVars, userActs, runFaults>>

\* After RUN_TIMEOUT the process group is sent SIGTERM.
TimesOut(w) ==
  /\ phase[w].is = "running" /\ Alive(phase[w].run)
  /\ phase' = [phase EXCEPT ![w].is = "terminating"]
  /\ script' = [script EXCEPT ![phase[w].run].term = "sent"]
  /\ UNCHANGED <<runLock, sessions, historyVars, userActs, runFaults>>

\* A tmux new-session that a killed leader waits for may still be served.
Killed(r) ==
  /\ script' = [script EXCEPT ![r] = Exited(@, 137)]
  /\ \/ torn' = (torn \/ script[r].created # 0) /\ UNCHANGED sessions
     \/ /\ script[r].at = "create" /\ Named(script[r].unit) = {}
        /\ sessions' = NewSession(script[r].unit, r) /\ torn' = TRUE

\* After PROCESS_GROUP_GRACE what is left of the group is killed.
KillGroup(w) ==
  /\ phase[w].is = "terminating" /\ Alive(phase[w].run)
  /\ runFaults < MaxRunFault /\ runFaults' = runFaults + 1
  /\ Killed(phase[w].run)
  /\ UNCHANGED <<phase, runLock, orphaned, notKilled, userActs>>

\* The leader is reaped: run_script drops the lock, then the outcome is stored.
Reap(w) ==
  /\ Waits(w) /\ ~Alive(phase[w].run)
  /\ \/ runLock = w /\ runLock' = Unlocked /\ UNCHANGED phase
     \/ /\ runLock # w
        /\ phase' = [phase EXCEPT ![w].is =
             IF @ = "terminating" THEN "timed_out"
             ELSE IF script[phase[w].run].failures = 0 THEN "succeeded" ELSE "failed"]
        /\ UNCHANGED runLock
  /\ UNCHANGED <<script, sessions, historyVars, userActs, runFaults>>

\* The web process stops.  An orderly stop kills the script's leader
\* (kill_on_drop), a kill leaves it running (KillMode=process).
ServerStops(w) ==
  /\ Waits(w)
  /\ runFaults < MaxRunFault /\ runFaults' = runFaults + 1
  /\ phase' = [phase EXCEPT ![w] = [is |-> "idle", run |-> 0]]
  /\ runLock' = IF runLock = w THEN Unlocked ELSE runLock
  /\ \/ Alive(phase[w].run) /\ Killed(phase[w].run) /\ UNCHANGED orphaned
     \/ orphaned' = (orphaned \/ Alive(phase[w].run)) /\ UNCHANGED <<script, torn, sessions>>
  /\ UNCHANGED <<notKilled, userActs>>

----------------------------------------------------------------------------
ResumeNext ==
  \/ UserActs
  \/ \E r \in Run : ScriptStep(r) \/ CommandFails(r) \/ CreateTorn(r)
  \/ \E w \in Server :
       \/ StartRecovery(w) \/ RefuseStart(w) \/ Status(w)
       \/ TimesOut(w) \/ KillGroup(w) \/ Reap(w) \/ ServerStops(w)

ResumeSpec == ResumeInit /\ [][ResumeNext]_resumeVars

----------------------------------------------------------------------------
\* Every variable has its type.
ResumeTypeOK ==
  /\ \A w \in Server :
       /\ phase[w].is \in {"unavailable", "idle", "running", "terminating", "succeeded", "failed", "timed_out"}
       /\ phase[w].run \in Run \cup {0}
  /\ runLock \in Server \cup {Unlocked}
  /\ \A r \in Run :
       /\ script[r].at \in {"none", "has", "create", "send", "type", "finish", "fail", "kill", "exited"}
       /\ script[r].term \in {"none", "sent", "trapped"}
       /\ script[r].unit \in 0..NumUnit /\ script[r].created \in SessionId \cup {0}
  /\ \A i \in SessionId : sessions[i].name \in -1..NumUnit + 1 /\ sessions[i].by \in Run \cup {User}
  /\ notKilled \subseteq SessionId

\* Two processes, their time-outs and stops never have two scripts run at
\* once, unless a killed process left its script running; whoever waits for a
\* script that lives holds the lock.
OneRecovery ==
  /\ \A r, q \in Run : Alive(r) /\ Alive(q) /\ r # q => orphaned
  /\ \A w \in Server : Waits(w) /\ Alive(phase[w].run) => runLock = w

\* "A rerun must never type a launch command into a session that survived or
\* was already restored": scripts that overlap, users that take a name over
\* and reruns type only into what they made.  Once no script runs, a roster
\* session that a script made has had its launch command, or that script did not
\* report success: it was killed, or failed to roll the session back.
UnitsAreWhole ==
  /\ \A i \in SessionId : sessions[i].typed \subseteq {sessions[i].by} \ {User}
  /\ (\A r \in Run : ~Alive(r)) =>
       \A i \in SessionId :
         sessions[i].name \in Unit /\ sessions[i].by # User /\ sessions[i].typed = {} =>
           script[sessions[i].by].failures # 0 /\ (torn \/ i \in notKilled)
=============================================================================
