------------------------------ MODULE MCUpdates ------------------------------
(***************************************************************************)
(* SelfUpdate, PulseScheduler and ClaudeTokens for TLC in one run.  They   *)
(* share no state: part says which of them a behaviour is about, the       *)
(* others stay as they start.                                              *)
(***************************************************************************)
EXTENDS SelfUpdate, PulseScheduler, ClaudeTokens

VARIABLE part

updatesVars == <<part, updateVars, schedulerVars, tokenVars>>

UpdatesInit ==
  /\ part \in {"update", "scheduler", "tokens"}
  /\ UpdateInit /\ SchedulerInit /\ TokensInit
  \* One start is enough for a part that rests.
  /\ part # "tokens" => policy = "never"

UpdatesNext ==
  /\ UNCHANGED part
  /\ \/ part = "update" /\ UpdateNext /\ UNCHANGED <<schedulerVars, tokenVars>>
     \/ part = "scheduler" /\ SchedulerNext /\ UNCHANGED <<updateVars, tokenVars>>
     \/ part = "tokens" /\ TokensNext /\ UNCHANGED <<updateVars, schedulerVars>>
     \* A scheduler that was shut down rests.
     \/ part = "scheduler" /\ loop = "stopped" /\ UNCHANGED <<updateVars, schedulerVars, tokenVars>>

(* The fairness of each component, for its own part.                       *)
UpdatesFairness ==
  /\ \A p \in Updater : WF_updateVars(part = "update" /\ Fetch(p))
  /\ \A p \in Updater : WF_updateVars(part = "update" /\ Exec(p))
  /\ \A p \in Updater : WF_updateVars(part = "update" /\ Start(p))
  /\ \A p \in Updater :
       WF_updateVars(part = "update" /\ \E t \in Task : AskApply(t, p))
  /\ \A p \in Updater, v \in Version : WF_updateVars(part = "update" /\ Report(p, v))
  /\ \A t \in Task : WF_updateVars(part = "update" /\ TaskStep(t))
  /\ WF_schedulerVars(part = "scheduler" /\ TakeDue)
  /\ WF_schedulerVars(part = "scheduler" /\ Sleeps)
  /\ SF_schedulerVars(part = "scheduler" /\ (Command \/ Joined))
  /\ \A j \in Periodic : WF_schedulerVars(part = "scheduler" /\ CollectionEnds(j))
  /\ WF_schedulerVars(part = "scheduler" /\ ForcedEnds)
  /\ WF_schedulerVars(part = "scheduler" /\ PushEnds)
  /\ \A c \in Collector : WF_tokenVars(part = "tokens" /\ CollectorStep(c))

UpdatesSpec == UpdatesInit /\ [][UpdatesNext]_updatesVars /\ UpdatesFairness

\* The variables of every part have their types, an install keeps an executable
\* in place (InstallSafe), and no refresh token is presented after it was spent
\* but for the excuses of SpentOnce.
UpdatesSafe ==
  UpdateTypeOK /\ SchedulerTypeOK /\ TokensTypeOK /\ InstallSafe /\ SpentOnce
=============================================================================
