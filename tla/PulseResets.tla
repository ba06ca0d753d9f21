---------------------------- MODULE PulseResets ----------------------------
(***************************************************************************)
(* Resumes after a rate limit (pulse/reset.rs and the store's reset jobs): *)
(* a rate-limited observation leaves one durable job per reset time; the   *)
(* timer of a process claims what is due under a lease, notifies and marks *)
(* what arrived as delivered.                                              *)
(*                                                                         *)
(* Two timers (processes) may share the store.  Times are counted down     *)
(* relative to now.                                                        *)
(***************************************************************************)
EXTENDS Integers, Sequences, FiniteSets

CONSTANTS
  Timer,          \* processes that run the reset scheduler
  ResetTime,      \* reset times of the profile, the keys of the jobs
  Lease,          \* length of a delivery lease
  MaxSleep,       \* longest sleep of a timer
  MaxResetFault   \* bound on crashes, failed deliveries and store errors

ASSUME ResetAssumption ==
  /\ {Lease, MaxSleep, MaxResetFault} \subseteq Nat \ {0}
  /\ IsFiniteSet(Timer) /\ IsFiniteSet(ResetTime) /\ 0 \notin ResetTime

VARIABLES
  jobs,         \* reset time -> [state, due, lease], the stored row
  taken,      \* per timer: jobs claimed and not yet notified, in order
  notified,     \* per timer: the job just notified, and whether it arrived
  sleep,        \* per timer: time until it wakes, 0 while it works
  channel,      \* the notification channel is available
  reached,      \* deliveries of a job since it was scheduled (observer)
  excuses,      \* reasons a delivery of it may be repeated (observer)
  resetFaults   \* faults so far

resetVars == <<jobs, taken, notified, sleep, channel, reached, excuses, resetFaults>>

NoJob == [state |-> "none", due |-> 0, lease |-> 0]
Nothing == [job |-> 0, ok |-> FALSE]

ResetInit ==
  /\ jobs = [j \in ResetTime |-> NoJob]
  /\ taken = [t \in Timer |-> <<>>]
  /\ notified = [t \in Timer |-> Nothing]
  /\ sleep = [t \in Timer |-> 0]
  /\ channel = TRUE
  /\ reached = [j \in ResetTime |-> 0]
  /\ excuses = [j \in ResetTime |-> 0]
  /\ resetFaults = 0

ResetFault == resetFaults < MaxResetFault /\ resetFaults' = resetFaults + 1
Pending == {j \in ResetTime : jobs[j].state = "pending"}
Held == UNION {{notified[t].job} \cup {taken[t][i] : i \in DOMAIN taken[t]} : t \in Timer}
Excused(S) == excuses' = [j \in ResetTime |-> excuses[j] + (IF j \in S THEN 1 ELSE 0)]

----------------------------------------------------------------------------
(* The collector and the user                                              *)

\* schedule_reset_resume: a row that is pending or delivered is kept; one that
\* was cancelled is reset, under the same id.
Schedule(j) ==
  /\ jobs[j].state \in {"none", "cancelled"}
  /\ IF jobs[j].state = "cancelled" THEN ResetFault ELSE UNCHANGED resetFaults
  /\ \E due \in {0, 1} : jobs' = [jobs EXCEPT ![j] = [state |-> "pending", due |-> due, lease |-> 0]]
  /\ Excused({j} \cap Held)
  /\ reached' = [reached EXCEPT ![j] = 0]
  /\ UNCHANGED <<taken, notified, sleep, channel>>

\* cancel: every pending job of the profile, whoever holds its lease.
Cancel ==
  /\ Pending # {}
  /\ jobs' = [j \in ResetTime |->
       IF j \in Pending THEN [jobs[j] EXCEPT !.state = "cancelled", !.lease = 0] ELSE jobs[j]]
  /\ sleep' = [t \in Timer |-> 0]
  /\ UNCHANGED <<taken, notified, channel, reached, excuses, resetFaults>>

----------------------------------------------------------------------------
(* run_scheduler                                                           *)

Awake(t) == sleep[t] = 0 /\ taken[t] = <<>> /\ notified[t] = Nothing

\* Mutant: a lease does not keep others from claiming.
ClaimableLeased(j) == j \in Pending /\ jobs[j].due = 0

Claimable(j) == j \in Pending /\ jobs[j].due = 0 /\ jobs[j].lease = 0

\* next_delay, with a floor of one for what is due and cannot be delivered.
Delay(table) ==
  LET ready == {IF table[j].due > table[j].lease THEN table[j].due ELSE table[j].lease :
                  j \in {k \in ResetTime : table[k].state = "pending"}}
      soonest == IF ready = {} THEN MaxSleep ELSE CHOOSE d \in ready : \A e \in ready : d <= e
  IN IF soonest = 0 THEN 1 ELSE IF soonest > MaxSleep THEN MaxSleep ELSE soonest

Orders(S) == {f \in [1..Cardinality(S) -> S] : \A i, k \in DOMAIN f : f[i] = f[k] => i = k}

\* One pass: claim_due_reset_resumes if the channel is available; what is
\* claimed is notified before the timer sleeps.
Pass(t) ==
  /\ Awake(t)
  /\ LET due == IF channel THEN {j \in ResetTime : Claimable(j)} ELSE {}
     IN IF due = {}
        THEN sleep' = [sleep EXCEPT ![t] = Delay(jobs)] /\ UNCHANGED <<jobs, taken>>
        ELSE /\ jobs' = [j \in ResetTime |->
                  IF j \in due THEN [jobs[j] EXCEPT !.lease = Lease] ELSE jobs[j]]
             /\ \E order \in Orders(due) : taken' = [taken EXCEPT ![t] = order]
             /\ UNCHANGED sleep
  /\ UNCHANGED <<notified, channel, reached, excuses, resetFaults>>

\* notify_reset within its time limit.  One that is cut off may have arrived.
NotifyReset(t, arrives, known) ==
  /\ taken[t] # <<>> /\ notified[t] = Nothing
  /\ LET j == Head(taken[t]) IN
       /\ IF arrives /\ known THEN UNCHANGED <<excuses, resetFaults>>
          ELSE ResetFault /\ (IF arrives THEN Excused({j}) ELSE UNCHANGED excuses)
       /\ reached' = [reached EXCEPT ![j] = @ + (IF arrives THEN 1 ELSE 0)]
       /\ notified' = [notified EXCEPT ![t] = [job |-> j, ok |-> arrives /\ known]]
  /\ taken' = [taken EXCEPT ![t] = Tail(@)]
  /\ UNCHANGED <<jobs, sleep, channel>>

\* complete_reset_resume if it arrived: the row must still be pending, the
\* lease is not compared.  An error is ignored.
Complete(t, stored) ==
  /\ notified[t] # Nothing
  /\ LET j == notified[t].job
         completes == notified[t].ok /\ stored /\ j \in Pending
     IN /\ IF stored THEN UNCHANGED <<excuses, resetFaults>> ELSE ResetFault /\ Excused({j})
        /\ jobs' = IF completes
                   THEN [jobs EXCEPT ![j].state = "delivered", ![j].lease = 0] ELSE jobs
        /\ sleep' = IF taken[t] = <<>> THEN [sleep EXCEPT ![t] = Delay(jobs')] ELSE sleep
  /\ notified' = [notified EXCEPT ![t] = Nothing]
  /\ UNCHANGED <<taken, channel, reached>>

\* The process ends and is started again.
Restart(t) ==
  /\ ResetFault
  /\ taken' = [taken EXCEPT ![t] = <<>>] /\ notified' = [notified EXCEPT ![t] = Nothing]
  /\ sleep' = [sleep EXCEPT ![t] = 0]
  /\ IF notified[t].ok THEN Excused({notified[t].job}) ELSE UNCHANGED excuses
  /\ UNCHANGED <<jobs, channel, reached>>

ChannelChanges ==
  /\ ResetFault /\ channel' = ~channel
  /\ UNCHANGED <<jobs, taken, notified, sleep, reached, excuses>>

\* Mutant: a time that has come goes on being counted down.
LessWraps(n) == n - 1

Less(n) == IF n = 0 THEN 0 ELSE n - 1

\* Mutant: a lease whose holder is gone is never given up.
LeaseKept(n) == n

LeaseLeft(n) == Less(n)

\* A lease may run out while its timer still works through what it claimed.
ResetTick ==
  /\ LET late == {j \in Held \ {0} : jobs[j].lease = 1}
     IN IF late = {} THEN UNCHANGED <<excuses, resetFaults>> ELSE ResetFault /\ Excused(late)
  /\ jobs' = [j \in ResetTime |-> [jobs[j] EXCEPT !.due = Less(@), !.lease = LeaseLeft(@)]]
  /\ sleep' = [t \in Timer |-> Less(sleep[t])]
  /\ UNCHANGED <<taken, notified, channel, reached>>

TimerStep(t) == Pass(t) \/ NotifyReset(t, TRUE, TRUE) \/ Complete(t, TRUE)

ResetNext ==
  \/ \E t \in Timer :
       \/ TimerStep(t) \/ NotifyReset(t, TRUE, FALSE) \/ NotifyReset(t, FALSE, FALSE)
       \/ Complete(t, FALSE) \/ Restart(t)
  \/ \E j \in ResetTime : Schedule(j)
  \/ Cancel \/ ChannelChanges \/ ResetTick

ResetFairness ==
  /\ \A t \in Timer : WF_resetVars(TimerStep(t))
  /\ WF_resetVars(ResetTick)

----------------------------------------------------------------------------
ResetTypeOK ==
  /\ \A j \in ResetTime :
       /\ jobs[j].state \in {"none", "pending", "delivered", "cancelled"}
       /\ jobs[j].due \in 0..1 /\ jobs[j].lease \in 0..Lease
  /\ \A t \in Timer :
       /\ \A i \in DOMAIN taken[t] : taken[t][i] \in ResetTime
       /\ notified[t].job \in ResetTime \cup {0} /\ sleep[t] \in 0..MaxSleep
  /\ channel \in BOOLEAN /\ resetFaults \in 0..MaxResetFault

\* One scheduling of a resume is delivered once, by whichever timer, unless a
\* delivery was cut off, could not be marked, outlived its lease, or was under
\* way when the job was cancelled and scheduled again.
ResumedOnce == \A j \in ResetTime : reached[j] <= 1 + excuses[j]

\* A resume that is due reaches its channel or is cancelled, whatever was lost
\* on the way, if the channel stays available.
ResumesArrive == \A j \in ResetTime :
  <>[]channel => []<>(jobs[j].state # "pending")
=============================================================================
