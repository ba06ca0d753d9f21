--------------------------- MODULE PulseScheduler ---------------------------
(***************************************************************************)
(* The one scheduler of Pulse work (pulse/scheduler.rs): periodic jobs,    *)
(* completion pushes and forced polls, with their exclusions, coalescing   *)
(* and bounded command queue.                                              *)
(*                                                                         *)
(* Time is abstract: a job that is not running becomes due at any moment,  *)
(* as long as work still arrives (MaxArrival).                             *)
(***************************************************************************)
EXTENDS Integers, Sequences, FiniteSets

CONSTANTS
  Collection,  \* collecting jobs
  Retention,   \* the job that may run beside a forced poll
  MaxTarget,   \* forced polls are ordered 1..MaxTarget
  MaxQueue,    \* capacity of the command queue
  MaxArrival   \* bound on the work that arrives after the start

Periodic == Collection \cup {Retention}
Target == 1..MaxTarget
Completion == 0  \* the command without a target

ASSUME SchedulerAssumption == Retention \notin Collection /\ {MaxTarget, MaxQueue, MaxArrival} \subseteq Nat

VARIABLES
  loop,      \* "take", "select" or "stopped"
  due,       \* periodic jobs whose time has come
  marked,   \* periodic jobs marked running
  push,      \* completion push: [running, queued]
  forced,    \* force_running, 0 for none
  queued,    \* force_queued
  commands,  \* the channel
  ended,     \* tasks that have ended and are not joined: [job, rows]
  unsent,    \* a finished collection reported rows, and no push has begun since
  arrivals   \* jobs come due and commands sent so far, up to MaxArrival

schedulerVars == <<loop, due, marked, push, forced, queued, commands, ended, unsent, arrivals>>

PushJob == <<"push", 0>>
ForceJob(t) == <<"force", t>>
PeriodicJob(j) == <<"periodic", j>>

SchedulerInit ==
  /\ loop = "take"
  /\ due = Periodic /\ marked = {}
  /\ push = [running |-> FALSE, queued |-> FALSE]
  /\ forced = 0 /\ queued = {} /\ commands = <<>>
  /\ ended = {} /\ unsent = FALSE /\ arrivals = 0

----------------------------------------------------------------------------
(* take_due, in the order of its decisions.                                *)

Started == IF forced # 0 THEN due \cap {Retention} ELSE due

PushReady(run) == push.queued /\ ~push.running /\ run = {} /\ forced = 0

\* Mutant: a forced poll waits for pushes only.
ForceReadyAmid(run, pushing) == queued # {} /\ forced = 0 /\ ~pushing

ForceReady(run, pushing) ==
  queued # {} /\ forced = 0 /\ ~pushing /\ run \cap Collection = {}

First(S) == CHOOSE t \in S : \A u \in S : t <= u

TakeDue ==
  /\ loop = "take" /\ loop' = "select"
  /\ LET run == marked \cup Started
         pushes == PushReady(run)
         forces == ForceReady(run, push.running \/ pushes)
     IN /\ marked' = run /\ due' = due \ Started
        /\ push' = IF pushes THEN [running |-> TRUE, queued |-> FALSE] ELSE push
        /\ forced' = IF forces THEN First(queued) ELSE forced
        /\ queued' = IF forces THEN queued \ {First(queued)} ELSE queued
        /\ unsent' = (unsent /\ ~pushes)
  /\ UNCHANGED <<commands, ended, arrivals>>

(* The branches of select. *)

\* next_deadline has passed.
Sleeps ==
  /\ loop = "select"
  /\ due \ marked # {} \/ PushReady(marked) \/ ForceReady(marked, push.running)
  /\ loop' = "take"
  /\ UNCHANGED <<due, marked, push, forced, queued, commands, ended, unsent, arrivals>>

\* Mutant: a trigger during a push is taken for that push.
TriggerIdle(p) == [p EXCEPT !.queued = ~p.running]

\* completion_triggered: coalesced, but never into a push that has begun.
CompletionTriggered(p) == [p EXCEPT !.queued = TRUE]

Command ==
  /\ loop = "select" /\ commands # <<>> /\ loop' = "take"
  /\ commands' = Tail(commands)
  /\ LET c == Head(commands) IN
       IF c = Completion THEN push' = CompletionTriggered(push) /\ UNCHANGED queued
       ELSE /\ queued' = IF c = forced THEN queued ELSE queued \cup {c}
            /\ UNCHANGED push
  /\ UNCHANGED <<due, marked, forced, ended, unsent, arrivals>>

\* join_next_with_id: finished, then collection_finished_with_rows.  A job that
\* panicked or failed reports no rows.
Joined ==
  /\ loop = "select" /\ loop' = "take"
  /\ \E e \in ended :
       /\ ended' = ended \ {e}
       /\ marked' = IF e.job[1] = "periodic" THEN marked \ {e.job[2]} ELSE marked
       /\ forced' = IF e.job[1] = "force" THEN 0 ELSE forced
       /\ LET p == IF e.job = PushJob THEN [push EXCEPT !.running = FALSE] ELSE push IN
            push' = IF e.rows THEN CompletionTriggered(p) ELSE p
       /\ unsent' = (unsent \/ e.rows)
  /\ UNCHANGED <<due, queued, commands, arrivals>>

StopScheduler ==
  /\ loop = "select" /\ loop' = "stopped"
  /\ marked' = {} /\ forced' = 0 /\ ended' = {} /\ due' = {} /\ queued' = {} /\ commands' = <<>>
  /\ push' = [running |-> FALSE, queued |-> FALSE]
  /\ UNCHANGED <<unsent, arrivals>>

----------------------------------------------------------------------------
(* Jobs, time and the callers of SchedulerClient.                          *)

Works(job) == ~\E e \in ended : e.job = job

\* A collection may store rows; so may a forced poll.
CollectionEnds(j) ==
  /\ j \in marked /\ Works(PeriodicJob(j))
  /\ \E rows \in (IF j = Retention THEN {FALSE} ELSE BOOLEAN) :
       ended' = ended \cup {[job |-> PeriodicJob(j), rows |-> rows]}
  /\ UNCHANGED <<loop, due, marked, push, forced, queued, commands, unsent, arrivals>>

ForcedEnds ==
  /\ forced # 0 /\ Works(ForceJob(forced))
  /\ \E rows \in BOOLEAN : ended' = ended \cup {[job |-> ForceJob(forced), rows |-> rows]}
  /\ UNCHANGED <<loop, due, marked, push, forced, queued, commands, unsent, arrivals>>

PushEnds ==
  /\ push.running /\ Works(PushJob)
  /\ ended' = ended \cup {[job |-> PushJob, rows |-> FALSE]}
  /\ UNCHANGED <<loop, due, marked, push, forced, queued, commands, unsent, arrivals>>

Arrives == loop # "stopped" /\ arrivals < MaxArrival /\ arrivals' = arrivals + 1

ComesDue(j) ==
  /\ Arrives /\ j \notin marked \cup due
  /\ due' = due \cup {j}
  /\ UNCHANGED <<loop, marked, push, forced, queued, commands, ended, unsent>>

\* A full queue refuses a forced poll, and drops a completion.
Notify(c) ==
  /\ Arrives /\ Len(commands) < MaxQueue
  /\ commands' = Append(commands, c)
  /\ UNCHANGED <<loop, due, marked, push, forced, queued, ended, unsent>>

SchedulerStep == TakeDue \/ Sleeps \/ Command \/ Joined
JobStep == ForcedEnds \/ PushEnds \/ \E j \in Periodic : CollectionEnds(j)

SchedulerNext ==
  \/ SchedulerStep \/ StopScheduler \/ JobStep
  \/ \E j \in Periodic : ComesDue(j)
  \/ \E c \in Target \cup {Completion} : Notify(c)

\* Jobs end.  select polls its ready branches in random order, so commands and
\* ended tasks do not starve while past deadlines make the loop spin.
SchedulerFairness ==
  /\ WF_schedulerVars(TakeDue) /\ WF_schedulerVars(Sleeps)
  /\ SF_schedulerVars(Command \/ Joined)
  /\ \A j \in Periodic : WF_schedulerVars(CollectionEnds(j))
  /\ WF_schedulerVars(ForcedEnds) /\ WF_schedulerVars(PushEnds)

----------------------------------------------------------------------------
SchedulerTypeOK ==
  /\ loop \in {"take", "select", "stopped"}
  /\ due \subseteq Periodic /\ marked \subseteq Periodic
  /\ push \in [running : BOOLEAN, queued : BOOLEAN]
  /\ forced \in Target \cup {0} /\ queued \subseteq Target
  /\ Len(commands) <= MaxQueue
  /\ \A e \in ended : e.rows \in BOOLEAN
  /\ unsent \in BOOLEAN /\ arrivals \in 0..MaxArrival

\* Rows that a collection reported are covered by a push that begins later, and
\* a forced poll that was ordered runs, once work stops arriving: no exclusion
\* leaves the scheduler waiting for a wake-up that nobody gives (next_deadline).
RowsArePushed == <>[](~unsent \/ loop = "stopped")

Ordered(t) == t \in queued \/ \E i \in DOMAIN commands : commands[i] = t
ForcedRuns == \A t \in Target : <>[](~Ordered(t) \/ loop = "stopped")

WorkIsServed == RowsArePushed /\ ForcedRuns
=============================================================================
