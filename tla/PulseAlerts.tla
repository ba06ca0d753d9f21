---------------------------- MODULE PulseAlerts ----------------------------
(***************************************************************************)
(* Alerts of Pulse (service.rs StoreSink, pulse/alerts.rs and the store's  *)
(* record_alert_if_due): a collector stores an observation, evaluates it   *)
(* against the subscriptions it lists, records what is due in one          *)
(* transaction per subscription and then delivers what it recorded.        *)
(*                                                                         *)
(* Several collectors (processes) share the store.  Time is counted        *)
(* relative to now: sinceEvent is the age of a subscription's newest       *)
(* event, age that of a collector's observation.                           *)
(***************************************************************************)
EXTENDS Integers, Sequences, FiniteSets

CONSTANTS
  Collector,       \* processes that observe the profile
  MaxSubscription,  \* its threshold subscriptions are 1..MaxSubscription
  Cooldown,        \* cool-down of every subscription
  MaxAge,          \* bound: an observation is dealt with within this time
  MaxAlertFault    \* bound on crashes, store errors, failed deliveries, edits

Subscription == 1..MaxSubscription

ASSUME AlertAssumption ==
  /\ {MaxSubscription, Cooldown, MaxAge, MaxAlertFault} \subseteq Nat /\ MaxAge < Cooldown

VARIABLES
  above,       \* the profile's usage is above every threshold
  subs,        \* stored subscriptions: threshold version, 0 = disabled
  sinceEvent,  \* age of the newest event, Ancient when there is none
  sinceSent,   \* age of the newest delivery (observer)
  work,        \* per collector: [todo, due, age]; Idle between observations
  alertFaults  \* faults so far

alertVars == <<above, subs, sinceEvent, sinceSent, work, alertFaults>>

Ancient == Cooldown + MaxAge
Idle == [todo |-> <<>>, due |-> <<>>, age |-> 0]

Older(a) == IF a >= Ancient THEN Ancient ELSE a + 1

AlertInit ==
  /\ above = FALSE
  /\ subs = [s \in Subscription |-> 1]
  /\ sinceEvent = [s \in Subscription |-> Ancient]
  /\ sinceSent = [s \in Subscription |-> Ancient]
  /\ work = [c \in Collector |-> Idle]
  /\ alertFaults = 0

AlertFault == alertFaults < MaxAlertFault /\ alertFaults' = alertFaults + 1

----------------------------------------------------------------------------
(* StoreSink.usage and StoreSink.context                                   *)

Enabled == {s \in Subscription : subs[s] # 0}

\* The candidates of an observation: the enabled subscriptions in the order of
\* their ids, at their thresholds.
Candidates ==
  {[i \in DOMAIN order |-> [sub |-> order[i], threshold |-> subs[order[i]]]] :
     order \in {f \in [1..Cardinality(Enabled) -> Enabled] : \A i, k \in DOMAIN f : i < k => f[i] < f[k]}}

Evaluate(c) ==
  /\ work[c] = Idle /\ above
  /\ Enabled # {}
  /\ \E candidates \in Candidates : work' = [work EXCEPT ![c].todo = candidates]
  /\ UNCHANGED <<above, subs, sinceEvent, sinceSent, alertFaults>>

\* The newest event is younger than the cool-down at the observation's time.
CoolsDown(s, age) == sinceEvent[s] - age < Cooldown

\* Mutant: the cool-down is measured from the last candidate, recorded or not.
RecordedSliding(s, age) == [sinceEvent EXCEPT ![s] = age]

\* sinceEvent after record_alert_if_due.
Recorded(s, age) ==
  IF CoolsDown(s, age) THEN sinceEvent ELSE [sinceEvent EXCEPT ![s] = age]

\* record_due_alerts: one candidate, in a transaction that reads the
\* subscription again.  One that was edited is an error, and the error drops
\* everything recorded so far from delivery.
Record(c) ==
  /\ work[c].todo # <<>>
  /\ LET candidate == Head(work[c].todo)
         s == candidate.sub
     IN IF subs[s] \notin {0, candidate.threshold}
        THEN work' = [work EXCEPT ![c] = Idle] /\ UNCHANGED sinceEvent
        ELSE LET records == subs[s] # 0 /\ ~CoolsDown(s, work[c].age)
             IN /\ sinceEvent' = IF subs[s] # 0 THEN Recorded(s, work[c].age) ELSE sinceEvent
                /\ work' = [work EXCEPT
                     ![c].todo = Tail(@),
                     ![c].due = IF records THEN Append(@, s) ELSE @,
                     ![c].age = IF Tail(work[c].todo) = <<>> /\ work[c].due = <<>> /\ ~records
                                THEN 0 ELSE @]
  /\ UNCHANGED <<above, subs, sinceSent, alertFaults>>

\* deliver_triggered_alerts: in order, a failure is a result among others.
Deliver(c, arrives) ==
  /\ work[c].todo = <<>> /\ work[c].due # <<>>
  /\ IF arrives THEN UNCHANGED alertFaults ELSE AlertFault
  /\ LET s == Head(work[c].due)
         rest == Tail(work[c].due)
     IN /\ sinceSent' = IF arrives THEN [sinceSent EXCEPT ![s] = 0] ELSE sinceSent
        /\ work' = [work EXCEPT ![c] = IF rest = <<>> THEN Idle ELSE [@ EXCEPT !.due = rest]]
  /\ UNCHANGED <<above, subs, sinceEvent>>

\* A store error, or the end of the process: what is recorded stays recorded.
Abandon(c) ==
  /\ work[c] # Idle /\ AlertFault
  /\ work' = [work EXCEPT ![c] = Idle]
  /\ UNCHANGED <<above, subs, sinceEvent, sinceSent>>

(* Users and the world                                                     *)

Edit(s) ==
  /\ AlertFault
  /\ \E version \in 0..2 : version # subs[s] /\ subs' = [subs EXCEPT ![s] = version]
  /\ UNCHANGED <<above, sinceEvent, sinceSent, work>>

Cross ==
  /\ AlertFault
  /\ above' = ~above
  /\ UNCHANGED <<subs, sinceEvent, sinceSent, work>>

AlertTick ==
  /\ \A c \in Collector : work[c] # Idle => work[c].age < MaxAge
  /\ sinceEvent' = [s \in Subscription |-> Older(sinceEvent[s])]
  /\ sinceSent' = [s \in Subscription |-> Older(sinceSent[s])]
  /\ work' = [c \in Collector |->
       IF work[c] = Idle THEN Idle ELSE [work[c] EXCEPT !.age = @ + 1]]
  /\ UNCHANGED <<above, subs, alertFaults>>

AlertStep(c) == Evaluate(c) \/ Record(c) \/ Deliver(c, TRUE)

AlertNext ==
  \/ \E c \in Collector : AlertStep(c) \/ Deliver(c, FALSE) \/ Abandon(c)
  \/ \E s \in Subscription : Edit(s)
  \/ Cross \/ AlertTick

\* Collection is periodic and every call a collector makes has a time limit.
AlertFairness ==
  /\ \A c \in Collector : WF_alertVars(AlertStep(c))
  /\ WF_alertVars(AlertTick)

----------------------------------------------------------------------------
AlertTypeOK ==
  /\ above \in BOOLEAN
  /\ subs \in [Subscription -> 0..2]
  /\ sinceEvent \in [Subscription -> 0..Ancient]
  /\ sinceSent \in [Subscription -> 0..Ancient]
  /\ \A c \in Collector :
       /\ work[c].age \in 0..MaxAge
       /\ \A i \in DOMAIN work[c].due : work[c].due[i] \in Subscription
       /\ \A i \in DOMAIN work[c].todo : work[c].todo[i].sub \in Subscription
  /\ alertFaults \in 0..MaxAlertFault

\* An alert lost after it was recorded is made up for: as long as the usage
\* stays above the threshold of an enabled subscription, deliveries for it
\* never cease.
AlertsGetThrough == \A s \in Subscription :
  <>[](above /\ subs[s] # 0) => []<>(sinceSent[s] = 0)
=============================================================================
