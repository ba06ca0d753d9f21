---------------------------- MODULE ServicesProofs ----------------------------
(***************************************************************************)
(* Proofs about the four small services of MCServices: alerts, resumes     *)
(* after a rate limit, the pull of a peer's rows and the conditional write *)
(* of a file.  They share no state; the last theorems are about the        *)
(* specification that runs them all, for every value of its constants.     *)
(***************************************************************************)
EXTENDS MCServices, FiniteSetTheorems, WellFoundedInduction, TLAPS

\* A set of numbers that is not empty has a least one.
LEMMA Least ==
  ASSUME NEW T \in SUBSET Nat, T # {}
  PROVE  \E x \in T : \A y \in T : x <= y
  <1> DEFINE R == OpToRel(<, Nat)
  <1>1. \E x \in T : \A y \in T : <<y, x>> \notin R
    BY NatLessThanWellFounded, WFMin
  <1>2. \A x, y \in Nat : y < x => <<y, x>> \in R
    BY DEF OpToRel
  <1> HIDE DEF R
  <1>3. PICK x \in T : \A y \in T : <<y, x>> \notin R
    BY <1>1
  <1>4. ASSUME NEW y \in T PROVE x <= y
    <2>1. x \in Nat /\ y \in Nat
      OBVIOUS
    <2>2. ~(y < x)
      BY <1>2, <1>3, <2>1
    <2> QED
      BY <2>1, <2>2
  <1> QED
    BY <1>4

-----------------------------------------------------------------------------
(* Alerts.                                                                 *)

AlertCandidate == [sub : Subscription, threshold : 0..2]
Work == [todo : Seq(AlertCandidate), due : Seq(Subscription), age : 0..MaxAge]

AlertInv ==
  /\ above \in BOOLEAN /\ alertFaults \in 0..MaxAlertFault
  /\ subs \in [Subscription -> 0..2]
  /\ sinceEvent \in [Subscription -> 0..Ancient] /\ sinceSent \in [Subscription -> 0..Ancient]
  /\ work \in [Collector -> Work]

LEMMA AlertInvBegins == AlertInit => AlertInv
  <1> SUFFICES ASSUME AlertInit PROVE AlertInv
    OBVIOUS
  <1>1. Ancient \in 0..Ancient
    BY AlertAssumption DEF Ancient
  <1>2. Idle \in Work
    BY AlertAssumption DEF Idle, Work
  <1>3. 1 \in 0..2 /\ 0 \in 0..MaxAlertFault /\ FALSE \in BOOLEAN
    BY AlertAssumption
  <1> QED
    BY <1>1, <1>2, <1>3 DEF AlertInit, AlertInv

LEMMA AlertTypes == AlertInv => AlertTypeOK
  <1> SUFFICES ASSUME AlertInv PROVE AlertTypeOK
    OBVIOUS
  <1>1. ASSUME NEW c \in Collector
        PROVE  /\ work[c].age \in 0..MaxAge
               /\ \A i \in DOMAIN work[c].due : work[c].due[i] \in Subscription
               /\ \A i \in DOMAIN work[c].todo : work[c].todo[i].sub \in Subscription
    <2>1. work[c].age \in 0..MaxAge /\ work[c].due \in Seq(Subscription) /\ work[c].todo \in Seq(AlertCandidate)
      BY DEF AlertInv, Work
    <2>2. \A i \in DOMAIN work[c].todo : work[c].todo[i] \in AlertCandidate
      BY <2>1
    <2>3. \A i \in DOMAIN work[c].due : work[c].due[i] \in Subscription
      BY <2>1
    <2> QED
      BY <2>1, <2>2, <2>3 DEF AlertCandidate
  <1> QED
    BY <1>1 DEF AlertInv, AlertTypeOK

LEMMA CandidatesAre == ASSUME AlertInv PROVE Candidates \subseteq Seq(AlertCandidate)
  <1>1. IsFiniteSet(Enabled) /\ Enabled \subseteq Subscription
    <2>1. IsFiniteSet(Subscription)
      <3>1. 1 \in Int /\ MaxSubscription \in Int
        BY AlertAssumption
      <3> QED
        BY <3>1, FS_Interval DEF Subscription
    <2>2. Enabled \subseteq Subscription
      BY DEF Enabled
    <2> QED
      BY <2>1, <2>2, FS_Subset
  <1>2. Cardinality(Enabled) \in Nat
    BY <1>1, FS_CardinalityType
  <1> DEFINE n == Cardinality(Enabled)
  <1>3. ASSUME NEW order \in [1..n -> Enabled]
        PROVE  [i \in DOMAIN order |-> [sub |-> order[i], threshold |-> subs[order[i]]]] \in Seq(AlertCandidate)
    <2>1. \A i \in 1..n : [sub |-> order[i], threshold |-> subs[order[i]]] \in AlertCandidate
      BY <1>1 DEF AlertInv, AlertCandidate
    <2> QED
      BY <1>2, <2>1
  <1> QED
    BY <1>3 DEF Candidates

LEMMA AlertStepKeeps == ASSUME AlertInv, AlertNext \/ UNCHANGED alertVars PROVE AlertInv'
  <1> USE AlertAssumption DEF AlertInv
  <1>1. Idle \in Work
    BY DEF Idle, Work
  <1>2. ASSUME NEW c \in Collector, Evaluate(c) PROVE AlertInv'
    <2>1. PICK candidates \in Candidates : work' = [work EXCEPT ![c].todo = candidates]
      BY <1>2 DEF Evaluate
    <2>2. candidates \in Seq(AlertCandidate)
      BY CandidatesAre
    <2>3. work' \in [Collector -> Work]
      BY <2>1, <2>2 DEF Work
    <2> QED
      BY <1>2, <2>3 DEF Evaluate
  <1>3. ASSUME NEW c \in Collector, Record(c) PROVE AlertInv'
    <2> DEFINE pending == work[c].todo
               s == Head(pending).sub
    <2>1. /\ work[c] \in Work /\ pending \in Seq(AlertCandidate) /\ pending # << >>
          /\ work[c].due \in Seq(Subscription) /\ work[c].age \in 0..MaxAge
      BY <1>3 DEF Record, Work
    <2>2. Head(pending) \in AlertCandidate /\ Tail(pending) \in Seq(AlertCandidate)
      BY <2>1
    <2>3. s \in Subscription
      BY <2>2 DEF AlertCandidate
    <2>4. Append(work[c].due, s) \in Seq(Subscription)
      BY <2>1, <2>3
    <2>5. Recorded(s, work[c].age) \in [Subscription -> 0..Ancient]
      BY <2>1, <2>3 DEF Recorded, Ancient
    <2>6. sinceEvent' \in [Subscription -> 0..Ancient]
      BY <1>3, <2>5 DEF Record
    <2>7. work' \in [Collector -> Work]
      <3>1. CASE work' = [work EXCEPT ![c] = Idle]
        BY <1>1, <3>1
      <3>2. CASE subs[s] \in {0, Head(pending).threshold}
        <4> DEFINE records == subs[s] # 0 /\ ~CoolsDown(s, work[c].age)
                   due == IF records THEN Append(work[c].due, s) ELSE work[c].due
                   age == IF Tail(work[c].todo) = <<>> /\ work[c].due = <<>> /\ ~records
                          THEN 0 ELSE work[c].age
        <4>1. work' = [work EXCEPT ![c].todo = Tail(pending), ![c].due = due, ![c].age = age]
          BY <1>3, <3>2 DEF Record
        <4>2. due \in Seq(Subscription) /\ age \in 0..MaxAge
          BY <2>1, <2>4
        <4> HIDE DEF due, age, pending
        <4> QED
          BY <2>2, <4>1, <4>2 DEF Work
      <3> QED
        BY <1>3, <3>1, <3>2 DEF Record
    <2> QED
      BY <1>3, <2>6, <2>7 DEF Record
  <1>4. ASSUME NEW c \in Collector, NEW arrives \in BOOLEAN, Deliver(c, arrives) PROVE AlertInv'
    <2>1. work[c] \in Work /\ work[c].due \in Seq(Subscription) /\ work[c].due # << >>
      BY <1>4 DEF Deliver, Work
    <2>2. Head(work[c].due) \in Subscription /\ Tail(work[c].due) \in Seq(Subscription)
      BY <2>1
    <2>3. sinceSent' \in [Subscription -> 0..Ancient]
      BY <1>4, <2>2 DEF Deliver, Ancient
    <2>4. work' \in [Collector -> Work]
      <3>1. [work[c] EXCEPT !.due = Tail(work[c].due)] \in Work
        BY <2>1, <2>2 DEF Work
      <3>2. work' = [work EXCEPT ![c] = Idle] \/ work' = [work EXCEPT ![c] = [work[c] EXCEPT !.due = Tail(work[c].due)]]
        BY <1>4 DEF Deliver
      <3> QED
        BY <1>1, <3>1, <3>2
    <2> QED
      BY <1>4, <2>3, <2>4 DEF Deliver, AlertFault
  <1>5. ASSUME NEW c \in Collector, Abandon(c) PROVE AlertInv'
    BY <1>1, <1>5 DEF Abandon, AlertFault
  <1>6. ASSUME NEW s \in Subscription, Edit(s) PROVE AlertInv'
    BY <1>6 DEF Edit, AlertFault
  <1>7. CASE Cross
    BY <1>7 DEF Cross, AlertFault
  <1>8. CASE AlertTick
    <2>1. \A a \in 0..Ancient : Older(a) \in 0..Ancient
      BY DEF Older, Ancient
    <2>2. ASSUME NEW c \in Collector
          PROVE  (IF work[c] = Idle THEN Idle ELSE [work[c] EXCEPT !.age = @ + 1]) \in Work
      <3>1. work[c] \in Work /\ (work[c] # Idle => work[c].age < MaxAge)
        BY <1>8 DEF AlertTick
      <3>2. CASE work[c] # Idle
        <4>1. work[c].age + 1 \in 0..MaxAge
          BY <3>1, <3>2 DEF Work
        <4>2. [work[c] EXCEPT !.age = work[c].age + 1] \in Work
          BY <3>1, <4>1 DEF Work
        <4> QED
          BY <3>2, <4>2
      <3> QED
        BY <1>1, <3>2
    <2>3. work' = [c \in Collector |-> IF work[c] = Idle THEN Idle ELSE [work[c] EXCEPT !.age = @ + 1]]
      BY <1>8 DEF AlertTick
    <2>4. work' \in [Collector -> Work]
      BY <2>2, <2>3
    <2> QED
      BY <1>8, <2>1, <2>4 DEF AlertTick
  <1>9. CASE UNCHANGED alertVars
    BY <1>9 DEF alertVars
  <1> QED
    BY <1>2, <1>3, <1>4, <1>5, <1>6, <1>7, <1>8, <1>9 DEF AlertNext, AlertStep

-----------------------------------------------------------------------------
(* Resumes after a rate limit.                                             *)

\* The jobs a timer has still to notify, and the timers that have one.
Takes(t) == {taken[t][i] : i \in DOMAIN taken[t]}
Takers(j) == {t \in Timer : j \in Takes(t)}
NumTakers(j) == Cardinality(Takers(j))

\* A timer vouches for a job that it has claimed, until it has marked it as
\* delivered or has given it up.
Vouched(j) == \E t \in Timer : j \in Takes(t) \/ (notified[t].job = j /\ notified[t].ok)

\* A job may still be claimed: it is pending and nobody leases it, or the one
\* who leased it is gone and the lease runs out.
Open(j) == jobs[j].state = "pending" /\ (jobs[j].lease = 0 \/ ~Vouched(j))

JobRow == [state : {"none", "pending", "delivered", "cancelled"}, due : 0..1, lease : 0..Lease]

ResetShape ==
  /\ jobs \in [ResetTime -> JobRow]
  /\ taken \in [Timer -> Seq(ResetTime)]
  /\ \A t \in Timer : \A i, k \in DOMAIN taken[t] : taken[t][i] = taken[t][k] => i = k
  /\ notified \in [Timer -> [job : ResetTime \cup {0}, ok : BOOLEAN]]
  /\ \A t \in Timer : notified[t].job = 0 => notified[t] = Nothing
  /\ sleep \in [Timer -> 0..MaxSleep] /\ channel \in BOOLEAN /\ resetFaults \in 0..MaxResetFault
  /\ reached \in [ResetTime -> Nat] /\ excuses \in [ResetTime -> Nat]

\* What was delivered, what is on its way and what may still be claimed come to
\* one, but for the excuses; and beyond the excuses one timer has the job, none
\* when it may be claimed.
Once(j) ==
  /\ reached[j] + NumTakers(j) + (IF Open(j) THEN 1 ELSE 0) <= 1 + excuses[j]
  /\ NumTakers(j) <= excuses[j] + 1
  /\ jobs[j].state = "pending" /\ jobs[j].lease = 0 => NumTakers(j) <= excuses[j]

ResetInv == ResetShape /\ \A j \in ResetTime : Once(j)

LEMMA ResetBounds ==
  /\ Lease \in Nat /\ Lease > 0 /\ MaxSleep \in Nat /\ MaxSleep > 0 /\ MaxResetFault \in Nat
  /\ 0 \in 0..Lease /\ Lease \in 0..Lease /\ 0 \in 0..MaxSleep /\ 0 \in 0..MaxResetFault
  BY ResetAssumption

LEMMA TakersCounted ==
  \A j \in ResetTime :
    /\ NumTakers(j) \in Nat
    /\ Takers(j) # {} => NumTakers(j) >= 1
    /\ Takers(j) = {} => NumTakers(j) = 0
  <1> TAKE j \in ResetTime
  <1>1. IsFiniteSet(Takers(j))
    BY ResetAssumption, FS_Subset DEF Takers
  <1>2. NumTakers(j) \in Nat /\ (NumTakers(j) = 0 <=> Takers(j) = {})
    BY <1>1, FS_CardinalityType, FS_EmptySet DEF NumTakers
  <1> QED
    BY <1>2

\* One timer more, or fewer.
LEMMA Counting ==
  ASSUME NEW S \in SUBSET Timer, NEW t \in Timer
  PROVE  /\ Cardinality(S) \in Nat
         /\ t \notin S => Cardinality(S \cup {t}) = Cardinality(S) + 1
         /\ t \in S => Cardinality(S \ {t}) = Cardinality(S) - 1
         /\ Cardinality(S \ {t}) \in Nat
         /\ Cardinality(S \ {t}) <= Cardinality(S)
  <1>1. IsFiniteSet(S)
    BY ResetAssumption, FS_Subset
  <1>2. Cardinality(S) \in Nat
    BY <1>1, FS_CardinalityType
  <1>3. t \notin S => Cardinality(S \cup {t}) = Cardinality(S) + 1
    BY <1>1, FS_AddElement
  <1>4. t \in S => Cardinality(S \ {t}) = Cardinality(S) - 1
    BY <1>1, FS_RemoveElement
  <1>5. IsFiniteSet(S \ {t})
    BY <1>1, FS_Subset
  <1>6. Cardinality(S \ {t}) \in Nat
    BY <1>5, FS_CardinalityType
  <1>7. t \notin S => S \ {t} = S
    OBVIOUS
  <1> QED
    BY <1>2, <1>3, <1>4, <1>6, <1>7

LEMMA Uncovered ==
  ASSUME NEW s \in Seq(ResetTime), s # << >>, \A i, k \in DOMAIN s : s[i] = s[k] => i = k
  PROVE  /\ Head(s) \in ResetTime /\ Tail(s) \in Seq(ResetTime)
         /\ \A i, k \in DOMAIN Tail(s) : Tail(s)[i] = Tail(s)[k] => i = k
         /\ {Tail(s)[i] : i \in DOMAIN Tail(s)} = {s[i] : i \in DOMAIN s} \ {Head(s)}
         /\ Head(s) \in {s[i] : i \in DOMAIN s}
  <1>1. /\ Len(s) \in Nat /\ Len(s) >= 1 /\ DOMAIN s = 1..Len(s) /\ Head(s) = s[1]
        /\ Tail(s) \in Seq(ResetTime) /\ DOMAIN Tail(s) = 1..Len(s) - 1
        /\ \A i \in 1..Len(s) - 1 : Tail(s)[i] = s[i + 1]
    OBVIOUS
  <1>2. s[1] \in ResetTime
    BY <1>1
  <1>3. \A i, k \in DOMAIN Tail(s) : Tail(s)[i] = Tail(s)[k] => i = k
    BY <1>1
  <1>4. ASSUME NEW x \in {s[i] : i \in DOMAIN s} \ {Head(s)} PROVE x \in {Tail(s)[i] : i \in DOMAIN Tail(s)}
    <2>1. PICK i \in 1..Len(s) : x = s[i]
      BY <1>1
    <2>2. i # 1
      BY <1>1, <1>4, <2>1
    <2>3. i - 1 \in 1..Len(s) - 1 /\ Tail(s)[i - 1] = x
      BY <1>1, <2>1, <2>2
    <2> QED
      BY <1>1, <2>3
  <1>5. ASSUME NEW x \in {Tail(s)[i] : i \in DOMAIN Tail(s)} PROVE x \in {s[i] : i \in DOMAIN s} \ {Head(s)}
    <2>1. PICK i \in 1..Len(s) - 1 : x = s[i + 1]
      BY <1>1
    <2>2. i + 1 \in 1..Len(s) /\ i + 1 # 1 /\ 1 \in 1..Len(s)
      BY <1>1
    <2>3. s[i + 1] # s[1]
      BY <1>1, <2>2
    <2> QED
      BY <1>1, <2>1, <2>2, <2>3
  <1>6. {Tail(s)[i] : i \in DOMAIN Tail(s)} = {s[i] : i \in DOMAIN s} \ {Head(s)}
    BY <1>4, <1>5
  <1>7. Head(s) \in {s[i] : i \in DOMAIN s}
    BY <1>1
  <1> QED
    BY <1>1, <1>2, <1>3, <1>6, <1>7

\* A timer sleeps no longer than it may.
LEMMA DelayBounded ==
  ASSUME NEW table \in [ResetTime -> JobRow]
  PROVE  Delay(table) \in 0..MaxSleep
  <1> DEFINE ready == {IF table[j].due > table[j].lease THEN table[j].due ELSE table[j].lease :
                         j \in {k \in ResetTime : table[k].state = "pending"}}
             soonest == IF ready = {} THEN MaxSleep ELSE CHOOSE d \in ready : \A e \in ready : d <= e
  <1>1. ready \subseteq Nat
    BY ResetBounds DEF JobRow
  <1>2. soonest \in Nat
    <2>1. CASE ready # {}
      <3> HIDE DEF ready
      <3>1. \E d \in ready : \A e \in ready : d <= e
        BY <1>1, <2>1, Least
      <3>2. soonest \in ready
        BY <2>1, <3>1
      <3> QED
        BY <1>1, <3>2
    <2> QED
      BY <2>1, ResetBounds
  <1>3. Delay(table) = IF soonest = 0 THEN 1 ELSE IF soonest > MaxSleep THEN MaxSleep ELSE soonest
    BY DEF Delay
  <1> HIDE DEF soonest
  <1> QED
    BY <1>2, <1>3, ResetBounds

LEMMA ResetInvBegins == ResetInit => ResetInv
  <1> SUFFICES ASSUME ResetInit PROVE ResetInv
    OBVIOUS
  <1> USE ResetBounds DEF ResetInit
  <1>1. /\ NoJob \in JobRow
        /\ NoJob.state = "none"
    BY DEF NoJob, JobRow
  <1>2. Nothing \in [job : ResetTime \cup {0}, ok : BOOLEAN] /\ << >> \in Seq(ResetTime)
    BY DEF Nothing
  <1>3. 0 \in 0..MaxSleep /\ 0 \in 0..MaxResetFault
    OBVIOUS
  <1>4. ResetShape
    BY <1>1, <1>2, <1>3 DEF ResetShape, JobRow
  <1>5. ASSUME NEW j \in ResetTime PROVE Once(j)
    <2>1. Takers(j) = {}
      BY DEF Takers, Takes
    <2>2. ~Open(j) /\ jobs[j].state = "none"
      BY <1>1 DEF Open
    <2>3. NumTakers(j) = 0 /\ reached[j] = 0 /\ excuses[j] = 0
      BY <2>1, TakersCounted
    <2> QED
      BY <2>2, <2>3 DEF Once
  <1> QED
    BY <1>4, <1>5 DEF ResetInv

LEMMA ResetTypes == ResetInv => ResetTypeOK /\ ResumedOnce
  <1> SUFFICES ASSUME ResetInv PROVE ResetTypeOK /\ ResumedOnce
    OBVIOUS
  <1>1. ResetTypeOK
    BY DEF ResetInv, ResetShape, JobRow, ResetTypeOK
  <1>2. ASSUME NEW j \in ResetTime PROVE reached[j] <= 1 + excuses[j]
    <2>1. reached[j] \in Nat /\ excuses[j] \in Nat /\ NumTakers(j) \in Nat
      BY TakersCounted DEF ResetInv, ResetShape, JobRow
    <2>2. reached[j] + NumTakers(j) + (IF Open(j) THEN 1 ELSE 0) <= 1 + excuses[j]
      BY DEF ResetInv, Once
    <2> QED
      BY <2>1, <2>2
  <1> QED
    BY <1>1, <1>2 DEF ResumedOnce

\* The bookkeeping of one job across a step, in numbers: a claim moves the
\* job from those who may claim it to its taker, a notification from its taker
\* to what was delivered, and what is lost on the way is excused.
Free(j) == jobs[j].state = "pending" /\ jobs[j].lease = 0
Chance(j) == IF Open(j) THEN 1 ELSE 0

LEMMA Accounted ==
  ASSUME ResetInv, NEW j \in ResetTime, ResetShape', NumTakers(j)' \in Nat,
         reached'[j] + NumTakers(j)' + Chance(j)' + excuses[j] <= reached[j] + NumTakers(j) + Chance(j) + excuses'[j],
         excuses[j] <= excuses'[j],
         NumTakers(j)' <= NumTakers(j) \/ (Free(j) /\ NumTakers(j)' <= NumTakers(j) + 1),
         Free(j)' => \/ NumTakers(j)' = 0
                     \/ NumTakers(j)' <= NumTakers(j) /\ (excuses'[j] > excuses[j] \/ Free(j))
  PROVE  Once(j)'
  <1>1. /\ reached[j] \in Nat /\ excuses[j] \in Nat /\ NumTakers(j) \in Nat
        /\ reached'[j] \in Nat /\ excuses'[j] \in Nat /\ NumTakers(j)' \in Nat
    BY TakersCounted DEF ResetInv, ResetShape, JobRow
  <1>2. /\ reached[j] + NumTakers(j) + Chance(j) <= 1 + excuses[j]
        /\ NumTakers(j) <= excuses[j] + 1
        /\ Free(j) => NumTakers(j) <= excuses[j]
    BY DEF ResetInv, Once, Free, Chance
  <1>3. Chance(j) \in 0..1 /\ Chance(j)' \in 0..1
    BY DEF Chance
  <1>4. /\ reached'[j] + NumTakers(j)' + Chance(j)' <= 1 + excuses'[j]
        /\ NumTakers(j)' <= excuses'[j] + 1
        /\ Free(j)' => NumTakers(j)' <= excuses'[j]
    BY <1>1, <1>2, <1>3
  <1> QED
    BY <1>4 DEF Once, Free, Chance

\* A job whose takers and records stay.
LEMMA Untouched ==
  ASSUME ResetInv, NEW j \in ResetTime, ResetShape', Takers(j)' = Takers(j), Open(j)' => Open(j), Free(j)' => Free(j),
         reached'[j] = reached[j], excuses'[j] = excuses[j]
  PROVE  Once(j)'
  <1>1. /\ reached[j] \in Nat /\ excuses[j] \in Nat /\ NumTakers(j) \in Nat
        /\ NumTakers(j)' = NumTakers(j)
    BY TakersCounted DEF ResetInv, ResetShape, JobRow, NumTakers
  <1>2. Chance(j)' <= Chance(j) /\ Chance(j) \in 0..1 /\ Chance(j)' \in 0..1
    BY DEF Chance
  <1> QED
    BY <1>1, <1>2, Accounted

LEMMA HeldByTakers ==
  ASSUME NEW j \in ResetTime
  PROVE  /\ Takers(j) # {} => j \in Held
         /\ Vouched(j) => j \in Held
         /\ Takers(j) # {} => Vouched(j)
  BY DEF Takers, Takes, Vouched, Held

LEMMA ResetFaultCounts ==
  ASSUME ResetShape, ResetFault \/ UNCHANGED resetFaults
  PROVE  resetFaults' \in 0..MaxResetFault
  BY ResetBounds DEF ResetFault, ResetShape

LEMMA ExcusedCounts ==
  ASSUME ResetShape, NEW S, Excused(S)
  PROVE  /\ excuses' \in [ResetTime -> Nat]
         /\ \A j \in S \cap ResetTime : excuses'[j] = excuses[j] + 1
         /\ \A j \in ResetTime \ S : excuses'[j] = excuses[j]
  BY DEF ResetShape, JobRow, Excused

LEMMA ScheduleKeeps ==
  ASSUME ResetInv, NEW k \in ResetTime, Schedule(k)
  PROVE  ResetInv'
  <1> USE DEF ResetInv
  <1>1. PICK due \in {0, 1} : jobs' = [jobs EXCEPT ![k] = [state |-> "pending", due |-> due, lease |-> 0]]
    BY DEF Schedule
  <1>2. /\ jobs[k].state \in {"none", "cancelled"} /\ Excused({k} \cap Held)
        /\ reached' = [reached EXCEPT ![k] = 0] /\ UNCHANGED <<taken, notified, sleep, channel>>
    BY DEF Schedule
  <1>3. resetFaults' \in 0..MaxResetFault
    BY ResetBounds DEF Schedule, ResetFault, ResetShape
  <1>4. ResetShape'
    BY <1>1, <1>2, <1>3, ExcusedCounts, ResetBounds DEF ResetShape, JobRow
  <1>5. \A j \in ResetTime : Takers(j)' = Takers(j) /\ (Vouched(j)' <=> Vouched(j))
    BY <1>2 DEF Takers, Takes, Vouched
  <1>6. ASSUME NEW j \in ResetTime PROVE Once(j)'
    <2>1. CASE j # k
      <3>1. jobs'[j] = jobs[j] /\ reached'[j] = reached[j] /\ excuses'[j] = excuses[j]
        BY <1>1, <1>2, <2>1, ExcusedCounts DEF ResetShape, JobRow
      <3> QED
        BY <1>4, <1>5, <3>1, Untouched DEF Open, Free
    <2>2. CASE j = k
      <3>1. NumTakers(j)' = NumTakers(j) /\ NumTakers(j) \in Nat /\ NumTakers(j) <= excuses[j] + 1
        BY <1>5, TakersCounted DEF NumTakers, Once
      <3>2. reached'[j] = 0 /\ excuses[j] \in Nat /\ excuses'[j] \in Nat
        BY <1>2, <2>2, <1>4 DEF ResetShape, JobRow
      <3>3. NumTakers(j) <= excuses'[j]
        <4>1. CASE j \in Held
          BY <1>2, <2>2, <3>1, <3>2, <4>1, ExcusedCounts
        <4>2. CASE j \notin Held
          BY <3>1, <3>2, <4>2, HeldByTakers, TakersCounted
        <4> QED
          BY <4>1, <4>2
      <3>4. Chance(j)' \in 0..1
        BY DEF Chance
      <3> QED
        BY <3>1, <3>2, <3>3, <3>4 DEF Once, Chance
    <2> QED
      BY <2>1, <2>2
  <1> QED
    BY <1>4, <1>6

LEMMA CancelKeeps ==
  ASSUME ResetInv, Cancel
  PROVE  ResetInv'
  <1> USE DEF ResetInv
  <1>1. /\ jobs' = [j \in ResetTime |->
              IF j \in Pending THEN [jobs[j] EXCEPT !.state = "cancelled", !.lease = 0] ELSE jobs[j]]
        /\ sleep' = [t \in Timer |-> 0] /\ UNCHANGED <<taken, notified, channel, reached, excuses, resetFaults>>
    BY DEF Cancel
  <1>2. ResetShape'
    <2>1. jobs' \in [ResetTime -> JobRow]
      <3>1. ASSUME NEW j \in ResetTime PROVE [jobs[j] EXCEPT !.state = "cancelled", !.lease = 0] \in JobRow
        <4>1. jobs[j] \in JobRow
          BY DEF ResetShape
        <4> QED
          BY <4>1, ResetBounds DEF JobRow
      <3> QED
        BY <1>1, <3>1 DEF ResetShape
    <2>2. sleep' \in [Timer -> 0..MaxSleep]
      BY <1>1, ResetBounds
    <2> QED
      BY <1>1, <2>1, <2>2 DEF ResetShape
  <1>3. ASSUME NEW j \in ResetTime PROVE Once(j)'
    <2>1. jobs'[j].state # "pending"
      <3>1. jobs[j] \in JobRow
        BY DEF ResetShape
      <3> QED
        BY <1>1, <3>1 DEF Pending, JobRow
    <2>2. Takers(j)' = Takers(j)
      BY <1>1 DEF Takers, Takes
    <2> QED
      BY <1>1, <1>2, <2>1, <2>2, Untouched DEF Open, Free
  <1> QED
    BY <1>2, <1>3

LEMMA OrdersAre ==
  ASSUME NEW S \in SUBSET ResetTime, NEW order \in Orders(S)
  PROVE  /\ order \in Seq(ResetTime)
         /\ \A i, k \in DOMAIN order : order[i] = order[k] => i = k
         /\ {order[i] : i \in DOMAIN order} \subseteq S
  <1>1. IsFiniteSet(S)
    BY ResetAssumption, FS_Subset
  <1>2. Cardinality(S) \in Nat
    BY <1>1, FS_CardinalityType
  <1>3. order \in [1..Cardinality(S) -> S] /\ \A i, k \in DOMAIN order : order[i] = order[k] => i = k
    BY DEF Orders
  <1>4. order \in Seq(ResetTime)
    <2>1. \A i \in 1..Cardinality(S) : order[i] \in ResetTime
      BY <1>3
    <2> QED
      BY <1>2, <1>3, <2>1
  <1> QED
    BY <1>3, <1>4

LEMMA PassKeeps ==
  ASSUME ResetInv, NEW t \in Timer, Pass(t)
  PROVE  ResetInv'
  <1> USE DEF ResetInv
  <1> DEFINE due == IF channel THEN {j \in ResetTime : Claimable(j)} ELSE {}
  <1>1. taken[t] = << >> /\ UNCHANGED <<notified, channel, reached, excuses, resetFaults>>
    BY DEF Pass, Awake
  <1>2. CASE due = {}
    <2>1. sleep' = [sleep EXCEPT ![t] = Delay(jobs)] /\ UNCHANGED <<jobs, taken>>
      BY <1>2 DEF Pass
    <2>2. Delay(jobs) \in 0..MaxSleep
      BY DelayBounded DEF ResetShape
    <2>3. ResetShape'
      BY <1>1, <2>1, <2>2 DEF ResetShape
    <2>4. \A j \in ResetTime : Takers(j)' = Takers(j) /\ (Open(j)' <=> Open(j)) /\ (Free(j)' <=> Free(j))
      BY <1>1, <2>1 DEF Takers, Takes, Open, Vouched, Free
    <2> QED
      BY <1>1, <2>3, <2>4, Untouched
  <1>3. CASE due # {}
    <2>1. /\ jobs' = [j \in ResetTime |-> IF j \in due THEN [jobs[j] EXCEPT !.lease = Lease] ELSE jobs[j]]
          /\ sleep' = sleep
      BY <1>3 DEF Pass
    <2>2. PICK order \in Orders(due) : taken' = [taken EXCEPT ![t] = order]
      BY <1>3 DEF Pass
    <2>3. due \in SUBSET ResetTime
      OBVIOUS
    <2> DEFINE taking == {order[i] : i \in DOMAIN order}
    <2> HIDE DEF due
    <2>4. /\ order \in Seq(ResetTime) /\ taking \subseteq due
          /\ \A i, k \in DOMAIN order : order[i] = order[k] => i = k
      BY <2>2, <2>3, OrdersAre
    <2>5. ResetShape'
      <3>1. jobs' \in [ResetTime -> JobRow]
        <4>1. ASSUME NEW j \in ResetTime PROVE [jobs[j] EXCEPT !.lease = Lease] \in JobRow
          <5>1. jobs[j] \in JobRow
            BY DEF ResetShape
          <5> QED
            BY <5>1, ResetBounds DEF JobRow
        <4> QED
          BY <2>1, <4>1 DEF ResetShape
      <3>2. taken' \in [Timer -> Seq(ResetTime)]
        BY <2>2, <2>4 DEF ResetShape
      <3>3. ASSUME NEW s \in Timer PROVE \A i, k \in DOMAIN taken'[s] : taken'[s][i] = taken'[s][k] => i = k
        BY <2>2, <2>4 DEF ResetShape
      <3> QED
        BY <1>1, <2>1, <3>1, <3>2, <3>3 DEF ResetShape
    <2>6. /\ Takes(t) = {} /\ Takes(t)' = taking
          /\ \A s \in Timer \ {t} : Takes(s)' = Takes(s)
      BY <1>1, <2>2 DEF Takes, ResetShape
    <2>7. \A j \in due : Free(j) /\ Open(j)
      BY DEF due, Claimable, Pending, Free, Open
    <2>8. \A j \in due : jobs'[j].lease > 0 /\ jobs'[j].state = jobs[j].state
      <3> TAKE j \in due
      <3>1. jobs[j] \in JobRow /\ jobs'[j] = [jobs[j] EXCEPT !.lease = Lease]
        BY <2>1, <2>3 DEF ResetShape
      <3> QED
        BY <3>1, ResetBounds DEF JobRow
    <2>9. ASSUME NEW j \in ResetTime PROVE Once(j)'
      <3>1. CASE j \notin due
        <4>1. jobs'[j] = jobs[j]
          BY <2>1, <3>1
        <4>2. j \notin taking
          BY <2>4, <3>1
        <4> HIDE DEF taking
        <4>3. Takers(j)' = Takers(j) /\ (Vouched(j)' <=> Vouched(j))
          BY <1>1, <2>6, <4>2 DEF Takers, Vouched
        <4> QED
          BY <1>1, <2>5, <4>1, <4>3, Untouched DEF Open, Free
      <3>2. CASE j \in due /\ j \notin taking
        <4> HIDE DEF taking
        <4>1. Takers(j)' = Takers(j)
          BY <2>6, <3>2 DEF Takers
        <4>2. ~Free(j)' /\ Open(j)
          BY <2>7, <2>8, <3>2, <2>5 DEF Free
        <4> QED
          BY <1>1, <2>5, <4>1, <4>2, Untouched
      <3>3. CASE j \in taking
        <4>1. j \in due
          BY <2>4, <3>3
        <4> HIDE DEF taking
        <4>2. t \notin Takers(j) /\ Takers(j)' = Takers(j) \cup {t}
          BY <2>6, <3>3 DEF Takers
        <4>3. NumTakers(j) \in Nat /\ NumTakers(j)' = NumTakers(j) + 1
          BY <4>2, Counting DEF NumTakers, Takers
        <4>4. ~Free(j)' /\ Free(j)
          BY <2>7, <2>8, <4>1 DEF Free
        <4>5. Vouched(j)'
          BY <4>2 DEF Takers, Vouched
        <4>6. Chance(j) = 1 /\ Chance(j)' = 0
          BY <2>7, <2>8, <4>1, <4>4, <4>5 DEF Chance, Open
        <4>7. reached'[j] = reached[j] /\ excuses'[j] = excuses[j] /\ reached[j] \in Nat /\ excuses[j] \in Nat
          BY <1>1 DEF ResetShape
        <4> QED
          BY <2>5, <4>3, <4>4, <4>6, <4>7, Accounted
      <3> QED
        BY <3>1, <3>2, <3>3
    <2> QED
      BY <2>5, <2>9
  <1> QED
    BY <1>2, <1>3

LEMMA NotifyKeeps ==
  ASSUME ResetInv, NEW t \in Timer, NEW arrives \in BOOLEAN, NEW known \in BOOLEAN, NotifyReset(t, arrives, known)
  PROVE  ResetInv'
  <1> USE DEF ResetInv
  <1> DEFINE k == Head(taken[t])
  <1>1. /\ taken[t] # << >> /\ notified[t] = Nothing
        /\ reached' = [reached EXCEPT ![k] = reached[k] + (IF arrives THEN 1 ELSE 0)]
        /\ notified' = [notified EXCEPT ![t] = [job |-> k, ok |-> arrives /\ known]]
        /\ taken' = [taken EXCEPT ![t] = Tail(taken[t])]
        /\ UNCHANGED <<jobs, sleep, channel>>
    BY DEF NotifyReset
  <1>2. /\ taken[t] \in Seq(ResetTime)
        /\ \A i, j \in DOMAIN taken[t] : taken[t][i] = taken[t][j] => i = j
    BY DEF ResetShape
  <1>3. /\ k \in ResetTime /\ Tail(taken[t]) \in Seq(ResetTime)
        /\ \A i, j \in DOMAIN Tail(taken[t]) : Tail(taken[t])[i] = Tail(taken[t])[j] => i = j
        /\ {Tail(taken[t])[i] : i \in DOMAIN Tail(taken[t])} = Takes(t) \ {k}
        /\ k \in Takes(t)
    BY <1>1, <1>2, Uncovered DEF Takes
  <1>4. /\ resetFaults' \in 0..MaxResetFault
        /\ arrives /\ known => excuses' = excuses
        /\ arrives /\ ~known => Excused({k})
        /\ ~arrives => excuses' = excuses
    BY <1>3, ResetBounds DEF NotifyReset, ResetFault, ResetShape
  <1> HIDE DEF k
  <1>5. /\ excuses' \in [ResetTime -> Nat]
        /\ \A j \in ResetTime \ {k} : excuses'[j] = excuses[j]
        /\ excuses'[k] = IF arrives /\ ~known THEN excuses[k] + 1 ELSE excuses[k]
    BY <1>3, <1>4, ExcusedCounts DEF ResetShape
  <1>6. ResetShape'
    <2>1. taken' \in [Timer -> Seq(ResetTime)]
      BY <1>1, <1>3 DEF ResetShape
    <2>2. ASSUME NEW s \in Timer PROVE \A i, j \in DOMAIN taken'[s] : taken'[s][i] = taken'[s][j] => i = j
      BY <1>1, <1>3 DEF ResetShape
    <2>3. /\ notified' \in [Timer -> [job : ResetTime \cup {0}, ok : BOOLEAN]]
          /\ \A s \in Timer : notified'[s].job = 0 => notified'[s] = Nothing
      <3>1. [job |-> k, ok |-> arrives /\ known] \in [job : ResetTime \cup {0}, ok : BOOLEAN] /\ k # 0
        BY <1>3, ResetAssumption
      <3> QED
        BY <1>1, <3>1 DEF ResetShape
    <2>4. reached' \in [ResetTime -> Nat]
      BY <1>1, <1>3 DEF ResetShape
    <2> QED
      BY <1>1, <1>4, <1>5, <2>1, <2>2, <2>3, <2>4 DEF ResetShape
  <1>7. Takes(t)' = Takes(t) \ {k} /\ \A s \in Timer \ {t} : Takes(s)' = Takes(s)
    <2>1. taken'[t] = Tail(taken[t]) /\ \A s \in Timer \ {t} : taken'[s] = taken[s]
      BY <1>1 DEF ResetShape
    <2>2. {taken'[t][i] : i \in DOMAIN taken'[t]} = {Tail(taken[t])[i] : i \in DOMAIN Tail(taken[t])}
      BY <2>1
    <2>3. Takes(t)' = Takes(t) \ {k}
      BY <1>3, <2>2 DEF Takes
    <2>4. \A s \in Timer \ {t} : Takes(s)' = Takes(s)
      BY <2>1 DEF Takes
    <2> QED
      BY <2>3, <2>4
  <1>8. /\ notified'[t].job = k /\ (notified'[t].ok <=> arrives /\ known) /\ ~notified[t].ok
        /\ \A s \in Timer \ {t} : notified'[s] = notified[s]
    BY <1>1 DEF Nothing, ResetShape
  <1>9. ASSUME NEW j \in ResetTime PROVE Once(j)'
    <2>1. CASE j # k
      <3>1. Takers(j)' = Takers(j) /\ (Vouched(j)' <=> Vouched(j))
        BY <1>7, <1>8, <2>1 DEF Takers, Vouched
      <3>2. reached'[j] = reached[j] /\ excuses'[j] = excuses[j]
        BY <1>1, <1>5, <2>1 DEF ResetShape
      <3> QED
        BY <1>1, <1>6, <3>1, <3>2, Untouched DEF Open, Free
    <2>2. CASE j = k
      <3>1. t \in Takers(j) /\ Takers(j)' = Takers(j) \ {t}
        BY <1>3, <1>7, <2>2 DEF Takers
      <3>2. NumTakers(j) \in Nat /\ NumTakers(j)' = NumTakers(j) - 1 /\ NumTakers(j)' \in Nat
        BY <3>1, Counting DEF NumTakers, Takers
      <3>3. reached'[j] = reached[j] + (IF arrives THEN 1 ELSE 0) /\ reached[j] \in Nat /\ excuses[j] \in Nat
        BY <1>1, <2>2 DEF ResetShape
      <3>4. excuses'[j] = IF arrives /\ ~known THEN excuses[j] + 1 ELSE excuses[j]
        BY <1>5, <2>2
      <3>5. Free(j)' <=> Free(j)
        BY <1>1 DEF Free
      <3>6. Chance(j) \in 0..1 /\ Chance(j)' \in 0..1
        BY DEF Chance
      <3>7. arrives /\ known => Chance(j)' <= Chance(j)
        <4>1. arrives /\ known => Vouched(j)'
          BY <1>8, <2>2 DEF Vouched
        <4>2. Vouched(j)
          BY <1>3, <2>2 DEF Vouched
        <4> QED
          BY <1>1, <3>6, <4>1, <4>2 DEF Chance, Open
      <3> QED
        BY <1>6, <3>2, <3>3, <3>4, <3>5, <3>6, <3>7, Accounted
    <2> QED
      BY <2>1, <2>2
  <1> QED
    BY <1>6, <1>9

LEMMA CompleteKeeps ==
  ASSUME ResetInv, NEW t \in Timer, NEW stored \in BOOLEAN, Complete(t, stored)
  PROVE  ResetInv'
  <1> USE DEF ResetInv
  <1>0. PICK k \in ResetTime : k = notified[t].job
    BY DEF Complete, ResetShape
  <1> DEFINE completes == notified[t].ok /\ stored /\ k \in Pending
  <1>1. /\ notified[t] # Nothing /\ notified' = [notified EXCEPT ![t] = Nothing]
        /\ jobs' = IF completes THEN [jobs EXCEPT ![k].state = "delivered", ![k].lease = 0] ELSE jobs
        /\ sleep' = IF taken[t] = <<>> THEN [sleep EXCEPT ![t] = Delay(jobs')] ELSE sleep
        /\ UNCHANGED <<taken, channel, reached>>
    BY <1>0 DEF Complete
  <1>2. k \in ResetTime /\ notified[t].ok \in BOOLEAN
    BY DEF ResetShape
  <1>3. /\ resetFaults' \in 0..MaxResetFault
        /\ stored => excuses' = excuses
        /\ ~stored => Excused({k})
    BY <1>0, ResetBounds DEF Complete, ResetFault, ResetShape
  <1>4. /\ excuses' \in [ResetTime -> Nat]
        /\ \A j \in ResetTime \ {k} : excuses'[j] = excuses[j]
        /\ excuses'[k] = IF stored THEN excuses[k] ELSE excuses[k] + 1
    BY <1>2, <1>3, ExcusedCounts DEF ResetShape
  <1>5. /\ jobs' \in [ResetTime -> JobRow]
        /\ \A j \in ResetTime : (completes /\ j = k) \/ jobs'[j] = jobs[j]
        /\ completes => jobs'[k].state = "delivered"
    <2>1. [jobs[k] EXCEPT !.state = "delivered", !.lease = 0] \in JobRow
      <3>1. jobs[k] \in JobRow
        BY <1>2 DEF ResetShape
      <3> QED
        BY <3>1, ResetBounds DEF JobRow
    <2>2. jobs[k] \in JobRow
      BY <1>2 DEF ResetShape
    <2>3. completes => jobs' = [jobs EXCEPT ![k] = [jobs[k] EXCEPT !.state = "delivered", !.lease = 0]]
      BY <1>1, <1>2 DEF ResetShape
    <2> HIDE DEF completes
    <2>4. [jobs[k] EXCEPT !.state = "delivered", !.lease = 0].state = "delivered"
      BY <2>2 DEF JobRow
    <2> QED
      BY <1>1, <1>2, <2>1, <2>3, <2>4 DEF ResetShape
  <1>6. ResetShape'
    <2>1. Delay(jobs') \in 0..MaxSleep
      BY <1>5, DelayBounded
    <2>2. sleep' \in [Timer -> 0..MaxSleep]
      BY <1>1, <2>1 DEF ResetShape
    <2>3. /\ notified' \in [Timer -> [job : ResetTime \cup {0}, ok : BOOLEAN]]
          /\ \A s \in Timer : notified'[s].job = 0 => notified'[s] = Nothing
      BY <1>1 DEF ResetShape, Nothing
    <2> HIDE DEF completes
    <2> QED
      BY <1>1, <1>3, <1>4, <1>5, <2>2, <2>3 DEF ResetShape
  <1>7. \A j \in ResetTime : Takers(j)' = Takers(j)
    BY <1>1 DEF Takers, Takes
  <1>8. ASSUME NEW j \in ResetTime, j # k PROVE Vouched(j)' <=> Vouched(j)
    <2>1. \A s \in Timer \ {t} : notified'[s] = notified[s]
      BY <1>1 DEF ResetShape
    <2>2. ~notified'[t].ok /\ \A s \in Timer : Takes(s)' = Takes(s)
      BY <1>1 DEF ResetShape, Nothing, Takes
    <2> QED
      BY <1>0, <1>8, <2>1, <2>2 DEF Vouched
  <1>9. ~notified[t].ok => (Vouched(k)' <=> Vouched(k))
    <2>1. \A s \in Timer \ {t} : notified'[s] = notified[s]
      BY <1>1 DEF ResetShape
    <2>2. ~notified'[t].ok /\ \A s \in Timer : Takes(s)' = Takes(s)
      BY <1>1 DEF ResetShape, Nothing, Takes
    <2> QED
      BY <2>1, <2>2 DEF Vouched
  <1>10. ASSUME NEW j \in ResetTime PROVE Once(j)'
    <2>1. CASE j # k
      BY <1>1, <1>4, <1>5, <1>6, <1>7, <1>8, <2>1, Untouched DEF Open, Free
    <2>2. CASE j = k /\ stored
      <3>1. Open(j)' => Open(j)
        <4>1. CASE completes
          BY <1>5, <2>2, <4>1 DEF Open
        <4>2. CASE ~completes /\ ~notified[t].ok
          BY <1>5, <1>9, <2>2, <4>2 DEF Open
        <4>3. CASE ~completes /\ notified[t].ok
          BY <1>2, <1>5, <2>2, <4>3 DEF Open, Pending
        <4> QED
          BY <1>2, <4>1, <4>2, <4>3
      <3>2. Free(j)' => Free(j)
        BY <1>5, <2>2 DEF Free
      <3> QED
        BY <1>1, <1>3, <1>6, <1>7, <2>2, <3>1, <3>2, Untouched
    <2>3. CASE j = k /\ ~stored
      <3>1. NumTakers(j)' = NumTakers(j) /\ NumTakers(j) \in Nat
        BY <1>7, TakersCounted DEF NumTakers
      <3>2. jobs'[j] = jobs[j]
        BY <1>5, <2>3
      <3>3. Free(j)' <=> Free(j)
        BY <3>2 DEF Free
      <3>4. Chance(j) \in 0..1 /\ Chance(j)' \in 0..1
        BY DEF Chance
      <3>5. reached'[j] = reached[j] /\ reached[j] \in Nat /\ excuses[j] \in Nat /\ excuses'[j] = excuses[j] + 1
        BY <1>1, <1>4, <2>3 DEF ResetShape
      <3> QED
        BY <1>6, <3>1, <3>3, <3>4, <3>5, Accounted
    <2> QED
      BY <2>1, <2>2, <2>3
  <1> QED
    BY <1>6, <1>10

LEMMA RestartKeeps ==
  ASSUME ResetInv, NEW t \in Timer, Restart(t)
  PROVE  ResetInv'
  <1> USE DEF ResetInv
  <1>1. /\ taken' = [taken EXCEPT ![t] = <<>>] /\ notified' = [notified EXCEPT ![t] = Nothing]
        /\ sleep' = [sleep EXCEPT ![t] = 0] /\ UNCHANGED <<jobs, channel, reached>>
    BY DEF Restart
  <1>2. /\ resetFaults' \in 0..MaxResetFault
        /\ ~notified[t].ok => excuses' = excuses
        /\ notified[t].ok => Excused({notified[t].job})
    BY ResetBounds DEF Restart, ResetFault, ResetShape
  <1>3. /\ excuses' \in [ResetTime -> Nat]
        /\ \A j \in ResetTime :
             excuses'[j] = IF notified[t].ok /\ notified[t].job = j THEN excuses[j] + 1 ELSE excuses[j]
    BY <1>2, ExcusedCounts DEF ResetShape
  <1>4. ResetShape'
    <2>1. Nothing \in [job : ResetTime \cup {0}, ok : BOOLEAN]
      BY DEF Nothing
    <2>2. notified' \in [Timer -> [job : ResetTime \cup {0}, ok : BOOLEAN]]
      BY <1>1, <2>1 DEF ResetShape
    <2>3. taken' \in [Timer -> Seq(ResetTime)] /\ sleep' \in [Timer -> 0..MaxSleep]
      BY <1>1, ResetBounds DEF ResetShape
    <2>4. /\ \A s \in Timer : \A i, k \in DOMAIN taken'[s] : taken'[s][i] = taken'[s][k] => i = k
          /\ \A s \in Timer : notified'[s].job = 0 => notified'[s] = Nothing
      BY <1>1 DEF ResetShape
    <2> QED
      BY <1>1, <1>2, <1>3, <2>2, <2>3, <2>4 DEF ResetShape
  <1>5. /\ taken'[t] = << >> /\ \A s \in Timer \ {t} : taken'[s] = taken[s]
        /\ ~notified'[t].ok /\ \A s \in Timer \ {t} : notified'[s] = notified[s]
    BY <1>1 DEF ResetShape, Nothing
  <1>6. Takes(t)' = {} /\ \A s \in Timer \ {t} : Takes(s)' = Takes(s)
    BY <1>5 DEF Takes
  <1>7. ASSUME NEW j \in ResetTime PROVE Once(j)'
    <2>1. Takers(j)' = Takers(j) \ {t}
      BY <1>6 DEF Takers
    <2>2. NumTakers(j) \in Nat /\ NumTakers(j)' \in Nat /\ NumTakers(j)' <= NumTakers(j)
      BY <2>1, Counting DEF NumTakers, Takers
    <2>3. t \in Takers(j) => NumTakers(j)' = NumTakers(j) - 1
      BY <2>1, Counting DEF NumTakers, Takers
    <2>4. Chance(j) \in 0..1 /\ Chance(j)' \in 0..1 /\ (Free(j)' <=> Free(j))
      BY <1>1 DEF Chance, Free
    <2>5. reached'[j] = reached[j] /\ reached[j] \in Nat /\ excuses[j] \in Nat /\ excuses'[j] \in Nat
      BY <1>1, <1>3 DEF ResetShape
    <2>6. t \notin Takers(j) /\ ~(notified[t].ok /\ notified[t].job = j) => Chance(j)' <= Chance(j)
      <3>1. t \notin Takers(j) /\ ~(notified[t].ok /\ notified[t].job = j) => (Vouched(j)' <=> Vouched(j))
        BY <1>5, <1>6 DEF Vouched, Takers
      <3> QED
        BY <1>1, <2>4, <3>1 DEF Chance, Open
    <2>7. excuses'[j] = IF notified[t].ok /\ notified[t].job = j THEN excuses[j] + 1 ELSE excuses[j]
      BY <1>3
    <2> QED
      BY <1>4, <2>2, <2>3, <2>4, <2>5, <2>6, <2>7, Accounted
  <1> QED
    BY <1>4, <1>7

LEMMA ResetTickKeeps ==
  ASSUME ResetInv, ResetTick
  PROVE  ResetInv'
  <1> USE DEF ResetInv
  <1> DEFINE late == {j \in Held \ {0} : jobs[j].lease = 1}
  <1>1. /\ jobs' = [j \in ResetTime |-> [jobs[j] EXCEPT !.due = Less(jobs[j].due), !.lease = LeaseLeft(jobs[j].lease)]]
        /\ sleep' = [t \in Timer |-> Less(sleep[t])] /\ UNCHANGED <<taken, notified, channel, reached>>
    BY DEF ResetTick
  <1>2. resetFaults' \in 0..MaxResetFault /\ (late = {} => excuses' = excuses) /\ (late # {} => Excused(late))
    <2>1. IF late = {} THEN UNCHANGED <<excuses, resetFaults>> ELSE ResetFault /\ Excused(late)
      BY DEF ResetTick
    <2>2. ResetFault \/ UNCHANGED resetFaults
      BY <2>1
    <2> HIDE DEF late
    <2> QED
      BY <2>1, <2>2, ResetFaultCounts
  <1> HIDE DEF late
  <1>3. /\ excuses' \in [ResetTime -> Nat]
        /\ \A j \in ResetTime : excuses'[j] = IF j \in late THEN excuses[j] + 1 ELSE excuses[j]
    BY <1>2, ExcusedCounts DEF ResetShape
  <1>4. ASSUME NEW j \in ResetTime
        PROVE  /\ jobs'[j] \in JobRow /\ jobs'[j].state = jobs[j].state
               /\ jobs[j].lease # 1 => (jobs'[j].lease = 0 <=> jobs[j].lease = 0)
               /\ jobs[j].lease = 1 => jobs'[j].lease = 0
    <2>1. jobs[j] \in JobRow
      BY DEF ResetShape
    <2>2. Less(jobs[j].due) \in 0..1 /\ LeaseLeft(jobs[j].lease) \in 0..Lease
      BY <2>1, ResetBounds DEF JobRow, Less, LeaseLeft
    <2>3. /\ jobs[j].lease # 1 => (LeaseLeft(jobs[j].lease) = 0 <=> jobs[j].lease = 0)
          /\ jobs[j].lease = 1 => LeaseLeft(jobs[j].lease) = 0
      BY <2>1, ResetBounds DEF JobRow, Less, LeaseLeft
    <2>4. jobs'[j] = [jobs[j] EXCEPT !.due = Less(jobs[j].due), !.lease = LeaseLeft(jobs[j].lease)]
      BY <1>1
    <2> QED
      BY <2>1, <2>2, <2>3, <2>4 DEF JobRow
  <1>5. ResetShape'
    <2>1. jobs' \in [ResetTime -> JobRow]
      BY <1>1, <1>4
    <2>2. sleep' \in [Timer -> 0..MaxSleep]
      <3>1. \A t \in Timer : Less(sleep[t]) \in 0..MaxSleep
        BY ResetBounds DEF ResetShape, Less
      <3> QED
        BY <1>1, <3>1
    <2> QED
      BY <1>1, <1>2, <1>3, <2>1, <2>2 DEF ResetShape
  <1>6. ASSUME NEW j \in ResetTime PROVE Once(j)'
    <2>1. Takers(j)' = Takers(j) /\ (Vouched(j)' <=> Vouched(j))
      BY <1>1 DEF Takers, Takes, Vouched
    <2>2. NumTakers(j)' = NumTakers(j) /\ NumTakers(j) \in Nat /\ (Takers(j) = {} => NumTakers(j) = 0)
      BY <2>1, TakersCounted DEF NumTakers
    <2>3. CASE jobs[j].lease # 1
      <3>1. excuses'[j] = excuses[j]
        BY <1>3, <2>3 DEF late
      <3>2. Open(j)' => Open(j)
        BY <1>4, <2>1, <2>3 DEF Open
      <3>3. Free(j)' => Free(j)
        BY <1>4, <2>3 DEF Free
      <3> QED
        BY <1>1, <1>5, <2>1, <3>1, <3>2, <3>3, Untouched
    <2>4. CASE jobs[j].lease = 1 /\ j \in Held
      <3>1. excuses'[j] = excuses[j] + 1 /\ excuses[j] \in Nat /\ reached'[j] = reached[j] /\ reached[j] \in Nat
        BY <1>1, <1>3, <2>4, ResetAssumption DEF late, ResetShape
      <3>2. Chance(j) \in 0..1 /\ Chance(j)' \in 0..1
        BY DEF Chance
      <3> QED
        BY <1>5, <2>2, <3>1, <3>2, Accounted
    <2>5. CASE jobs[j].lease = 1 /\ j \notin Held
      <3>1. Takers(j) = {} /\ ~Vouched(j)
        BY <2>5, HeldByTakers
      <3>2. excuses'[j] = excuses[j] /\ excuses[j] \in Nat /\ reached'[j] = reached[j] /\ reached[j] \in Nat
        BY <1>1, <1>3, <2>5 DEF late, ResetShape
      <3>3. Chance(j)' <= Chance(j) /\ Chance(j) \in 0..1 /\ Chance(j)' \in 0..1
        BY <1>4, <3>1 DEF Chance, Open
      <3> QED
        BY <1>5, <2>2, <3>1, <3>2, <3>3, Accounted
    <2> QED
      BY <2>3, <2>4, <2>5
  <1> QED
    BY <1>5, <1>6

LEMMA ResetStepKeeps == ASSUME ResetInv, ResetNext \/ UNCHANGED resetVars PROVE ResetInv'
  <1>1. CASE ChannelChanges \/ UNCHANGED resetVars
    <2>1. /\ UNCHANGED <<jobs, taken, notified, sleep, reached, excuses>>
          /\ channel' \in BOOLEAN
      BY <1>1 DEF ChannelChanges, resetVars, ResetInv, ResetShape
    <2>4. resetFaults' \in 0..MaxResetFault
      BY <1>1, ResetFaultCounts DEF ChannelChanges, resetVars, ResetInv
    <2>2. ResetShape'
      BY <2>1, <2>4 DEF ResetInv, ResetShape
    <2>3. \A j \in ResetTime : Once(j)' <=> Once(j)
      BY <2>1 DEF Once, NumTakers, Takers, Takes, Open, Vouched
    <2> QED
      BY <2>2, <2>3 DEF ResetInv
  <1>2. ASSUME NEW t \in Timer,
               \/ TimerStep(t) \/ NotifyReset(t, TRUE, FALSE) \/ NotifyReset(t, FALSE, FALSE)
               \/ Complete(t, FALSE) \/ Restart(t)
        PROVE  ResetInv'
    BY <1>2, PassKeeps, NotifyKeeps, CompleteKeeps, RestartKeeps DEF TimerStep
  <1> QED
    BY <1>1, <1>2, ScheduleKeeps, CancelKeeps, ResetTickKeeps DEF ResetNext

-----------------------------------------------------------------------------
(* The pull of a peer's rows.                                              *)

\* One that is bounded has a greatest one.
LEMMA Greatest ==
  ASSUME NEW b \in Nat, NEW T \in SUBSET (0..b), T # {}
  PROVE  \E x \in T : \A y \in T : y <= x
  <1> DEFINE U == {b - x : x \in T}
  <1>1. U \in SUBSET Nat /\ U # {}
    <2>1. \A x \in T : b - x \in Nat
      OBVIOUS
    <2>2. PICK x \in T : TRUE
      OBVIOUS
    <2>3. b - x \in U
      OBVIOUS
    <2> QED
      BY <2>1, <2>3
  <1>2. PICK u \in U : \A w \in U : u <= w
    <2> HIDE DEF U
    <2> QED
      BY <1>1, Least
  <1>3. PICK x \in T : u = b - x
    OBVIOUS
  <1>4. ASSUME NEW y \in T PROVE y <= x
    <2>1. b - y \in U
      OBVIOUS
    <2>2. u <= b - y
      BY <1>2, <2>1
    <2>3. x \in 0..b /\ y \in 0..b
      OBVIOUS
    <2> HIDE DEF U
    <2> QED
      BY <1>3, <2>2, <2>3
  <1> QED
    BY <1>4

PullRecord == Rows \X (1..MaxVersion)
Pull == [step : {"idle", "fetch", "apply"}, prior : Start..Done, page : SUBSET PullRecord, next : Start..Done,
         pages : Nat, old : BOOLEAN]

PullShape ==
  /\ source \in [Rows -> 0..MaxVersion] /\ mirror \in [Rows -> 0..MaxVersion] /\ began \in [Rows -> 0..MaxVersion]
  /\ cursor \in Start..Done /\ ledger \subseteq PullRecord /\ pulls \in [Puller -> Pull]
  /\ mixed \in BOOLEAN /\ pullFaults \in 0..MaxPullFault

\* A page holds one version of a row.
OneVersion(page) == \A x, y \in page : x[1] = y[1] => x = y

\* A page covers the rows between its two cursors, as they were when the scan
\* began that it is of.
PageCovers(pull) ==
  \A r \in Rows : pull.prior < r /\ r <= pull.next /\ began[r] # 0 => \E x \in pull.page : x[1] = r /\ x[2] >= began[r]

PullInv ==
  /\ PullShape
  /\ \A r \in Rows : source[r] >= began[r]
  /\ \A x \in ledger : mirror[x[1]] >= x[2]
  /\ \A p \in Puller : OneVersion(pulls[p].page)
  /\ \A p \in Puller : pulls[p].step = "apply" /\ ~pulls[p].old => PageCovers(pulls[p])
  /\ ~mixed => \A r \in Rows : r <= cursor => mirror[r] >= began[r]

LEMMA PullBounds ==
  /\ MaxRow \in Nat /\ MaxVersion \in Nat /\ PageRows \in Nat /\ PageRows > 0 /\ MaxPages \in Nat /\ MaxPullFault \in Nat
  /\ Done \in Nat /\ Done = MaxRow + 1 /\ Start = 0 /\ Start \in Start..Done /\ Done \in Start..Done
  /\ Rows \subseteq Start..Done /\ MaxVersion > 0
  BY PullAssumption DEF Done, Start, Rows

LEMMA RestingIs == Resting \in Pull /\ OneVersion(Resting.page) /\ Resting.step = "idle"
  BY PullBounds DEF Resting, Pull, OneVersion

LEMMA PullInvBegins == PullInit => PullInv
  <1> SUFFICES ASSUME PullInit PROVE PullInv
    OBVIOUS
  <1> USE DEF PullInit
  <1>1. source \in [Rows -> 0..MaxVersion] /\ mirror \in [Rows -> 0..MaxVersion] /\ began = mirror
    BY PullBounds
  <1>2. PullShape
    <2>1. pulls \in [Puller -> Pull]
      BY RestingIs
    <2>2. cursor \in Start..Done /\ ledger \subseteq PullRecord /\ mixed \in BOOLEAN
      BY PullBounds
    <2>3. pullFaults \in 0..MaxPullFault
      BY PullBounds
    <2> QED
      BY <1>1, <2>1, <2>2, <2>3 DEF PullShape
  <1>3. \A r \in Rows : source[r] >= began[r] /\ mirror[r] >= began[r]
    BY <1>1
  <1>4. \A p \in Puller : pulls[p] = Resting
    OBVIOUS
  <1> QED
    BY <1>2, <1>3, <1>4, RestingIs DEF PullInv

LEMMA PullTypes == PullInv => PullTypeOK /\ ScanCovers
  <1> SUFFICES ASSUME PullInv PROVE PullTypeOK /\ ScanCovers
    OBVIOUS
  <1>1. PullTypeOK
    BY DEF PullInv, PullShape, PullTypeOK, Pull, PullRecord
  <1>2. \A r \in Rows : r <= Done
    BY PullBounds DEF Rows
  <1> QED
    BY <1>1, <1>2 DEF PullInv, ScanCovers

LEMMA PullFaultCounts == ASSUME PullShape, PullFault PROVE pullFaults' \in 0..MaxPullFault
  BY PullBounds DEF PullShape, PullFault

LEMMA RowChangesKeeps == ASSUME PullInv, NEW r \in Rows, RowChanges(r) PROVE PullInv'
  <1>1. /\ source[r] < MaxVersion /\ source' = [source EXCEPT ![r] = source[r] + 1]
        /\ UNCHANGED <<cursor, ledger, mirror, pulls, began, mixed, pullFaults>>
    BY DEF RowChanges
  <1>2. source' \in [Rows -> 0..MaxVersion] /\ \A q \in Rows : source'[q] >= source[q]
    BY <1>1, PullBounds DEF PullInv, PullShape
  <1>3. \A q \in Rows : source'[q] >= began[q]
    BY <1>2, PullBounds DEF PullInv, PullShape
  <1> QED
    BY <1>1, <1>2, <1>3 DEF PullInv, PullShape, PageCovers

LEMMA LoseKeeps == ASSUME PullInv, NEW p \in Puller, Lose(p) PROVE PullInv'
  <1>1. /\ pulls' = [pulls EXCEPT ![p] = Resting] /\ UNCHANGED <<source, cursor, ledger, mirror, began, mixed>>
        /\ pullFaults' \in 0..MaxPullFault
    BY PullFaultCounts DEF Lose, PullInv
  <1>2. pulls' \in [Puller -> Pull] /\ \A q \in Puller : pulls'[q] = pulls[q] \/ pulls'[q] = Resting
    BY <1>1, RestingIs DEF PullInv, PullShape
  <1> QED
    BY <1>1, <1>2, RestingIs DEF PullInv, PullShape, PageCovers

LEMMA BeginSyncKeeps == ASSUME PullInv, NEW p \in Puller, BeginSync(p) PROVE PullInv'
  <1> DEFINE restarts == ScanFrom # cursor
  <1>1. /\ cursor' = ScanFrom /\ began' = (IF restarts THEN source ELSE began) /\ mixed' = (mixed /\ ~restarts)
        /\ pulls' = [q \in Puller |->
             IF q = p THEN [Resting EXCEPT !.step = "fetch", !.prior = ScanFrom]
             ELSE [pulls[q] EXCEPT !.old = (pulls[q].old \/ restarts) /\ pulls[q].step = "apply"]]
        /\ UNCHANGED <<source, ledger, mirror, pullFaults>>
    BY DEF BeginSync
  <1>2. ScanFrom \in Start..Done /\ (restarts => ScanFrom = Start)
    BY PullBounds DEF ScanFrom, PullInv, PullShape
  <1>3. /\ pulls'[p] \in Pull /\ pulls'[p].step = "fetch" /\ OneVersion(pulls'[p].page)
    BY <1>1, <1>2, RestingIs DEF Resting, Pull
  <1> HIDE DEF restarts
  <1>4. ASSUME NEW q \in Puller, q # p
        PROVE  /\ pulls'[q] \in Pull /\ pulls'[q].page = pulls[q].page
               /\ pulls'[q].step = pulls[q].step /\ pulls'[q].prior = pulls[q].prior /\ pulls'[q].next = pulls[q].next
               /\ pulls[q].step = "apply" => (pulls'[q].old <=> (pulls[q].old \/ restarts))
    <2>1. pulls[q] \in Pull
      BY DEF PullInv, PullShape
    <2>2. pulls'[q] = [pulls[q] EXCEPT !.old = (pulls[q].old \/ restarts) /\ pulls[q].step = "apply"]
      BY <1>1, <1>4
    <2> QED
      BY <2>1, <2>2 DEF Pull
  <1>5. PullShape'
    <2>1. pulls' \in [Puller -> Pull]
      BY <1>1, <1>3, <1>4
    <2>2. began' \in [Rows -> 0..MaxVersion] /\ mixed' \in BOOLEAN
      BY <1>1 DEF PullInv, PullShape
    <2> QED
      BY <1>1, <1>2, <2>1, <2>2 DEF PullInv, PullShape
  <1>6. \A r \in Rows : source'[r] >= began'[r]
    BY <1>1 DEF PullInv, PullShape
  <1>7. \A q \in Puller : OneVersion(pulls'[q].page)
    BY <1>3, <1>4 DEF PullInv
  <1>8. ASSUME NEW q \in Puller, pulls'[q].step = "apply", ~pulls'[q].old PROVE PageCovers(pulls[q])' 
    <2>1. q # p /\ pulls[q].step = "apply" /\ ~pulls[q].old /\ ~restarts
      BY <1>3, <1>4, <1>8
    <2>2. PageCovers(pulls[q]) /\ began' = began
      BY <1>1, <2>1 DEF PullInv
    <2> QED
      BY <1>4, <2>1, <2>2 DEF PageCovers
  <1>9. ~mixed' => \A r \in Rows : r <= cursor' => mirror'[r] >= began'[r]
    <2>1. CASE restarts
      BY <1>1, <1>2, <2>1, PullBounds DEF Rows
    <2>2. CASE ~restarts
      <3>1. cursor' = cursor /\ began' = began /\ mixed' = mixed
        BY <1>1, <2>2 DEF restarts, PullInv, PullShape
      <3> QED
        BY <1>1, <3>1 DEF PullInv
    <2> QED
      BY <2>1, <2>2
  <1> QED
    BY <1>1, <1>5, <1>6, <1>7, <1>8, <1>9 DEF PullInv

\* A page takes the rows behind its cursor in order, and leaves out none.
LEMMA PageInOrder ==
  ASSUME PullInv, NEW position \in Start..Done
  PROVE  /\ PageAfter(position) \subseteq After(position) /\ After(position) \subseteq Rows
         /\ After(position) # {} => PageAfter(position) # {}
         /\ \A r \in PageAfter(position) : \A q \in After(position) : q <= r => q \in PageAfter(position)
  <1> DEFINE before(r) == {q \in After(position) : q < r}
  <1>1. PageAfter(position) = {r \in After(position) : Cardinality(before(r)) < PageRows}
    BY DEF PageAfter
  <1>2. After(position) \subseteq Rows /\ IsFiniteSet(After(position)) /\ Rows \subseteq Nat
    <2>1. IsFiniteSet(Rows)
      <3>1. 1 \in Int /\ MaxRow \in Int
        BY PullBounds
      <3> QED
        BY <3>1, FS_Interval DEF Rows
    <2>2. After(position) \subseteq Rows /\ Rows \subseteq Nat
      BY DEF After, Rows
    <2> QED
      BY <2>1, <2>2, FS_Subset
  <1>3. ASSUME After(position) # {} PROVE PageAfter(position) # {}
    <2>1. PICK r \in After(position) : \A q \in After(position) : r <= q
      BY <1>2, <1>3, Least
    <2>2. before(r) = {}
      <3>1. \A q \in After(position) : q \in Nat /\ r \in Nat
        BY <1>2
      <3>2. \A q \in After(position) : ~(q < r)
        BY <2>1, <3>1
      <3> QED
        BY <3>2
    <2> HIDE DEF before
    <2>3. Cardinality(before(r)) < PageRows
      BY <2>2, FS_EmptySet, PullBounds
    <2> QED
      BY <1>1, <2>3
  <1>4. ASSUME NEW r \in PageAfter(position), NEW q \in After(position), q <= r PROVE q \in PageAfter(position)
    <2>0. r \in Nat /\ q \in Nat /\ \A x \in After(position) : x \in Nat
      BY <1>1, <1>2
    <2>1. before(q) \subseteq before(r)
      <3>1. \A x \in After(position) : x < q => x < r
        BY <1>4, <2>0
      <3> QED
        BY <3>1
    <2>2. IsFiniteSet(before(r)) /\ IsFiniteSet(before(q))
      BY <1>2, FS_Subset
    <2> HIDE DEF before
    <2>3. Cardinality(before(q)) <= Cardinality(before(r)) /\ Cardinality(before(q)) \in Nat /\ Cardinality(before(r)) \in Nat
      BY <2>1, <2>2, FS_Subset, FS_CardinalityType
    <2>4. Cardinality(before(r)) < PageRows
      BY <1>1
    <2> QED
      BY <1>1, <2>3, <2>4, PullBounds
  <1> HIDE DEF before
  <1>5. PageAfter(position) \subseteq After(position)
    BY <1>1
  <1> QED
    BY <1>2, <1>3, <1>4, <1>5

LEMMA FetchKeeps == ASSUME PullInv, NEW p \in Puller, Fetch(p) PROVE PullInv'
  <1> DEFINE prior == pulls[p].prior
             rows == PageAfter(prior)
             more == After(prior) # rows
             page == {<<r, source[r]>> : r \in rows}
             next == IF more THEN CHOOSE r \in rows : \A q \in rows : q <= r ELSE Done
  <1>1. /\ pulls[p].step = "fetch" /\ UNCHANGED <<source, cursor, ledger, mirror, began, mixed, pullFaults>>
        /\ pulls' = [pulls EXCEPT ![p] = [pulls[p] EXCEPT
             !.step = "apply", !.old = FALSE, !.page = page, !.next = next]]
    BY DEF Fetch
  <1>2. pulls[p] \in Pull /\ prior \in Start..Done
    BY DEF PullInv, PullShape, Pull
  <1>3. /\ rows \subseteq After(prior) /\ After(prior) \subseteq Rows
        /\ After(prior) # {} => rows # {}
        /\ \A r \in rows : \A q \in After(prior) : q <= r => q \in rows
    BY <1>2, PageInOrder
  <1>4. \A r \in Rows : source[r] \in 0..MaxVersion /\ source[r] >= began[r]
    BY DEF PullInv, PullShape
  <1>5. page \subseteq PullRecord /\ OneVersion(page)
    <2>1. \A r \in rows : source[r] \in 1..MaxVersion
      BY <1>3, <1>4 DEF After
    <2>2. rows \subseteq Rows
      BY <1>3
    <2> HIDE DEF rows
    <2>3. page \subseteq PullRecord
      BY <2>1, <2>2 DEF PullRecord
    <2>4. OneVersion(page)
      BY DEF OneVersion
    <2> QED
      BY <2>3, <2>4
  <1>6. more => next \in rows /\ \A q \in rows : q <= next
    <2>1. CASE more
      <3>1. rows # {}
        BY <1>3, <2>1
      <3>2. rows \in SUBSET (0..Done)
        BY <1>3, PullBounds DEF Rows
      <3> HIDE DEF rows
      <3>3. \E r \in rows : \A q \in rows : q <= r
        BY <3>1, <3>2, Greatest, PullBounds
      <3>4. next = CHOOSE r \in rows : \A q \in rows : q <= r
        BY <2>1
      <3> HIDE DEF next
      <3> QED
        BY <3>3, <3>4
    <2> QED
      BY <2>1
  <1>7. next \in Start..Done
    <2>1. CASE more
      <3>1. next \in Rows
        BY <1>3, <1>6, <2>1
      <3> HIDE DEF next
      <3> QED
        BY <3>1, PullBounds
    <2>2. CASE ~more
      BY <2>2, PullBounds
    <2> QED
      BY <2>1, <2>2
  <1>8. ASSUME NEW r \in Rows, prior < r, r <= next, began[r] # 0
        PROVE  \E x \in page : x[1] = r /\ x[2] >= began[r]
    <2>1. r \in After(prior)
      <3>1. began[r] \in Nat /\ source[r] \in Nat /\ source[r] >= began[r]
        BY <1>4 DEF PullInv, PullShape
      <3> QED
        BY <1>8, <3>1, <1>2, PullBounds DEF After, Rows
    <2>2. r \in rows
      <3>1. CASE more
        BY <1>3, <1>6, <1>8, <2>1, <3>1
      <3>2. CASE ~more
        BY <2>1, <3>2
      <3> QED
        BY <3>1, <3>2
    <2>3. <<r, source[r]>> \in page
      BY <2>2
    <2> HIDE DEF page
    <2> QED
      BY <1>4, <2>3
  <1> DEFINE pull == [pulls[p] EXCEPT !.step = "apply", !.old = FALSE, !.page = page, !.next = next]
  <1> HIDE DEF page, next, rows, more
  <1>9. pull \in Pull /\ pull.page = page /\ pull.next = next /\ pull.prior = prior
    BY <1>2, <1>5, <1>7 DEF Pull
  <1>10. /\ pulls' \in [Puller -> Pull] /\ pulls'[p] = pull
         /\ \A q \in Puller \ {p} : pulls'[q] = pulls[q]
    BY <1>1, <1>9 DEF PullInv, PullShape
  <1> HIDE DEF pull
  <1>11. PageCovers(pulls[p])'
    <2>1. pulls'[p].page = page /\ pulls'[p].next = next /\ pulls'[p].prior = prior /\ began' = began
      BY <1>1, <1>9, <1>10
    <2> HIDE DEF prior
    <2> QED
      BY <1>8, <2>1 DEF PageCovers
  <1>12. PullShape'
    BY <1>1, <1>10 DEF PullInv, PullShape
  <1>13. \A q \in Puller : OneVersion(pulls'[q].page)
    BY <1>5, <1>9, <1>10 DEF PullInv
  <1>14. ASSUME NEW q \in Puller, pulls'[q].step = "apply", ~pulls'[q].old PROVE PageCovers(pulls[q])'
    <2>1. CASE q = p
      BY <1>11, <2>1
    <2>2. CASE q # p
      <3>1. PageCovers(pulls[q]) /\ pulls'[q] = pulls[q] /\ began' = began
        BY <1>1, <1>10, <1>14, <2>2 DEF PullInv
      <3> QED
        BY <3>1 DEF PageCovers
    <2> QED
      BY <2>1, <2>2
  <1> QED
    BY <1>1, <1>12, <1>13, <1>14 DEF PullInv

LEMMA ImportedKeeps ==
  ASSUME PullInv, NEW records \in SUBSET PullRecord, OneVersion(records)
  PROVE  /\ Imported(records) \in [Rows -> 0..MaxVersion]
         /\ \A r \in Rows : Imported(records)[r] >= mirror[r]
         /\ \A x \in records : Imported(records)[x[1]] >= x[2]
  <1> DEFINE newer(r) == \E x \in records : x[1] = r /\ x[2] >= mirror[r]
  <1>1. \A r \in Rows : mirror[r] \in 0..MaxVersion
    BY DEF PullInv, PullShape
  <1>2. \A x \in records : x[1] \in Rows /\ x[2] \in 1..MaxVersion
    BY DEF PullRecord
  <1>3. ASSUME NEW x \in records PROVE (CHOOSE y \in records : y[1] = x[1]) = x
    BY DEF OneVersion
  <1>4. \A r \in Rows : Imported(records)[r] = IF newer(r) THEN (CHOOSE x \in records : x[1] = r)[2] ELSE mirror[r]
    BY DEF Imported
  <1>5. ASSUME NEW r \in Rows
        PROVE  /\ Imported(records)[r] \in 0..MaxVersion /\ Imported(records)[r] >= mirror[r]
               /\ \A x \in records : x[1] = r => Imported(records)[r] >= x[2]
    <2>1. CASE newer(r)
      <3>1. PICK x \in records : x[1] = r /\ x[2] >= mirror[r]
        BY <2>1
      <3>2. (CHOOSE y \in records : y[1] = r) = x
        BY <1>3, <3>1
      <3>3. Imported(records)[r] = x[2]
        BY <1>4, <2>1, <3>2
      <3>4. \A y \in records : y[1] = r => y = x
        BY <3>1 DEF OneVersion
      <3>5. x[2] \in 1..MaxVersion /\ MaxVersion \in Nat /\ mirror[r] \in 0..MaxVersion
        BY <1>1, <1>2, PullBounds
      <3> QED
        BY <3>1, <3>3, <3>4, <3>5
    <2>2. CASE ~newer(r)
      <3>1. Imported(records)[r] = mirror[r] /\ mirror[r] \in 0..MaxVersion
        BY <1>1, <1>4, <2>2
      <3>2. ASSUME NEW x \in records, x[1] = r PROVE mirror[r] >= x[2]
        <4>1. x[2] \in 1..MaxVersion /\ ~(x[2] >= mirror[r])
          BY <1>2, <2>2, <3>2
        <4> HIDE DEF newer
        <4> QED
          BY <3>1, <4>1, PullBounds
      <3>3. mirror[r] >= mirror[r]
        BY <3>1, PullBounds
      <3> QED
        BY <3>1, <3>2, <3>3
    <2> QED
      BY <2>1, <2>2
  <1>6. Imported(records) \in [Rows -> 0..MaxVersion]
    <2>1. Imported(records) = [r \in Rows |-> Imported(records)[r]]
      BY DEF Imported
    <2> QED
      BY <1>5, <2>1
  <1> QED
    BY <1>2, <1>5, <1>6

LEMMA ApplyKeeps == ASSUME PullInv, NEW p \in Puller, Apply(p) PROVE PullInv'
  <1> DEFINE pull == pulls[p]
             new == NewRecords(pull.page)
  <1>1. pulls[p].step = "apply" /\ UNCHANGED <<source, began, pullFaults>>
    BY DEF Apply
  <1>2. pull \in Pull /\ OneVersion(pull.page)
    BY DEF PullInv, PullShape
  <1>3. CASE ~AtCursor(p)
    <2>1. pulls' = [pulls EXCEPT ![p] = Resting] /\ UNCHANGED <<cursor, ledger, mirror, mixed>>
      BY <1>3 DEF Apply
    <2>2. pulls' \in [Puller -> Pull] /\ \A q \in Puller : pulls'[q] = pulls[q] \/ pulls'[q] = Resting
      BY <2>1, RestingIs DEF PullInv, PullShape
    <2> QED
      BY <1>1, <2>1, <2>2, RestingIs DEF PullInv, PullShape, PageCovers
  <1>4. CASE AtCursor(p)
    <2>1. /\ mirror' = Imported(new) /\ ledger' = ledger \cup new /\ cursor' = pull.next
          /\ mixed' = (mixed \/ (pull.old /\ cursor = pull.prior))
          /\ pulls' = [pulls EXCEPT ![p] =
               IF pull.next = Done \/ pull.pages + 1 = MaxPages THEN Resting
               ELSE [Resting EXCEPT !.step = "fetch", !.prior = pull.next, !.pages = pull.pages + 1]]
      BY <1>4 DEF Apply
    <2>2. cursor = pull.prior
      BY <1>4 DEF AtCursor
    <2>3. new \in SUBSET PullRecord /\ OneVersion(new) /\ new \subseteq pull.page
      BY <1>2 DEF NewRecords, Pull, OneVersion
    <2>4. /\ mirror' \in [Rows -> 0..MaxVersion] /\ \A r \in Rows : mirror'[r] >= mirror[r]
          /\ \A x \in new : mirror'[x[1]] >= x[2]
      BY <2>1, <2>3, ImportedKeeps
    <2>5. \A q \in Puller : pulls'[q] = pulls[q] \/
            (q = p /\ pulls'[q] \in Pull /\ pulls'[q].page = {} /\ pulls'[q].step # "apply")
      <3>1. [Resting EXCEPT !.step = "fetch", !.prior = pull.next, !.pages = pull.pages + 1] \in Pull
        <4>1. pull.next \in Start..Done /\ pull.pages + 1 \in Nat
          BY <1>2 DEF Pull
        <4> HIDE DEF pull
        <4> QED
          BY <4>1, RestingIs DEF Resting, Pull
      <3>2. /\ [Resting EXCEPT !.step = "fetch", !.prior = pull.next, !.pages = pull.pages + 1].page = {}
            /\ [Resting EXCEPT !.step = "fetch", !.prior = pull.next, !.pages = pull.pages + 1].step = "fetch"
            /\ Resting.page = {} /\ Resting.step = "idle"
        BY DEF Resting
      <3> HIDE DEF pull
      <3> QED
        BY <2>1, <3>1, <3>2, RestingIs DEF PullInv, PullShape
    <2>6. PullShape'
      <3>1. pulls' \in [Puller -> Pull]
        <4>1. DOMAIN pulls' = Puller /\ pulls' = [q \in Puller |-> pulls'[q]]
          BY <2>1 DEF PullInv, PullShape
        <4> QED
          BY <2>5, <4>1 DEF PullInv, PullShape
      <3>2. cursor' \in Start..Done /\ ledger' \subseteq PullRecord
        BY <1>2, <2>1, <2>3 DEF Pull, PullInv, PullShape
      <3>3. mixed' \in BOOLEAN
        BY <2>1
      <3> QED
        BY <1>1, <2>4, <3>1, <3>2, <3>3 DEF PullInv, PullShape
    <2>7. \A x \in ledger' : mirror'[x[1]] >= x[2]
      <3>1. ASSUME NEW x \in ledger PROVE mirror'[x[1]] >= x[2]
        <4>1. x[1] \in Rows /\ x[2] \in 1..MaxVersion /\ mirror[x[1]] >= x[2]
          BY DEF PullInv, PullShape, PullRecord
        <4>2. mirror'[x[1]] \in 0..MaxVersion /\ mirror[x[1]] \in 0..MaxVersion /\ mirror'[x[1]] >= mirror[x[1]]
          BY <2>4, <4>1 DEF PullInv, PullShape
        <4> QED
          BY <4>1, <4>2, PullBounds
      <3> QED
        BY <2>1, <2>4, <3>1
    <2>8. \A q \in Puller : OneVersion(pulls'[q].page)
      BY <2>5 DEF PullInv, OneVersion
    <2>9. \A q \in Puller : pulls'[q].step = "apply" /\ ~pulls'[q].old => PageCovers(pulls[q])'
      BY <1>1, <2>5 DEF PullInv, PageCovers
    <2>10. ASSUME ~mixed', NEW r \in Rows, r <= cursor' PROVE mirror'[r] >= began'[r]
      <3>1. ~mixed /\ ~pull.old /\ began' = began
        BY <1>1, <2>1, <2>2, <2>10
      <3>2. PageCovers(pull)
        BY <1>1, <3>1 DEF PullInv
      <3>3. mirror'[r] \in Nat /\ mirror[r] \in Nat /\ mirror'[r] >= mirror[r] /\ began[r] \in Nat
        BY <2>4, PullBounds DEF PullInv, PullShape
      <3>4. r \in Nat /\ cursor \in Nat
        BY PullBounds DEF PullInv, PullShape, Rows
      <3>5. CASE r <= cursor
        <4>1. mirror[r] >= began[r]
          BY <3>1, <3>5 DEF PullInv
        <4> QED
          BY <3>1, <3>3, <4>1
      <3>6. CASE ~(r <= cursor) /\ began[r] # 0
        <4>1. PICK x \in pull.page : x[1] = r /\ x[2] >= began[r]
          BY <2>1, <2>2, <2>10, <3>2, <3>4, <3>6 DEF PageCovers
        <4>2. x[2] \in Nat
          BY <1>2 DEF Pull, PullRecord
        <4>3. mirror'[r] >= x[2]
          <5>1. CASE x \in ledger
            BY <2>1, <2>7, <4>1, <5>1
          <5>2. CASE x \notin ledger
            BY <2>4, <4>1, <5>2 DEF NewRecords
          <5> QED
            BY <5>1, <5>2
        <4> QED
          BY <3>1, <3>3, <4>1, <4>2, <4>3
      <3>7. CASE began[r] = 0
        BY <3>1, <3>3, <3>7
      <3> QED
        BY <3>5, <3>6, <3>7
    <2>11. \A r \in Rows : source'[r] >= began'[r]
      BY <1>1 DEF PullInv
    <2> QED
      BY <2>6, <2>7, <2>8, <2>9, <2>10, <2>11 DEF PullInv
  <1> QED
    BY <1>3, <1>4

LEMMA PullStepKeeps == ASSUME PullInv, PullNext \/ UNCHANGED pullVars PROVE PullInv'
  <1>1. CASE UNCHANGED pullVars
    BY <1>1 DEF pullVars, PullInv, PullShape, PageCovers
  <1> QED
    BY <1>1, BeginSyncKeeps, FetchKeeps, ApplyKeeps, LoseKeeps, RowChangesKeeps DEF PullNext, PullStep

-----------------------------------------------------------------------------
(* The conditional write of a file.                                        *)

\* The requests that hold their two files open.
Holding == {"prepared", "checked", "exchanged", "accepted", "restore", "candidate", "displaced", "undone"}

FileShape ==
  /\ step \in Ended \cup Holding \cup {"open"}
  /\ names \in [target : Inode, temp : Inode \cup {Absent}] /\ names.temp # names.target
  /\ text \in [Inode -> Requested..MaxEdit] /\ newest \in 0..MaxEdit /\ aliased \in BOOLEAN
  /\ restore \in [expected : Inode \cup {Absent}, candidate : Inode \cup {Absent}, round : 0..MaxRestore]
  /\ step = "open" => names.temp = Absent
  /\ step \in Holding => {names.temp, original, ours} \subseteq Inode
  /\ step \in {"prepared", "checked"} => names.temp = ours
  /\ step = "candidate" => restore.candidate = names.temp
  /\ step \in {"candidate", "displaced"} => restore.round < MaxRestore

\* The editors' newest text is under the target's name, or under the temporary.
AtTarget == newest = text[names.target]
AtTemp == names.temp # Absent /\ newest = text[names.temp]

\* Where the editors' newest text is, at every step of the request: what the
\* request put under the target's name, or found there, tells the editors' file
\* from its own.
NewestPlaced ==
  /\ step \in {"open", "prepared", "checked"} => AtTarget
  /\ ~aliased =>
       /\ step = "exchanged" => IF names.target = ours THEN AtTemp ELSE AtTarget
       /\ step \in {"accepted", "ok"} => AtTarget \/ newest = 0
       /\ step \in {"restore", "candidate"} => IF names.target = restore.expected THEN AtTemp ELSE AtTarget
       /\ step = "displaced" =>
            IF names.temp # restore.expected /\ names.target = restore.candidate THEN AtTemp ELSE AtTarget
       /\ step \in {"undone", "conflict"} => AtTarget
       /\ step = "busy" => AtTarget \/ AtTemp
       /\ step = "crashed" => AtTarget \/ AtTemp \/ newest = 0

FileInv == FileShape /\ NewestPlaced

LEMMA FileInvBegins == FileInit => FileInv
  <1> SUFFICES ASSUME FileInit PROVE FileInv
    OBVIOUS
  <1>1. PICK i \in Inode : names = [target |-> i, temp |-> Absent]
    BY DEF FileInit
  <1>2. step = "open" /\ newest = 0 /\ text = [j \in Inode |-> 0] /\ restore = NoRestore /\ aliased = FALSE
    BY DEF FileInit
  <1>3. names.target = i /\ names.temp = Absent /\ text[i] = 0 /\ i # Absent
    BY <1>1, <1>2, FileAssumption
  <1>4. FileShape
    <2>1. names \in [target : Inode, temp : Inode \cup {Absent}] /\ names.temp # names.target
      BY <1>1, <1>3
    <2>2. text \in [Inode -> Requested..MaxEdit] /\ newest \in 0..MaxEdit
      BY <1>2, FileAssumption DEF Requested
    <2>3. restore \in [expected : Inode \cup {Absent}, candidate : Inode \cup {Absent}, round : 0..MaxRestore]
      BY <1>2, FileAssumption DEF NoRestore
    <2> QED
      BY <1>2, <1>3, <2>1, <2>2, <2>3 DEF FileShape, Ended, Holding
  <1>5. NewestPlaced
    BY <1>2, <1>3 DEF NewestPlaced, AtTarget
  <1> QED
    BY <1>4, <1>5 DEF FileInv

LEMMA NewestUnderAName == FileInv => NewestKept
  <1> SUFFICES ASSUME FileInv PROVE NewestKept
    OBVIOUS
  <1>1. AtTarget => newest \in NamedText
    BY FileAssumption DEF FileInv, FileShape, AtTarget, NamedText
  <1>2. AtTemp => newest \in NamedText
    BY FileAssumption DEF FileInv, FileShape, AtTemp, NamedText
  <1> QED
    BY <1>1, <1>2 DEF FileInv, FileShape, NewestPlaced, NewestKept, Ended, Holding

LEMMA FileTypes == FileInv => FileTypeOK
  BY DEF FileInv, FileShape, FileTypeOK, Ended, Holding

\* A step of the request that changes no text and no observer.
LEMMA RequestSteps ==
  ASSUME FileInv, UNCHANGED <<text, newest, aliased>>,
         Revalidate \/ Exchange \/ Verify \/ Candidate \/ PutBack \/ Inspect \/ RemoveTemp \/ RequestDies
  PROVE  FileInv'
  <1> USE FileAssumption DEF FileInv, FileShape, NewestPlaced, AtTarget, AtTemp, Ended, Holding
  <1>1. CASE Revalidate
    BY <1>1 DEF Revalidate, Unchanged
  <1>2. CASE Exchange
    BY <1>2 DEF Exchange, Swapped
  <1>3. CASE Verify
    BY <1>3 DEF Verify, DisplacedMatches, Unchanged, NoRestore
  <1>4. CASE Candidate
    BY <1>4 DEF Candidate
  <1>5. CASE PutBack
    BY <1>5 DEF PutBack, Swapped
  <1>6. CASE Inspect
    BY <1>6 DEF Inspect, Restored
  <1>7. CASE RemoveTemp
    BY <1>7 DEF RemoveTemp
  <1>8. CASE RequestDies
    BY <1>8 DEF RequestDies
  <1> QED
    BY <1>1, <1>2, <1>3, <1>4, <1>5, <1>6, <1>7, <1>8

LEMMA PrepareKeeps == ASSUME FileInv, Prepare PROVE FileInv'
  <1> USE FileAssumption DEF FileInv, FileShape, NewestPlaced, AtTarget, AtTemp, Ended, Holding
  <1>1. CASE text[names.target] # 0
    BY <1>1 DEF Prepare
  <1>2. CASE text[names.target] = 0
    <2>1. PICK i \in Unused : /\ original' = names.target /\ ours' = i
                              /\ text' = [text EXCEPT ![i] = Requested]
                              /\ names' = [names EXCEPT !.temp = i]
                              /\ step' = "prepared"
      BY <1>2 DEF Prepare
    <2>2. i \in Inode /\ i # names.target
      BY DEF Unused
    <2>3. UNCHANGED <<restore, newest, aliased>> /\ step = "open"
      BY DEF Prepare
    <2> QED
      BY <2>1, <2>2, <2>3 DEF Requested
  <1> QED
    BY <1>1, <1>2

LEMMA ReplaceKeeps == ASSUME FileInv, Replace PROVE FileInv'
  <1> USE FileAssumption DEF FileInv, FileShape, AtTarget, AtTemp
  <1>1. PICK i \in Unused : /\ text' = [text EXCEPT ![i] = newest + 1]
                            /\ names' = [names EXCEPT !.target = i]
                            /\ aliased' = (aliased \/ (Restoring /\ i \in {restore.expected, restore.candidate}))
    BY DEF Replace
  <1>2. i \in Inode /\ i # names.target /\ i # names.temp /\ (step \notin Ended => i # original /\ i # ours)
    BY DEF Unused
  <1>3. newest < MaxEdit /\ newest' = newest + 1 /\ UNCHANGED <<step, original, ours, restore>>
    BY DEF Replace
  <1>4. AtTarget' /\ names'.target = i /\ names'.temp = names.temp
    BY <1>1, <1>2, <1>3
  <1>5. FileShape'
    BY <1>1, <1>2, <1>3, <1>4 DEF Requested, Holding, Ended
  <1>6. NewestPlaced'
    BY <1>1, <1>2, <1>3, <1>4 DEF NewestPlaced, Restoring, Ended, Holding
  <1> QED
    BY <1>5, <1>6

LEMMA OverwriteKeeps == ASSUME FileInv, Overwrite PROVE FileInv'
  BY FileAssumption DEF FileInv, FileShape, NewestPlaced, AtTarget, AtTemp, Ended, Holding, Overwrite, Requested

LEMMA FileStepKeeps == ASSUME FileInv, FileNext \/ UNCHANGED editVars PROVE FileInv'
  <1>1. CASE Revalidate \/ Exchange \/ Verify \/ Candidate \/ PutBack \/ Inspect \/ RemoveTemp \/ RequestDies
    BY <1>1, RequestSteps DEF Revalidate, Exchange, Verify, Candidate, PutBack, Inspect, RemoveTemp, RequestDies
  <1>2. CASE UNCHANGED editVars
    BY <1>2 DEF editVars, FileInv, FileShape, NewestPlaced, AtTarget, AtTemp
  <1> QED
    BY <1>1, <1>2, PrepareKeeps, ReplaceKeeps, OverwriteKeeps DEF FileNext

-----------------------------------------------------------------------------
(* All of them.                                                            *)

ServicesInv == AlertInv /\ ResetInv /\ PullInv /\ FileInv

LEMMA ServicesInvHolds == ServicesSpec => []ServicesInv
  <1>1. ServicesInit => ServicesInv
    BY AlertInvBegins, ResetInvBegins, PullInvBegins, FileInvBegins DEF ServicesInit, ServicesInv
  <1>2. ServicesInv /\ [ServicesNext]_servicesVars => ServicesInv'
    <2> SUFFICES ASSUME ServicesInv, [ServicesNext]_servicesVars PROVE ServicesInv'
      OBVIOUS
    <2>1. /\ AlertNext \/ UNCHANGED alertVars
          /\ ResetNext \/ UNCHANGED resetVars
          /\ PullNext \/ UNCHANGED pullVars
          /\ FileNext \/ UNCHANGED editVars
      BY DEF ServicesNext, Is, servicesVars
    <2> QED
      BY <2>1, AlertStepKeeps, ResetStepKeeps, PullStepKeeps, FileStepKeeps DEF ServicesInv
  <1> QED
    BY <1>1, <1>2, PTL DEF ServicesSpec

\* A rate limit's resume reaches its channel once for each time it was scheduled
\* but for what excuses a repetition (pulse/reset.rs run_scheduler).  What editors
\* wrote last is under the file's name or the temporary one at every moment of a
\* conditional write (workspace.rs write_file), crashes included, unless the write
\* replaced just the text it expected, or an inode number that it compares was
\* given to another file.
THEOREM ServicesStaySafe == ServicesSpec => []ServicesSafe
  <1>1. ServicesInv => ServicesSafe
    BY AlertTypes, ResetTypes, PullTypes, FileTypes, NewestUnderAName DEF ServicesInv, ServicesSafe
  <1> QED
    BY <1>1, ServicesInvHolds, PTL

\* A completed scan has covered the peer (apply_federation_page), however the
\* pulls of several processes, lost pages and crashes cut it up, unless it took a
\* page that an earlier scan had fetched for the very position it stood at.
THEOREM ScansCover == ServicesSpec => []ScanCovers
  <1>1. ServicesInv => ScanCovers
    BY PullTypes DEF ServicesInv
  <1> QED
    BY <1>1, ServicesInvHolds, PTL
=============================================================================
