------------------------ MODULE CliMaintenanceProofs ------------------------
(* Proofs about CliMaintenance for every number of processes, panes,       *)
(* harnesses and conversations and every bound.                            *)
EXTENDS CliMaintenance, TLAPS

USE DEF Harness

LEMMA NextIsHarness == 1 \in Harness /\ \A h \in Harness : h < NumHarness => h + 1 \in Harness
  BY NumHarnessAssumption

LEMMA NoneIsNoIntent == None \notin Intent
  BY NoneAssumption

LEMMA DefaultType == DefaultState \in MaintenanceState
  BY DEF DefaultState, MaintenanceState, DefaultHarness, HarnessState

LEMMA ReconcileType ==
  ASSUME NEW s \in HarnessState, NEW d \in Digest
  PROVE  Reconcile(s, d) \in HarnessState
  <1>1. CASE s.intent = None
    BY <1>1 DEF Reconcile, HarnessState
  <1>2. CASE s.intent # None
    <2>1. s.intent \in Intent
      BY <1>2 DEF HarnessState
    <2>2. s.intent.plans \in SUBSET Plan /\ s.gen + 1 \in Nat
      BY <2>1 DEF Intent, HarnessState
    <2>3. [s EXCEPT !.applied = d, !.intent = None] \in HarnessState
      BY DEF HarnessState
    <2>4. [s EXCEPT !.applied = d, !.intent = None, !.gen = s.gen + 1,
                    !.pending = s.intent.plans] \in HarnessState
      BY <2>2 DEF HarnessState
    <2> QED
      BY <1>2, <2>3, <2>4 DEF Reconcile
  <1> QED
    BY <1>1, <1>2

LEMMA PrepareIntentType ==
  ASSUME NEW s \in HarnessState, NEW d \in Digest, NEW Q \in SUBSET Plan
  PROVE  PrepareIntent(s, d, Q) \in HarnessState
  <1> DEFINE b == IF s.applied = None THEN d ELSE s.applied
  <1>1. b \in Digest
    BY DEF HarnessState
  <1>2. [baseline |-> b, plans |-> Q] \in Intent
    BY <1>1 DEF Intent
  <1> HIDE DEF b
  <1>3. [s EXCEPT !.applied = b, !.intent = [baseline |-> b, plans |-> Q]] \in HarnessState
    BY <1>1, <1>2 DEF HarnessState
  <1> QED
    BY <1>3 DEF PrepareIntent, b

LEMMA PrepareIntentOpens ==
  ASSUME NEW s \in HarnessState, NEW d \in Digest, NEW Q \in SUBSET Plan
  PROVE  PrepareIntent(s, d, Q).intent \in Intent
  <1> DEFINE b == IF s.applied = None THEN d ELSE s.applied
  <1>1. b \in Digest
    BY DEF HarnessState
  <1>2. [baseline |-> b, plans |-> Q] \in Intent
    BY <1>1 DEF Intent
  <1> HIDE DEF b
  <1>3. [s EXCEPT !.applied = b, !.intent = [baseline |-> b, plans |-> Q]].intent \in Intent
    BY <1>2 DEF HarnessState
  <1> QED
    BY <1>3 DEF PrepareIntent, b

LEMMA SetHarnessType ==
  ASSUME NEW m \in MaintenanceState, NEW h \in Harness, NEW s \in HarnessState
  PROVE  SetHarness(m, h, s) \in MaintenanceState
  BY DEF SetHarness, MaintenanceState

LEMMA ReconcileAllType ==
  ASSUME TypeOK, NEW m \in MaintenanceState, NEW H
  PROVE  ReconcileAll(m, H) \in MaintenanceState
  <1>1. \A h \in Harness : m.hs[h] \in HarnessState /\ installed[h] \in Digest
    BY DEF TypeOK, MaintenanceState
  <1>2. \A h \in Harness : Reconcile(m.hs[h], installed[h]) \in HarnessState
    BY <1>1, ReconcileType
  <1> QED
    BY <1>1, <1>2 DEF ReconcileAll, MaintenanceState

LEMMA PlanOfType ==
  ASSUME TypeOK, NEW p \in Pane
  PROVE  PlanOf(p) \in Plan
  BY DEF TypeOK, PlanOf, Plan

LEMMA VisitType ==
  ASSUME NEW m \in MaintenanceState, NEW h \in Harness
  PROVE  Visit(m, h) \in SUBSET Plan
  BY DEF Visit, MaintenanceState, HarnessState

-----------------------------------------------------------------------------
(* Type correctness.                                                       *)

LEMMA EndCycleType ==
  ASSUME TypeOK, NEW i \in Proc, EndCycle(i)
  PROVE  /\ owner' \in Proc \cup {None} /\ pc' \in [Proc -> PC]
         /\ mem' \in [Proc -> MaintenanceState] /\ hx' \in [Proc -> Harness]
         /\ todo' \in [Proc -> SUBSET Plan] /\ kept' \in [Proc -> SUBSET Plan]
         /\ tries' \in [Proc -> Nat] /\ plan' \in [Proc -> Plan \cup {None}]
  BY DefaultType, NextIsHarness DEF TypeOK, EndCycle, ReleaseOwner, PC

LEMMA GenType ==
  ASSUME TypeOK, NEW i \in Proc
  PROVE  /\ Gen(i) \in Nat
         /\ \A q \in Plan : Key(hx[i], Gen(i), q) \in Keys
         /\ \A q \in Plan : \A ph \in Phase : Claim(i, q, ph) \in Marker
  <1>1. hx[i] \in Harness /\ mem[i] \in MaintenanceState
    BY DEF TypeOK
  <1>2. mem[i].hs[hx[i]] \in HarnessState
    BY <1>1 DEF MaintenanceState
  <1>3. Gen(i) \in Nat
    BY <1>2 DEF Gen, HarnessState
  <1>4. \A q \in Plan : q.conv \in Conv
    BY DEF Plan
  <1> QED
    BY <1>1, <1>3, <1>4 DEF Key, Keys, Claim, Marker

LEMMA InitType == Init => TypeOK
  BY DefaultType, NextIsHarness DEF Init, TypeOK, PC

(* Every step of a process's cycle outside the relaunch pass.              *)
LEMMA CycleType ==
  ASSUME TypeOK, NEW i \in Proc, CycleStep(i)
  PROVE  TypeOK'
  <1>0. /\ mem[i] \in MaintenanceState /\ mem \in [Proc -> MaintenanceState]
        /\ hx[i] \in Harness /\ \A h \in Harness : mem[i].hs[h] \in HarnessState
        /\ \A h \in Harness : installed[h] \in Digest
        /\ faults \in Nat /\ kept[i] \in SUBSET Plan
    BY DEF TypeOK, MaintenanceState
  <1>1. CASE TryOwner(i)
    BY <1>1, DefaultType DEF TypeOK, TryOwner, paneVars, budgetVars, histVars, PC, InUpdate
  <1>2. CASE EstablishBaselines(i)
    <2>1. PICK ok \in SUBSET Harness :
            /\ IF ok = Harness THEN UNCHANGED faults ELSE Fault
            /\ mem' = [mem EXCEPT ![i] = [ReconcileAll(mem[i], ok) EXCEPT !.checked = TRUE]]
      BY <1>2 DEF EstablishBaselines
    <2>2. [ReconcileAll(mem[i], ok) EXCEPT !.checked = TRUE] \in MaintenanceState
      <3>1. ReconcileAll(mem[i], ok) \in MaintenanceState
        BY <1>0, ReconcileAllType
      <3> QED
        BY <3>1 DEF MaintenanceState
    <2>3. faults' \in Nat /\ mem' \in [Proc -> MaintenanceState]
      BY <1>0, <2>1, <2>2 DEF Fault
    <2> QED
      BY <1>2, <2>3 DEF TypeOK, EstablishBaselines, fileVars, paneVars, histVars,
         PC, InUpdate
  <1>3. ASSUME NEW due \in BOOLEAN, CheckDue(i, due) PROVE TypeOK'
    BY <1>3, NextIsHarness
       DEF TypeOK, CheckDue, fileVars, paneVars, budgetVars, histVars, PC, InUpdate
  <1>4. CASE SkipHarness(i)
    <2>1. faults' \in Nat
      BY <1>0, <1>4 DEF SkipHarness, Fault
    <2>2. NextHarness(i)
      BY <1>4 DEF SkipHarness
    <2>3. hx' \in [Proc -> Harness] /\ pc' \in [Proc -> PC]
      BY <1>0, <2>2, NextIsHarness DEF TypeOK, NextHarness, PC, InUpdate
    <2> QED
      BY <1>4, <2>1, <2>3 DEF TypeOK, SkipHarness, fileVars, paneVars, histVars
  <1>5. CASE Intend(i)
    <2> DEFINE h == hx[i]
               m(S) == SetHarness(mem[i], h, PrepareIntent(mem[i].hs[h], installed[h],
                                                           {PlanOf(p) : p \in S}))
    <2>1. \A S \in SUBSET Pane : m(S) \in MaintenanceState
      <3> TAKE S \in SUBSET Pane
      <3>1. {PlanOf(p) : p \in S} \in SUBSET Plan
        BY PlanOfType
      <3>2. mem[i].hs[h] \in HarnessState /\ installed[h] \in Digest
        BY <1>0
      <3> QED
        BY <1>0, <3>1, <3>2, PrepareIntentType, SetHarnessType
    <2>2. PICK S \in SUBSET Pane :
            \/ /\ Store(m(S))
               /\ mem' = [mem EXCEPT ![i] = m(S)]
               /\ pc' = [pc EXCEPT ![i] = "update"]
               /\ UNCHANGED <<owner, hx, todo, kept, tries, plan, faults>>
            \/ StoreFails(i, m(S))
      BY <1>5 DEF Intend
    <2>3. m(S) \in MaintenanceState
      BY <2>1
    <2>4. UNCHANGED <<installed, plock, paneVars, changes, crashes, misses, damages,
                      histVars>>
      BY <1>5 DEF Intend
    <2> HIDE DEF m
    <2>5. CASE StoreFails(i, m(S))
      <3>1. file' \in {"absent", "ok", "unreadable"} /\ disk' \in MaintenanceState
            /\ faults' \in Nat
        BY <1>0, <2>3, <2>5 DEF TypeOK, StoreFails, Store, Fault, fileVars
      <3> QED
        BY <2>4, <2>5, <3>1, EndCycleType DEF TypeOK, StoreFails, paneVars, histVars
    <2> QED
      BY <2>2, <2>3, <2>4, <2>5 DEF TypeOK, Store, paneVars, histVars, PC, InUpdate
  <1>6. CASE Update(i)
    <2> DEFINE h == hx[i]
    <2>1. PICK d \in Digest :
            /\ Install(h, d)
            /\ \/ /\ mem' = [mem EXCEPT ![i] = SetHarness(@, h, Reconcile(@.hs[h], d))]
                  /\ UNCHANGED faults
               \/ Fault /\ UNCHANGED mem
      BY <1>6 DEF Update
    <2>2. SetHarness(mem[i], h, Reconcile(mem[i].hs[h], d)) \in MaintenanceState
      BY <1>0, ReconcileType, SetHarnessType
    <2>3. mem' \in [Proc -> MaintenanceState] /\ faults' \in Nat
      BY <1>0, <2>1, <2>2 DEF Fault
    <2>4. installed' \in [Harness -> Digest] /\ changes' \in [Harness -> Nat]
      BY <1>0, <2>1 DEF TypeOK, Install
    <2> QED
      BY <1>6, <2>3, <2>4 DEF TypeOK, Update, fileVars, paneVars, histVars, PC, InUpdate
  <1>7. CASE Commit(i)
    <2>1. CASE StoreFails(i, mem[i])
      <3>1. file' \in {"absent", "ok", "unreadable"} /\ disk' \in MaintenanceState
            /\ faults' \in Nat
        BY <1>0, <2>1 DEF TypeOK, StoreFails, Store, Fault, fileVars
      <3> QED
        BY <1>7, <2>1, <3>1, EndCycleType DEF TypeOK, Commit, StoreFails, paneVars, histVars
    <2>2. CASE Store(mem[i]) /\ NextHarness(i)
               /\ UNCHANGED <<owner, mem, todo, kept, tries, plan, faults>>
      <3>1. hx' \in [Proc -> Harness] /\ pc' \in [Proc -> PC]
        BY <1>0, <2>2, NextIsHarness DEF TypeOK, NextHarness, PC, InUpdate
      <3> QED
        BY <1>0, <1>7, <2>2, <3>1 DEF TypeOK, Commit, Store, paneVars, histVars
    <2> QED
      BY <1>7, <2>1, <2>2 DEF Commit
  <1>8. CASE Recover(i)
    <2> DEFINE open == {h \in Harness : mem[i].hs[h].intent # None}
    <2>0. PICK ok \in SUBSET open :
            /\ IF ok = open THEN UNCHANGED faults ELSE Fault
            /\ mem' = [mem EXCEPT ![i] = ReconcileAll(mem[i], ok)]
      BY <1>8 DEF Recover
    <2>1. faults' \in Nat /\ mem' = [mem EXCEPT ![i] = ReconcileAll(mem[i], ok)]
      BY <1>0, <2>0 DEF Fault
    <2>2. mem' \in [Proc -> MaintenanceState]
      BY <1>0, <2>1, ReconcileAllType
    <2>3. Visit(mem'[i], 1) \in SUBSET Plan
      BY <2>2, VisitType, NextIsHarness
    <2> QED
      BY <1>8, <2>1, <2>2, <2>3, NextIsHarness
         DEF TypeOK, Recover, fileVars, paneVars, histVars, PC, InWorker
  <1>9. CASE FinishHarness(i)
    <2> DEFINE h == hx[i]
               m == IF mem[i].hs[h].applied = None THEN mem[i]
                    ELSE [mem[i] EXCEPT !.hs[h].pending = kept[i]]
    <2>1. m \in MaintenanceState
      <3>1. [mem[i].hs[h] EXCEPT !.pending = kept[i]] \in HarnessState
        BY <1>0 DEF HarnessState
      <3>2. [mem[i] EXCEPT !.hs[h] = [mem[i].hs[h] EXCEPT !.pending = kept[i]]]
              \in MaintenanceState
        BY <1>0, <3>1, SetHarnessType DEF SetHarness
      <3>3. [mem[i] EXCEPT !.hs[h].pending = kept[i]]
              = [mem[i] EXCEPT !.hs[h] = [mem[i].hs[h] EXCEPT !.pending = kept[i]]]
        OBVIOUS
      <3> QED
        BY <1>0, <3>2, <3>3
    <2>2. h < NumHarness => Visit(m, h + 1) \in SUBSET Plan
      BY <1>0, <2>1, VisitType, NextIsHarness
    <2>3. mem' = [mem EXCEPT ![i] = m]
      BY <1>9 DEF FinishHarness
    <2>4. todo' \in [Proc -> SUBSET Plan] /\ hx' \in [Proc -> Harness]
      <3>0. todo \in [Proc -> SUBSET Plan] /\ hx \in [Proc -> Harness]
        BY DEF TypeOK
      <3>1. \/ /\ h < NumHarness /\ hx' = [hx EXCEPT ![i] = h + 1]
               /\ todo' = [todo EXCEPT ![i] = Visit(m, h + 1)]
            \/ hx' = [hx EXCEPT ![i] = 1] /\ UNCHANGED todo
        BY <1>9 DEF FinishHarness
      <3> HIDE DEF m, Harness
      <3> QED
        BY <1>0, <2>2, <3>0, <3>1, NextIsHarness
    <2>5. mem' \in [Proc -> MaintenanceState]
      BY <1>0, <2>1, <2>3
    <2> QED
      BY <1>9, <2>4, <2>5
         DEF TypeOK, FinishHarness, fileVars, paneVars, budgetVars, histVars, PC
  <1>10. CASE Finish(i)
    <2>1. EndCycle(i)
      BY <1>10 DEF Finish, StoreFails
    <2>2. file' \in {"absent", "ok", "unreadable"} /\ disk' \in MaintenanceState
          /\ faults' \in Nat
      BY <1>0, <1>10 DEF TypeOK, Finish, StoreFails, Store, Fault, fileVars
    <2> QED
      BY <1>10, <2>1, <2>2, EndCycleType DEF TypeOK, Finish, paneVars, histVars
  <1> QED
    BY <1>1, <1>2, <1>3, <1>4, <1>5, <1>6, <1>7, <1>8, <1>9, <1>10 DEF CycleStep

LEMMA DecidesType ==
  ASSUME TypeOK, NEW i \in Proc, NEW q \in todo[i], NEW o, NEW a, Decides(i, q, o, a)
  PROVE  /\ q \in Plan /\ q.pane \in Pane
         /\ misses' \in Nat /\ todo' \in [Proc -> SUBSET Plan]
  <1>1. q \in Plan
    BY DEF TypeOK
  <1>2. q.pane \in Pane
    BY <1>1 DEF Plan
  <1> QED
    BY <1>1, <1>2 DEF Decides, TypeOK

LEMMA KeepType ==
  ASSUME TypeOK, NEW i \in Proc, NEW q \in Plan, Keep(i, q)
  PROVE  kept' \in [Proc -> SUBSET Plan]
  BY DEF TypeOK, Keep

LEMMA FaultType == TypeOK /\ Fault => faults' \in Nat
  BY DEF TypeOK, Fault

LEMMA ClaimType ==
  ASSUME TypeOK, NEW i \in Proc, NEW q \in Plan, NEW ph \in Phase
  PROVE  SetMarker(q.pane, Claim(i, q, ph)) => marker' \in [Pane -> Marker \cup {None}]
  <1>1. Claim(i, q, ph) \in Marker
    BY GenType
  <1> HIDE DEF Claim
  <1> QED
    BY <1>1 DEF SetMarker, TypeOK

LEMMA WriteClaimType ==
  ASSUME TypeOK, NEW i \in Proc, NEW q \in Plan, WriteClaim(i, q)
  PROVE  marker' \in [Pane -> Marker \cup {None}] /\ claimed' \in SUBSET Keys
  BY GenType, ClaimType DEF WriteClaim, TypeOK, Phase

LEMMA LeaveType ==
  ASSUME TypeOK, NEW i \in Proc, Leave(i)
  PROVE  /\ plock' \in [Pane -> Proc \cup {None}]
         /\ plan' \in [Proc -> Plan \cup {None}] /\ pc' \in [Proc -> PC]
  BY DEF TypeOK, Leave, PC, InWorker

(* A claim and a relaunch are only under way for a plan.                   *)
PlanHeld == \A i \in Proc : pc[i] \in {"advance", "respawn"} => plan[i] \in Plan

(* Every step of the relaunch pass.                                        *)
LEMMA PaneType ==
  ASSUME TypeOK, PlanHeld, NEW i \in Proc, PaneStep(i)
  PROVE  TypeOK'
  <1>1. CASE KeepUnread(i)
    <2>1. faults' \in Nat
      BY <1>1, FaultType DEF KeepUnread
    <2>2. PICK q \in todo[i] : Keep(i, q) /\ todo' = [todo EXCEPT ![i] = @ \ {q}]
      BY <1>1 DEF KeepUnread
    <2>3. q \in Plan /\ todo' \in [Proc -> SUBSET Plan]
      BY <2>2 DEF TypeOK
    <2>4. kept' \in [Proc -> SUBSET Plan]
      BY <2>2, <2>3, KeepType
    <2> QED
      BY <1>1, <2>1, <2>3, <2>4 DEF TypeOK, KeepUnread, pickUnchanged, fileVars
  <1>2. CASE MaterializeReady(i)
    <2>1. PICK q \in todo[i] : \E o \in Observations(q.pane) :
            /\ Decides(i, q, o, "MaterializeReady")
            /\ Keep(i, q)
            /\ \/ SetMarker(q.pane, Claim(i, q, "Ready")) /\ UNCHANGED faults
               \/ Fault /\ UNCHANGED marker
      BY <1>2 DEF MaterializeReady
    <2>2. /\ q \in Plan /\ misses' \in Nat /\ todo' \in [Proc -> SUBSET Plan]
      BY <2>1, DecidesType
    <2>3. /\ kept' \in [Proc -> SUBSET Plan] /\ faults' \in Nat
          /\ marker' \in [Pane -> Marker \cup {None}]
      BY <2>1, <2>2, KeepType, FaultType, ClaimType DEF TypeOK, Phase
    <2> QED
      BY <1>2, <2>2, <2>3 DEF TypeOK, MaterializeReady, pickUnchanged, fileVars
  <1>3. CASE Defer(i)
    <2>1. PICK q \in todo[i] : \E o \in Observations(q.pane) :
            Decides(i, q, o, "Defer") /\ Keep(i, q)
      BY <1>3 DEF Defer
    <2>2. /\ q \in Plan /\ misses' \in Nat /\ todo' \in [Proc -> SUBSET Plan]
      BY <2>1, DecidesType
    <2>3. kept' \in [Proc -> SUBSET Plan]
      BY <2>1, <2>2, KeepType
    <2> QED
      BY <1>3, <2>2, <2>3 DEF TypeOK, Defer, pickUnchanged, fileVars
  <1>4. CASE Forget(i)
    <2>1. PICK q \in todo[i] : \E o \in Observations(q.pane) :
            /\ Decides(i, q, o, "Forget")
            /\ \/ SetMarker(q.pane, None) /\ UNCHANGED faults
               \/ Fault /\ UNCHANGED marker
               \/ UNCHANGED <<marker, faults>>
      BY <1>4 DEF Forget
    <2>2. /\ q \in Plan /\ misses' \in Nat /\ todo' \in [Proc -> SUBSET Plan]
      BY <2>1, DecidesType
    <2>3. faults' \in Nat /\ marker' \in [Pane -> Marker \cup {None}]
      BY <2>1, <2>2, FaultType DEF TypeOK, SetMarker
    <2> QED
      BY <1>4, <2>2, <2>3 DEF TypeOK, Forget, pickUnchanged, fileVars
  <1>5. CASE AlreadyClaimed(i)
    <2>1. PICK q \in todo[i] : \E o \in Observations(q.pane) :
            Decides(i, q, o, "AlreadyClaimed")
      BY <1>5 DEF AlreadyClaimed
    <2>2. /\ q \in Plan /\ misses' \in Nat /\ todo' \in [Proc -> SUBSET Plan]
      BY <2>1, DecidesType
    <2> QED
      BY <1>5, <2>2 DEF TypeOK, AlreadyClaimed, pickUnchanged, fileVars
  <1>6. CASE ClaimBeforeRespawn(i)
    <2>1. PICK q \in todo[i] : \E o \in Observations(q.pane) :
            /\ Decides(i, q, o, "ClaimBeforeRespawn")
            /\ \/ /\ UNCHANGED faults \/ Fault
                  /\ Keep(i, q)
                  /\ UNCHANGED <<plock, marker, pc, tries, plan, claimed>>
               \/ /\ Fault
                  /\ tries' = [tries EXCEPT ![i] = @ + 1]
                  /\ WriteClaim(i, q) \/ UNCHANGED <<marker, claimed>>
                  /\ Keep(i, q)
                  /\ UNCHANGED <<plock, pc, plan>>
               \/ /\ tries' = [tries EXCEPT ![i] = @ + 1]
                  /\ WriteClaim(i, q)
                  /\ plan' = [plan EXCEPT ![i] = q]
                  /\ plock' = [plock EXCEPT ![q.pane] = i]
                  /\ pc' = [pc EXCEPT ![i] = "advance"]
                  /\ UNCHANGED <<kept, faults>>
      BY <1>6 DEF ClaimBeforeRespawn
    <2>2. /\ q \in Plan /\ misses' \in Nat /\ todo' \in [Proc -> SUBSET Plan]
      BY <2>1, DecidesType
    <2>3. kept' \in [Proc -> SUBSET Plan] /\ faults' \in Nat
      BY <2>1, <2>2, KeepType, FaultType DEF TypeOK
    <2>4. marker' \in [Pane -> Marker \cup {None}] /\ claimed' \in SUBSET Keys
      BY <2>1, <2>2, WriteClaimType DEF TypeOK
    <2>5. /\ tries' \in [Proc -> Nat] /\ plan' \in [Proc -> Plan \cup {None}]
          /\ plock' \in [Pane -> Proc \cup {None}] /\ pc' \in [Proc -> PC]
      <3>1. q.pane \in Pane
        BY <2>2 DEF Plan
      <3>2. tries' \in [Proc -> Nat]
        BY <2>1 DEF TypeOK
      <3>3. plan' \in [Proc -> Plan \cup {None}]
        BY <2>1, <2>2 DEF TypeOK
      <3>4. plock' \in [Pane -> Proc \cup {None}]
        BY <2>1, <3>1 DEF TypeOK
      <3>5. pc' \in [Proc -> PC]
        BY <2>1 DEF TypeOK, PC, InWorker
      <3> QED
        BY <3>2, <3>3, <3>4, <3>5
    <2> QED
      BY <1>6, <2>2, <2>3, <2>4, <2>5 DEF TypeOK, ClaimBeforeRespawn, pickUnchanged, fileVars
  <1>7. CASE Advance(i)
    <2>0. plan[i] \in Plan /\ plan[i].pane \in Pane
      BY <1>7 DEF PlanHeld, Advance, Plan
    <2>1. /\ faults' \in Nat
          /\ AdvanceSequence(plan[i].pane) \/ UNCHANGED seq
          /\ Leave(i) \/ /\ pc' = [pc EXCEPT ![i] = "respawn"]
                         /\ UNCHANGED <<plock, plan>>
      BY <1>7, FaultType DEF Advance, TypeOK
    <2>3. seq' \in [Pane -> Nat]
      <3>1. seq \in [Pane -> Nat]
        BY DEF TypeOK
      <3>2. CASE AdvanceSequence(plan[i].pane)
        BY <2>0, <3>1, <3>2 DEF AdvanceSequence
      <3> QED
        BY <2>1, <3>1, <3>2
    <2>2. /\ plock' \in [Pane -> Proc \cup {None}]
          /\ plan' \in [Proc -> Plan \cup {None}] /\ pc' \in [Proc -> PC]
      BY <2>1, LeaveType DEF TypeOK, PC, InWorker
    <2> QED
      BY <1>7, <2>1, <2>2, <2>3 DEF TypeOK, Advance, fileVars, histVars
  <1>8. CASE Respawn(i)
    <2>1. plan[i] \in Plan /\ plan[i].pane \in Pane /\ plan[i].conv \in Conv
      BY <1>8 DEF PlanHeld, Respawn, Plan
    <2>2. faults' \in Nat /\ marker' \in [Pane -> Marker \cup {None}]
      BY <1>8, <2>1, FaultType DEF Respawn, RelaunchPane, SetMarker, TypeOK
    <2>3. /\ conv' \in [Pane -> Conv] /\ idle' \in [Pane -> BOOLEAN]
          /\ respawned' \in SUBSET Keys
      <3>1. Key(hx[i], Gen(i), plan[i]) \in Keys
        BY <2>1, GenType
      <3>2. RelaunchPane(i) \/ UNCHANGED <<conv, idle, respawned>>
        BY <1>8 DEF Respawn
      <3> QED
        BY <2>1, <3>1, <3>2 DEF RelaunchPane, TypeOK
    <2>4. Leave(i)
      BY <1>8 DEF Respawn
    <2> QED
      BY <1>8, <2>2, <2>3, <2>4, LeaveType DEF TypeOK, Respawn, fileVars
  <1> QED
    BY <1>1, <1>2, <1>3, <1>4, <1>5, <1>6, <1>7, <1>8 DEF PaneStep

LEMMA EnvironmentType ==
  ASSUME TypeOK, Environment
  PROVE  TypeOK'
  <1>1. ASSUME NEW i \in Proc, Crash(i) PROVE TypeOK'
    <2>1. EndCycle(i) /\ crashes' \in Nat
      BY <1>1 DEF Crash, TypeOK
    <2>2. plock' \in [Pane -> Proc \cup {None}]
      BY <1>1 DEF Crash, TypeOK
    <2> QED
      BY <1>1, <2>1, <2>2, EndCycleType DEF TypeOK, Crash, fileVars, paneVars, histVars
  <1>2. ASSUME NEW i \in Proc, Shutdown(i) PROVE TypeOK'
    BY <1>2 DEF TypeOK, Shutdown, fileVars, paneVars, cycleVars, histVars
  <1>3. ASSUME NEW p \in Pane, UserMutation(p) PROVE TypeOK'
    <2>1. seq' \in [Pane -> Nat] /\ userMuts' \in [Pane -> Nat]
      BY <1>3 DEF TypeOK, UserMutation, AdvanceSequence
    <2>2. /\ conv' \in [Pane -> Conv] /\ alive' \in [Pane -> BOOLEAN]
          /\ idle' \in [Pane -> BOOLEAN]
      BY <1>3 DEF TypeOK, UserMutation
    <2> QED
      BY <1>3, <2>1, <2>2 DEF TypeOK, UserMutation, fileVars, cycleVars, budgetVars
  <1>4. ASSUME NEW p \in Pane, AgentDrift(p) PROVE TypeOK'
    <2>1. /\ conv' \in [Pane -> Conv] /\ alive' \in [Pane -> BOOLEAN]
          /\ idle' \in [Pane -> BOOLEAN]
      BY <1>4 DEF TypeOK, AgentDrift
    <2> QED
      BY <1>4, <2>1 DEF TypeOK, AgentDrift, fileVars, cycleVars, budgetVars, histVars
  <1>5. ASSUME NEW h \in Harness, BackgroundUpdate(h) PROVE TypeOK'
    <2>1. installed' \in [Harness -> Digest] /\ changes' \in [Harness -> Nat]
      BY <1>5 DEF TypeOK, BackgroundUpdate, Install
    <2> QED
      BY <1>5, <2>1 DEF TypeOK, BackgroundUpdate, fileVars, paneVars, cycleVars, histVars
  <1>6. CASE DamageFile
    BY <1>6 DEF TypeOK, DamageFile, paneVars, cycleVars, histVars
  <1> QED
    BY <1>1, <1>2, <1>3, <1>4, <1>5, <1>6 DEF Environment

-----------------------------------------------------------------------------
(* A relaunch is the first one of its plan and no user mutation came after *)
(* the plan.  The argument is the durable mutation sequence: it only       *)
(* grows, a plan records it, and whoever advances it holds the pane lock.  *)

(* A plan is not ahead of its pane, and while the pane's sequence is the   *)
(* planned one no user mutation has happened since.                        *)
Fresh(q) ==
  /\ q.seq <= seq[q.pane]
  /\ q.seq = seq[q.pane] => q.muts = userMuts[q.pane]

(* Every plan of a harness state, of a maintenance state, anywhere, is in P. *)
Within(s, P) == s.pending \subseteq P /\ (s.intent # None => s.intent.plans \subseteq P)
StateWithin(m, P) == \A h \in Harness : Within(m.hs[h], P)
AllWithin(P) ==
  /\ StateWithin(disk, P)
  /\ \A i \in Proc : /\ StateWithin(mem[i], P)
                     /\ todo[i] \subseteq P /\ kept[i] \subseteq P

PlansFresh == AllWithin({q \in Plan : Fresh(q)})

(* The pane of a claim is locked by the claiming process.                  *)
LockHeld == \A i \in Proc :
  pc[i] \in {"advance", "respawn"} => plock[plan[i].pane] = i

(* A relaunched plan is behind its pane's sequence for ever.               *)
RelaunchedBehind == \A k \in respawned : k.plan.seq < seq[k.plan.pane]

(* Between claim and relaunch: nothing else touched the pane, and the plan *)
(* was never relaunched, under whatever generation.                        *)
ClaimCurrent == \A i \in Proc :
  /\ pc[i] = "advance" => seq[plan[i].pane] = plan[i].seq
  /\ pc[i] = "respawn" => /\ seq[plan[i].pane] = plan[i].seq + 1
                          /\ \A k \in respawned : k.plan # plan[i]

Claims == PlanHeld /\ LockHeld /\ RelaunchedBehind /\ ClaimCurrent /\ NewerMutationWins

IInv == TypeOK /\ PlansFresh /\ Claims

LEMMA IInvSafe == IInv => NeverRelaunchedTwice
  <1> SUFFICES ASSUME IInv, NEW i \in Proc, pc[i] \in {"advance", "respawn"},
                      Key(hx[i], Gen(i), plan[i]) \in respawned
               PROVE  FALSE
    BY DEF NeverRelaunchedTwice
  <1> DEFINE k == Key(hx[i], Gen(i), plan[i])
  <1>1. k.plan = plan[i]
    BY DEF Key
  <1>2. plan[i].pane \in Pane /\ plan[i].seq \in Nat
    BY DEF IInv, Claims, PlanHeld, Plan
  <1>3. CASE pc[i] = "respawn"
    BY <1>1, <1>3 DEF IInv, Claims, ClaimCurrent
  <1>4. CASE pc[i] = "advance"
    BY <1>1, <1>2, <1>4 DEF IInv, Claims, ClaimCurrent, RelaunchedBehind
  <1> QED
    BY <1>3, <1>4

(* No step takes a sequence back, and a sequence that stays means that no  *)
(* user mutation happened.                                                 *)
SequenceGrows == \A p \in Pane :
  /\ seq[p] <= seq'[p]
  /\ seq[p] = seq'[p] => userMuts'[p] = userMuts[p]

LEMMA AdvanceGrows ==
  ASSUME TypeOK, NEW p \in Pane, AdvanceSequence(p)
  PROVE  \A r \in Pane : seq[r] <= seq'[r] /\ (r # p => seq'[r] = seq[r])
                         /\ seq'[p] = seq[p] + 1
  BY DEF TypeOK, AdvanceSequence

LEMMA UnchangedGrows ==
  ASSUME TypeOK, UNCHANGED <<seq, userMuts>>
  PROVE  SequenceGrows
  BY DEF TypeOK, SequenceGrows

LEMMA SequenceStep ==
  ASSUME TypeOK, PlanHeld, [Next]_vars
  PROVE  SequenceGrows
  <1>1. ASSUME NEW p \in Pane, UserMutation(p) PROVE SequenceGrows
    <2>1. AdvanceSequence(p) /\ userMuts' = [userMuts EXCEPT ![p] = @ + 1]
      BY <1>1 DEF UserMutation
    <2> QED
      BY <2>1, AdvanceGrows DEF SequenceGrows, TypeOK
  <1>2. ASSUME NEW i \in Proc, Advance(i) PROVE SequenceGrows
    <2>1. plan[i].pane \in Pane
      BY <1>2 DEF Advance, PlanHeld, Plan
    <2>2. /\ AdvanceSequence(plan[i].pane) \/ UNCHANGED seq
          /\ UNCHANGED userMuts
      BY <1>2 DEF Advance, histVars
    <2> QED
      BY <2>1, <2>2, AdvanceGrows DEF SequenceGrows, TypeOK
  <1>3. ASSUME NEW i \in Proc, CycleStep(i) PROVE UNCHANGED <<seq, userMuts>>
    BY <1>3 DEF CycleStep, TryOwner, EstablishBaselines, CheckDue, SkipHarness, Intend,
       Update, Commit, Recover, FinishHarness, Finish, paneVars, histVars
  <1>4. ASSUME NEW i \in Proc, PaneStep(i), ~Advance(i) PROVE UNCHANGED <<seq, userMuts>>
    BY <1>4 DEF PaneStep, KeepUnread, MaterializeReady, Defer, Forget, AlreadyClaimed,
       ClaimBeforeRespawn, Respawn, pickUnchanged
  <1>5. ASSUME Environment, \A p \in Pane : ~UserMutation(p)
        PROVE  UNCHANGED <<seq, userMuts>>
    BY <1>5 DEF Environment, Crash, Shutdown, AgentDrift, BackgroundUpdate, DamageFile,
       paneVars, histVars
  <1>6. CASE UNCHANGED vars
    BY <1>6, UnchangedGrows DEF vars, paneVars, histVars
  <1> QED
    BY <1>1, <1>2, <1>3, <1>4, <1>5, <1>6, UnchangedGrows DEF Next

LEMMA FreshStays ==
  ASSUME TypeOK, TypeOK', SequenceGrows, NEW q \in Plan, Fresh(q)
  PROVE  Fresh(q)'
  <1> DEFINE p == q.pane
  <1>1. p \in Pane /\ q.seq \in Nat
    BY DEF Plan
  <1>2. seq[p] \in Nat /\ seq'[p] \in Nat
    BY <1>1 DEF TypeOK
  <1>3. seq[p] <= seq'[p] /\ (seq[p] = seq'[p] => userMuts'[p] = userMuts[p])
    BY <1>1 DEF SequenceGrows
  <1>4. q.seq <= seq[p] /\ (q.seq = seq[p] => q.muts = userMuts[p])
    BY DEF Fresh
  <1>5. q.seq <= seq'[p]
    BY <1>1, <1>2, <1>3, <1>4
  <1>6. q.seq = seq'[p] => q.seq = seq[p] /\ seq[p] = seq'[p]
    BY <1>1, <1>2, <1>3, <1>4
  <1> QED
    BY <1>3, <1>4, <1>5, <1>6 DEF Fresh

(* No step makes a plan other than a plan of a pane as it is now.          *)
LEMMA ReconcileWithin ==
  ASSUME NEW s \in HarnessState, NEW d, NEW P, Within(s, P)
  PROVE  Within(Reconcile(s, d), P)
  <1>1. CASE s.intent = None
    BY <1>1 DEF Reconcile, HarnessState, Within
  <1>2. CASE s.intent # None
    BY <1>2 DEF Reconcile, HarnessState, Within
  <1> QED
    BY <1>1, <1>2

LEMMA ReconcileAllWithin ==
  ASSUME NEW m \in MaintenanceState, NEW H, NEW P, StateWithin(m, P)
  PROVE  StateWithin(ReconcileAll(m, H), P)
  <1>1. \A h \in Harness : m.hs[h] \in HarnessState /\ Within(m.hs[h], P)
    BY DEF MaintenanceState, StateWithin
  <1>2. \A h \in Harness : Within(Reconcile(m.hs[h], installed[h]), P)
    BY <1>1, ReconcileWithin
  <1>3. ReconcileAll(m, H).hs = [h \in Harness |->
          IF h \in H THEN Reconcile(m.hs[h], installed[h]) ELSE m.hs[h]]
    BY DEF ReconcileAll, MaintenanceState
  <1> QED
    BY <1>1, <1>2, <1>3 DEF StateWithin

LEMMA SetHarnessWithin ==
  ASSUME NEW m \in MaintenanceState, NEW h \in Harness, NEW s, NEW P,
         StateWithin(m, P), Within(s, P)
  PROVE  StateWithin(SetHarness(m, h, s), P)
  BY DEF StateWithin, SetHarness, MaintenanceState

LEMMA PrepareIntentWithin ==
  ASSUME NEW s \in HarnessState, NEW d, NEW Q, NEW P, Within(s, P), Q \subseteq P
  PROVE  Within(PrepareIntent(s, d, Q), P)
  BY DEF PrepareIntent, Within, HarnessState

LEMMA DefaultWithin == \A P : StateWithin(DefaultState, P)
  BY NoneAssumption DEF StateWithin, DefaultState, DefaultHarness, Within

LEMMA VisitWithin ==
  ASSUME NEW m, NEW h \in Harness, NEW P, StateWithin(m, P)
  PROVE  Visit(m, h) \subseteq P
  BY DEF StateWithin, Visit, Within

LEMMA EndCycleWithin ==
  ASSUME TypeOK, NEW P, AllWithin(P), NEW i \in Proc, EndCycle(i)
  PROVE  \A j \in Proc : /\ StateWithin(mem'[j], P)
                         /\ todo'[j] \subseteq P /\ kept'[j] \subseteq P
  <1>1. /\ mem' = [mem EXCEPT ![i] = DefaultState]
        /\ todo' = [todo EXCEPT ![i] = {}] /\ kept' = [kept EXCEPT ![i] = {}]
    BY DEF EndCycle
  <1> HIDE DEF Harness
  <1>2. StateWithin(DefaultState, P)
    BY DefaultWithin
  <1> QED
    BY <1>1, <1>2 DEF AllWithin, TypeOK

LEMMA CycleWithin ==
  ASSUME TypeOK, NEW P, AllWithin(P), \A p \in Pane : PlanOf(p) \in P,
         NEW i \in Proc, CycleStep(i)
  PROVE  AllWithin(P)'
  <1>0. /\ mem[i] \in MaintenanceState /\ mem \in [Proc -> MaintenanceState]
        /\ hx[i] \in Harness /\ \A h \in Harness : mem[i].hs[h] \in HarnessState
        /\ todo \in [Proc -> SUBSET Plan] /\ kept \in [Proc -> SUBSET Plan]
    BY DEF TypeOK, MaintenanceState
  <1>a. /\ StateWithin(disk, P)
        /\ \A j \in Proc : /\ StateWithin(mem[j], P)
                           /\ todo[j] \subseteq P /\ kept[j] \subseteq P
        /\ \A h \in Harness : Within(mem[i].hs[h], P)
    BY DEF AllWithin, StateWithin
  <1> HIDE DEF Harness
  (* A step that changes nothing but the state held by i.                  *)
  <1>b. ASSUME UNCHANGED <<disk, todo, kept>>,
               NEW m, mem' = [mem EXCEPT ![i] = m], StateWithin(m, P)
        PROVE  AllWithin(P)'
    BY <1>0, <1>a, <1>b DEF AllWithin
  <1>1. CASE TryOwner(i)
    <2>1. CASE file = "ok"
      BY <1>1, <1>a, <1>b, <2>1 DEF TryOwner
    <2>2. CASE file # "ok"
      BY <1>1, <1>b, <2>2, DefaultWithin DEF TryOwner
    <2> QED
      BY <2>1, <2>2
  <1>2. CASE EstablishBaselines(i)
    <2>1. PICK ok \in SUBSET Harness :
            mem' = [mem EXCEPT ![i] = [ReconcileAll(mem[i], ok) EXCEPT !.checked = TRUE]]
      BY <1>2 DEF EstablishBaselines
    <2>2. StateWithin(ReconcileAll(mem[i], ok), P) /\ ReconcileAll(mem[i], ok) \in MaintenanceState
      BY <1>0, <1>a, ReconcileAllWithin, ReconcileAllType
    <2>3. StateWithin([ReconcileAll(mem[i], ok) EXCEPT !.checked = TRUE], P)
      BY <2>2 DEF StateWithin, MaintenanceState
    <2> QED
      BY <1>2, <1>b, <2>1, <2>3 DEF EstablishBaselines, fileVars
  <1>3. ASSUME NEW due \in BOOLEAN, CheckDue(i, due) PROVE AllWithin(P)'
    BY <1>3, <1>a DEF CheckDue, fileVars, AllWithin
  <1>4. CASE SkipHarness(i)
    BY <1>4, <1>a DEF SkipHarness, fileVars, AllWithin
  <1>5. CASE Intend(i)
    <2> DEFINE h == hx[i]
               m(S) == SetHarness(mem[i], h, PrepareIntent(mem[i].hs[h], installed[h],
                                                           {PlanOf(p) : p \in S}))
    <2>1. PICK S \in SUBSET Pane :
            \/ /\ Store(m(S))
               /\ mem' = [mem EXCEPT ![i] = m(S)]
               /\ UNCHANGED <<todo, kept>>
            \/ StoreFails(i, m(S))
      BY <1>5 DEF Intend
    <2>2. StateWithin(m(S), P)
      <3>1. Within(PrepareIntent(mem[i].hs[h], installed[h], {PlanOf(p) : p \in S}), P)
        BY <1>0, <1>a, PrepareIntentWithin
      <3> QED
        BY <1>0, <1>a, <3>1, SetHarnessWithin
    <2> HIDE DEF m
    <2>3. CASE StoreFails(i, m(S))
      BY <1>a, <2>2, <2>3, EndCycleWithin DEF StoreFails, Store, fileVars, AllWithin
    <2> QED
      BY <1>0, <1>a, <2>1, <2>2, <2>3 DEF Store, AllWithin
  <1>6. CASE Update(i)
    <2>1. PICK d \in Digest :
            \/ mem' = [mem EXCEPT ![i] = SetHarness(@, hx[i], Reconcile(@.hs[hx[i]], d))]
            \/ UNCHANGED mem
      BY <1>6 DEF Update
    <2>2. StateWithin(SetHarness(mem[i], hx[i], Reconcile(mem[i].hs[hx[i]], d)), P)
      BY <1>0, <1>a, ReconcileWithin, SetHarnessWithin
    <2>3. UNCHANGED <<disk, todo, kept>>
      BY <1>6 DEF Update, fileVars
    <2> QED
      BY <1>0, <1>a, <1>b, <2>1, <2>2, <2>3 DEF AllWithin
  <1>7. CASE Commit(i)
    BY <1>7, <1>a, EndCycleWithin DEF Commit, StoreFails, Store, fileVars, AllWithin
  <1>8. CASE Recover(i)
    <2>1. PICK ok : mem' = [mem EXCEPT ![i] = ReconcileAll(mem[i], ok)]
      BY <1>8 DEF Recover
    <2>2. StateWithin(mem'[i], P)
      BY <1>0, <1>a, <2>1, ReconcileAllWithin
    <2>3. Visit(mem'[i], 1) \subseteq P
      BY <2>2, VisitWithin, NextIsHarness
    <2>4. \A j \in Proc \ {i} : mem'[j] = mem[j]
      BY <1>0, <2>1
    <2>5. /\ todo' = [todo EXCEPT ![i] = Visit(mem'[i], 1)] /\ kept' = [kept EXCEPT ![i] = {}]
          /\ UNCHANGED disk
      BY <1>8 DEF Recover, fileVars
    <2> QED
      BY <1>0, <1>a, <2>2, <2>3, <2>4, <2>5 DEF AllWithin
  <1>9. CASE FinishHarness(i)
    <2> DEFINE h == hx[i]
               m == IF mem[i].hs[h].applied = None THEN mem[i]
                    ELSE [mem[i] EXCEPT !.hs[h].pending = kept[i]]
    <2>1. StateWithin(m, P)
      BY <1>0, <1>a DEF StateWithin, Within, MaintenanceState, HarnessState
    <2>2. h < NumHarness => Visit(m, h + 1) \subseteq P
      BY <1>0, <2>1, VisitWithin, NextIsHarness
    <2>3. /\ mem' = [mem EXCEPT ![i] = m] /\ kept' = [kept EXCEPT ![i] = {}]
          /\ UNCHANGED disk
          /\ \/ h < NumHarness /\ todo' = [todo EXCEPT ![i] = Visit(m, h + 1)]
             \/ UNCHANGED todo
      BY <1>9 DEF FinishHarness, fileVars
    <2> HIDE DEF m
    <2> QED
      BY <1>0, <1>a, <2>1, <2>2, <2>3 DEF AllWithin
  <1>10. CASE Finish(i)
    BY <1>10, <1>a, EndCycleWithin DEF Finish, StoreFails, Store, fileVars, AllWithin
  <1> QED
    BY <1>1, <1>2, <1>3, <1>4, <1>5, <1>6, <1>7, <1>8, <1>9, <1>10 DEF CycleStep

LEMMA PaneWithin ==
  ASSUME TypeOK, NEW P, AllWithin(P), NEW i \in Proc, PaneStep(i)
  PROVE  AllWithin(P)'
  <1>0. todo \in [Proc -> SUBSET Plan] /\ kept \in [Proc -> SUBSET Plan]
    BY DEF TypeOK
  <1>1. UNCHANGED <<disk, mem>>
    BY DEF PaneStep, KeepUnread, MaterializeReady, Defer, Forget, AlreadyClaimed,
       ClaimBeforeRespawn, Advance, Respawn, pickUnchanged, fileVars
  <1>2. \/ UNCHANGED <<todo, kept>>
        \/ \E q \in todo[i] : /\ todo' = [todo EXCEPT ![i] = @ \ {q}]
                              /\ Keep(i, q) \/ UNCHANGED kept
    BY DEF PaneStep, KeepUnread, MaterializeReady, Defer, Forget, AlreadyClaimed,
       ClaimBeforeRespawn, Advance, Respawn, Decides
  <1> QED
    BY <1>0, <1>1, <1>2 DEF AllWithin, Keep

LEMMA EnvironmentWithin ==
  ASSUME TypeOK, NEW P, AllWithin(P), Environment
  PROVE  AllWithin(P)'
  <1>1. ASSUME NEW i \in Proc, Crash(i) PROVE AllWithin(P)'
    BY <1>1, EndCycleWithin DEF Crash, fileVars, AllWithin
  <1>2. ASSUME \A i \in Proc : ~Crash(i) PROVE UNCHANGED <<disk, mem, todo, kept>>
    BY <1>2 DEF Environment, Shutdown, UserMutation, AgentDrift, BackgroundUpdate,
       DamageFile, fileVars, cycleVars
  <1> QED
    BY <1>1, <1>2 DEF AllWithin

LEMMA FreshStep ==
  ASSUME TypeOK, TypeOK', PlanHeld, PlansFresh, [Next]_vars
  PROVE  PlansFresh'
  <1>1. PICK P : P = {q \in Plan : Fresh(q)}
    OBVIOUS
  <1>2. AllWithin(P)
    BY <1>1 DEF PlansFresh
  <1>3. \A p \in Pane : PlanOf(p) \in P
    <2> TAKE p \in Pane
    <2>1. PlanOf(p) \in Plan
      BY PlanOfType
    <2>2. Fresh(PlanOf(p))
      BY DEF Fresh, PlanOf, TypeOK
    <2> QED
      BY <1>1, <2>1, <2>2
  <1>4. AllWithin(P)'
    <2>1. CASE UNCHANGED vars
      BY <1>2, <2>1 DEF AllWithin, vars, fileVars, cycleVars
    <2> QED
      BY <1>2, <1>3, <2>1, CycleWithin, PaneWithin, EnvironmentWithin DEF Next
  <1>5. \A q \in P : q \in {r \in Plan : Fresh(r)}'
    BY <1>1, SequenceStep, FreshStays
  <1> QED
    BY <1>4, <1>5 DEF PlansFresh, AllWithin, StateWithin, Within

(* A step at which nobody claims, advances or relaunches, and no pane is   *)
(* mutated.                                                                *)
LEMMA QuietClaims ==
  ASSUME Claims, UNCHANGED <<seq, userMuts, respawned>>,
         \A j \in Proc : pc'[j] \in {"advance", "respawn"} =>
           /\ pc'[j] = pc[j] /\ plan'[j] = plan[j]
           /\ plock'[plan[j].pane] = plock[plan[j].pane]
  PROVE  Claims'
  BY DEF Claims, PlanHeld, LockHeld, RelaunchedBehind, ClaimCurrent, NewerMutationWins

(* Two claims never share a pane, and no other mutation has its lock.      *)
LEMMA ClaimsApart ==
  ASSUME Claims
  PROVE  \A j \in Proc : pc[j] \in {"advance", "respawn"} =>
           /\ plock[plan[j].pane] # None
           /\ \A i \in Proc \ {j} : pc[i] \in {"advance", "respawn"} =>
                                    plan[i].pane # plan[j].pane
  BY NoneAssumption DEF Claims, LockHeld

LEMMA CycleClaims ==
  ASSUME TypeOK, Claims, NEW i \in Proc, CycleStep(i)
  PROVE  Claims'
  <1>1. UNCHANGED <<seq, userMuts, respawned, plock>>
    BY DEF CycleStep, TryOwner, EstablishBaselines, CheckDue, SkipHarness, Intend,
       Update, Commit, Recover, FinishHarness, Finish, paneVars, histVars
  <1>2. /\ plan' = plan \/ plan' = [plan EXCEPT ![i] = None]
        /\ \/ pc' = pc /\ pc[i] = "pick"
           \/ \E x \in PC \ {"advance", "respawn"} : pc' = [pc EXCEPT ![i] = x]
    BY DEF CycleStep, TryOwner, EstablishBaselines, CheckDue, SkipHarness, Intend,
       Update, Commit, Recover, FinishHarness, Finish, NextHarness, StoreFails, EndCycle,
       PC, InUpdate, InWorker
  <1>3. \A j \in Proc : pc'[j] \in {"advance", "respawn"} => pc'[j] = pc[j] /\ plan'[j] = plan[j]
    BY <1>2 DEF TypeOK
  <1> QED
    BY <1>1, <1>3, QuietClaims

LEMMA PaneClaims ==
  ASSUME TypeOK, PlansFresh, Claims, NEW i \in Proc, PaneStep(i)
  PROVE  Claims'
  <1>0. pc \in [Proc -> PC] /\ plan \in [Proc -> Plan \cup {None}]
        /\ plock \in [Pane -> Proc \cup {None}]
    BY DEF TypeOK
  <1>1. CASE KeepUnread(i) \/ MaterializeReady(i) \/ Defer(i) \/ Forget(i)
             \/ AlreadyClaimed(i)
    <2>1. UNCHANGED <<seq, userMuts, respawned, plock, pc, plan>>
      BY <1>1 DEF KeepUnread, MaterializeReady, Defer, Forget, AlreadyClaimed, pickUnchanged
    <2> QED
      BY <2>1, QuietClaims
  <1>2. CASE ClaimBeforeRespawn(i)
    <2>1. PICK q \in todo[i] : \E o \in Observations(q.pane) :
            /\ Decides(i, q, o, "ClaimBeforeRespawn")
            /\ \/ UNCHANGED <<plock, pc, plan>>
               \/ /\ plan' = [plan EXCEPT ![i] = q]
                  /\ plock' = [plock EXCEPT ![q.pane] = i]
                  /\ pc' = [pc EXCEPT ![i] = "advance"]
      BY <1>2 DEF ClaimBeforeRespawn
    <2>2. UNCHANGED <<seq, userMuts, respawned>>
      BY <1>2 DEF ClaimBeforeRespawn, pickUnchanged
    <2>3. q \in Plan /\ Fresh(q) /\ q.pane \in Pane
      BY DEF PlansFresh, AllWithin, Plan
    <2>4. seq[q.pane] = q.seq /\ plock[q.pane] = None
      <3>1. PICK o \in Observations(q.pane) : Decides(i, q, o, "ClaimBeforeRespawn")
        BY <2>1
      <3>2. o.seq # None /\ ~Outdated(q, o, hx[i])
        BY <3>1 DEF Decides, PaneAction
      <3>3. o.seq \in {seq[q.pane], None}
        BY DEF Observations
      <3> QED
        BY <3>1, <3>2, <3>3 DEF Outdated, Decides
    <2>5. userMuts[q.pane] = q.muts
      BY <2>3, <2>4 DEF Fresh
    <2>6. CASE UNCHANGED <<plock, pc, plan>>
      BY <2>2, <2>6, QuietClaims
    <2>7. CASE /\ plan' = [plan EXCEPT ![i] = q]
               /\ plock' = [plock EXCEPT ![q.pane] = i]
               /\ pc' = [pc EXCEPT ![i] = "advance"]
      <3>1. /\ plan'[i] = q /\ pc'[i] = "advance" /\ plock'[q.pane] = i
            /\ \A j \in Proc \ {i} : plan'[j] = plan[j] /\ pc'[j] = pc[j]
        BY <1>0, <2>3, <2>7
      <3>2. \A j \in Proc \ {i} : pc[j] \in {"advance", "respawn"} =>
              plan[j].pane # q.pane /\ plock'[plan[j].pane] = plock[plan[j].pane]
        BY <1>0, <2>4, <2>7, ClaimsApart DEF Claims, PlanHeld, Plan
      <3>3. PlanHeld' /\ LockHeld'
        BY <2>3, <3>1, <3>2 DEF Claims, PlanHeld, LockHeld
      <3>4. RelaunchedBehind'
        BY <2>2 DEF Claims, RelaunchedBehind
      <3>5. ClaimCurrent' /\ NewerMutationWins'
        BY <2>2, <2>4, <2>5, <3>1 DEF Claims, ClaimCurrent, NewerMutationWins
      <3> QED
        BY <3>3, <3>4, <3>5 DEF Claims
    <2> QED
      BY <2>1, <2>6, <2>7
  <1>3. ASSUME pc[i] \in {"advance", "respawn"}, Leave(i)
        PROVE  /\ \A j \in Proc : pc'[j] \in {"advance", "respawn"} =>
                     /\ j # i /\ pc'[j] = pc[j] /\ plan'[j] = plan[j]
                     /\ plan[j].pane # plan[i].pane
                     /\ plock'[plan[j].pane] = plock[plan[j].pane]
    <2>1. pc'[i] = "pick" /\ \A j \in Proc \ {i} : plan'[j] = plan[j] /\ pc'[j] = pc[j]
      BY <1>0, <1>3 DEF Leave
    <2>2. \A j \in Proc \ {i} : pc[j] \in {"advance", "respawn"} =>
            plan[j].pane # plan[i].pane /\ plan[j].pane \in Pane
      BY <1>3, ClaimsApart DEF Claims, PlanHeld, Plan
    <2> QED
      BY <1>0, <1>3, <2>1, <2>2 DEF Leave
  <1>4. CASE Advance(i)
    <2> DEFINE p == plan[i].pane
    <2>0. pc[i] = "advance" /\ UNCHANGED <<userMuts, respawned>>
      BY <1>4 DEF Advance, histVars
    <2>1. plan[i] \in Plan /\ p \in Pane /\ plan[i].seq \in Nat /\ seq[p] = plan[i].seq
          /\ userMuts[p] = plan[i].muts
      BY <2>0 DEF Claims, PlanHeld, ClaimCurrent, NewerMutationWins, Plan
    <2>2. SequenceGrows
      BY <1>4, SequenceStep DEF Next, Claims
    <2>3. \A r \in Pane \ {p} : seq'[r] = seq[r]
      BY <1>4, <2>1, AdvanceGrows DEF Advance
    <2>4. RelaunchedBehind'
      <3> SUFFICES ASSUME NEW k \in respawned
                   PROVE  k.plan.seq < seq'[k.plan.pane]
        BY <2>0 DEF RelaunchedBehind
      <3>1. k.plan \in Plan
        BY DEF TypeOK, Keys
      <3>2. k.plan.seq \in Nat /\ k.plan.pane \in Pane
        BY <3>1 DEF Plan
      <3>3. seq[k.plan.pane] \in Nat /\ seq[k.plan.pane] <= seq'[k.plan.pane]
            /\ seq'[k.plan.pane] \in Nat
        <4>1. CASE k.plan.pane = p
          <5>1. seq[p] \in Nat
            BY <2>1 DEF TypeOK
          <5>2. seq'[p] \in {seq[p], seq[p] + 1}
            BY <1>4, <2>1, AdvanceGrows DEF Advance
          <5> QED
            BY <4>1, <5>1, <5>2
        <4>2. CASE k.plan.pane # p
          BY <2>3, <3>2, <4>2 DEF TypeOK
        <4> QED
          BY <4>1, <4>2
      <3> QED
        BY <3>2, <3>3 DEF Claims, RelaunchedBehind
    <2>5. CASE Leave(i)
      <3>1. \A j \in Proc : pc'[j] \in {"advance", "respawn"} => seq'[plan[j].pane] = seq[plan[j].pane]
        BY <1>3, <2>0, <2>3, <2>5 DEF Claims, PlanHeld, Plan
      <3> QED
        BY <1>3, <2>0, <2>4, <2>5, <3>1
           DEF Claims, PlanHeld, LockHeld, ClaimCurrent, NewerMutationWins
    <2>6. CASE /\ AdvanceSequence(p) /\ pc' = [pc EXCEPT ![i] = "respawn"]
               /\ UNCHANGED <<plock, plan>>
      <3>1. pc'[i] = "respawn" /\ \A j \in Proc \ {i} : pc'[j] = pc[j]
        BY <1>0, <2>6
      <3>2. \A j \in Proc \ {i} : pc[j] \in {"advance", "respawn"} => seq'[plan[j].pane] = seq[plan[j].pane]
        BY <2>0, <2>3, ClaimsApart DEF Claims, PlanHeld, Plan
      <3>3. seq'[p] = plan[i].seq + 1
        BY <2>1, <2>6, AdvanceGrows
      <3>4. \A k \in respawned : k.plan # plan[i]
        BY <2>1 DEF Claims, RelaunchedBehind
      <3>5. PlanHeld' /\ LockHeld' /\ NewerMutationWins'
        BY <2>0, <2>1, <2>6, <3>1 DEF Claims, PlanHeld, LockHeld, NewerMutationWins
      <3>6. ClaimCurrent'
        BY <2>0, <2>6, <3>1, <3>2, <3>3, <3>4 DEF Claims, ClaimCurrent
      <3> QED
        BY <2>4, <3>5, <3>6 DEF Claims
    <2> QED
      BY <1>4, <2>5, <2>6 DEF Advance
  <1>5. CASE Respawn(i)
    <2>0. pc[i] = "respawn" /\ Leave(i) /\ UNCHANGED <<seq, userMuts>>
      BY <1>5 DEF Respawn
    <2>1. \/ respawned' = respawned \cup {Key(hx[i], Gen(i), plan[i])}
          \/ UNCHANGED respawned
      BY <1>5 DEF Respawn, RelaunchPane
    <2>2. Key(hx[i], Gen(i), plan[i]).plan = plan[i]
      BY DEF Key
    <2>3. plan[i] \in Plan /\ plan[i].seq \in Nat /\ seq[plan[i].pane] = plan[i].seq + 1
      BY <2>0 DEF Claims, PlanHeld, ClaimCurrent, Plan
    <2>4. \A k \in respawned' : k \in respawned \/ k.plan = plan[i]
      BY <2>1, <2>2
    <2>5. RelaunchedBehind'
      BY <2>0, <2>3, <2>4 DEF Claims, RelaunchedBehind
    <2>6. ClaimCurrent'
      BY <1>3, <2>0, <2>4 DEF Claims, ClaimCurrent
    <2>7. PlanHeld' /\ LockHeld' /\ NewerMutationWins'
      BY <1>3, <2>0 DEF Claims, PlanHeld, LockHeld, NewerMutationWins
    <2> QED
      BY <2>5, <2>6, <2>7 DEF Claims
  <1> QED
    BY <1>1, <1>2, <1>4, <1>5 DEF PaneStep

LEMMA EnvironmentClaims ==
  ASSUME TypeOK, Claims, Environment
  PROVE  Claims'
  <1>1. ASSUME NEW i \in Proc, Crash(i) PROVE Claims'
    <2>1. /\ UNCHANGED <<seq, userMuts, respawned>>
          /\ pc' = [pc EXCEPT ![i] = "idle"] /\ plan' = [plan EXCEPT ![i] = None]
          /\ plock' = [p \in Pane |-> IF plock[p] = i THEN None ELSE plock[p]]
      BY <1>1 DEF Crash, EndCycle, paneVars, histVars
    <2>2. pc'[i] = "idle" /\ \A j \in Proc \ {i} : pc'[j] = pc[j] /\ plan'[j] = plan[j]
      BY <2>1 DEF TypeOK
    <2>3. \A j \in Proc \ {i} : pc[j] \in {"advance", "respawn"} =>
            plock'[plan[j].pane] = plock[plan[j].pane]
      BY <2>1 DEF Claims, PlanHeld, LockHeld, Plan
    <2> QED
      BY <2>1, <2>2, <2>3, QuietClaims
  <1>2. ASSUME NEW p \in Pane, UserMutation(p) PROVE Claims'
    <2>1. /\ plock[p] = None /\ AdvanceSequence(p)
          /\ userMuts' = [userMuts EXCEPT ![p] = @ + 1]
          /\ UNCHANGED <<plock, pc, plan, respawned>>
      BY <1>2 DEF UserMutation, cycleVars
    <2>2. \A r \in Pane \ {p} : seq'[r] = seq[r] /\ userMuts'[r] = userMuts[r]
      BY <2>1, AdvanceGrows DEF TypeOK
    <2>3. \A j \in Proc : pc[j] \in {"advance", "respawn"} => plan[j].pane \in Pane \ {p}
      BY <2>1, ClaimsApart DEF Claims, PlanHeld, Plan
    <2>4. RelaunchedBehind'
      <3> SUFFICES ASSUME NEW k \in respawned
                   PROVE  k.plan.seq < seq'[k.plan.pane]
        BY <2>1 DEF RelaunchedBehind
      <3>1. k.plan \in Plan
        BY DEF TypeOK, Keys
      <3>2. k.plan.seq \in Nat /\ k.plan.pane \in Pane
        BY <3>1 DEF Plan
      <3>3. seq[k.plan.pane] \in Nat /\ seq[k.plan.pane] <= seq'[k.plan.pane]
            /\ seq'[k.plan.pane] \in Nat
        <4>1. CASE k.plan.pane = p
          BY <2>1, <4>1, AdvanceGrows DEF TypeOK
        <4>2. CASE k.plan.pane # p
          BY <2>2, <3>2, <4>2 DEF TypeOK
        <4> QED
          BY <4>1, <4>2
      <3> QED
        BY <3>2, <3>3 DEF Claims, RelaunchedBehind
    <2>5. PlanHeld' /\ LockHeld'
      BY <2>1 DEF Claims, PlanHeld, LockHeld
    <2>6. ClaimCurrent' /\ NewerMutationWins'
      BY <2>1, <2>2, <2>3 DEF Claims, ClaimCurrent, NewerMutationWins
    <2> QED
      BY <2>4, <2>5, <2>6 DEF Claims
  <1>3. ASSUME \A i \in Proc : ~Crash(i), \A p \in Pane : ~UserMutation(p)
        PROVE  UNCHANGED <<seq, userMuts, respawned, pc, plan, plock>>
    BY <1>3 DEF Environment, Shutdown, AgentDrift, BackgroundUpdate, DamageFile,
       paneVars, cycleVars, histVars
  <1> QED
    BY <1>1, <1>2, <1>3, QuietClaims

LEMMA IInvInit == Init => IInv
  <1> SUFFICES ASSUME Init PROVE PlansFresh /\ Claims
    BY InitType DEF IInv
  <1>1. \A i \in Proc : pc[i] = "idle" /\ mem[i] = DefaultState
                       /\ todo[i] = {} /\ kept[i] = {}
    BY DEF Init
  <1>2. PlansFresh
    BY <1>1, DefaultWithin DEF Init, PlansFresh, AllWithin
  <1>3. Claims
    BY <1>1 DEF Init, Claims, PlanHeld, LockHeld, RelaunchedBehind, ClaimCurrent,
       NewerMutationWins
  <1> QED
    BY <1>2, <1>3

LEMMA IInvStep == IInv /\ [Next]_vars => IInv'
  <1> SUFFICES ASSUME IInv, [Next]_vars PROVE IInv'
    OBVIOUS
  <1>0. TypeOK /\ PlansFresh /\ Claims /\ PlanHeld
    BY DEF IInv, Claims
  <1>1. CASE UNCHANGED vars
    <2>1. TypeOK'
      BY <1>0, <1>1 DEF TypeOK, vars, fileVars, paneVars, cycleVars, budgetVars, histVars
    <2>2. Claims'
      BY <1>0, <1>1, QuietClaims DEF vars, paneVars, cycleVars, histVars
    <2> QED
      BY <1>0, <2>1, <2>2, FreshStep DEF IInv
  <1>2. CASE Next
    <2>1. TypeOK'
      BY <1>0, <1>2, EnvironmentType, CycleType, PaneType DEF Next
    <2>2. Claims'
      BY <1>0, <1>2, EnvironmentClaims, CycleClaims, PaneClaims DEF Next
    <2> QED
      BY <1>0, <2>1, <2>2, FreshStep DEF IInv
  <1> QED
    BY <1>1, <1>2

LEMMA IInvAlways == Spec => []IInv
  BY IInvInit, IInvStep, PTL DEF Spec

(* Every variable keeps its type: in particular a process that advances a  *)
(* sequence or relaunches a pane has a plan to do it for                   *)
(* (process_cli_update_candidates_blocking).                               *)
THEOREM TypeCorrect == Spec => []TypeOK
  <1>1. IInv => TypeOK
    BY DEF IInv
  <1> QED
    BY <1>1, IInvAlways, PTL

(* The relaunch of a plan under one generation happens at most once,       *)
(* however many processes, crashes, failed calls and shut-down owners      *)
(* there are: pane_action's sequence comparison and the advance before the *)
(* respawn suffice for it; the marker is not needed.                       *)
THEOREM RelaunchOnce == Spec => []NeverRelaunchedTwice
  BY IInvAlways, IInvSafe, PTL

(* A process that claimed a plan relaunches its pane only if no user       *)
(* mutation came after the plan (begin_pane_mutation advances the durable  *)
(* sequence, pane_action compares it under the pane's process lock).       *)
THEOREM NewerMutationPrevails == Spec => []NewerMutationWins
  <1>1. IInv => NewerMutationWins
    BY DEF IInv, Claims
  <1> QED
    BY <1>1, IInvAlways, PTL

-----------------------------------------------------------------------------
(* No generation without a digest change.  What a state still may claim is *)
(* one generation more if its applied launcher is not the installed one.   *)

Behind(s, d, c) ==
  /\ s.gen + (IF s.applied \in {None, d} THEN 0 ELSE 1) <= c
  /\ s.intent # None => s.applied # None /\ s.intent.baseline = s.applied
  /\ s.pending # {} => s.gen >= 1

StateBehind(m) == \A h \in Harness : Behind(m.hs[h], installed[h], changes[h])

(* Plans are visited, and panes relaunched, under a generation.            *)
PassHasGeneration == \A i \in Proc :
  /\ todo[i] \cup kept[i] # {} => pc[i] \in InWorker /\ Gen(i) >= 1
  /\ pc[i] \in {"advance", "respawn"} => Gen(i) >= 1

GInv ==
  /\ StateBehind(disk) /\ \A i \in Proc : StateBehind(mem[i])
  /\ PassHasGeneration
  /\ \A k \in respawned : k.gen \in 1..changes[k.harness]

LEMMA DefaultBehind == \A d, c : c \in Nat => Behind(DefaultHarness, d, c)
  BY DEF Behind, DefaultHarness

LEMMA ReconcileBehind ==
  ASSUME NEW s \in HarnessState, NEW d \in Digest, NEW c \in Nat, Behind(s, d, c)
  PROVE  Behind(Reconcile(s, d), d, c)
  <1>0. s.gen \in Nat /\ d # None
    BY NoneAssumption DEF HarnessState
  <1>1. CASE s.intent = None
    <2>1. /\ Reconcile(s, d).gen = s.gen /\ Reconcile(s, d).applied = d
          /\ Reconcile(s, d).intent = None /\ Reconcile(s, d).pending = s.pending
      BY <1>1 DEF Reconcile, HarnessState
    <2> QED
      BY <1>0, <2>1 DEF Behind
  <1>2. CASE s.intent # None /\ s.intent.baseline = d
    <2>1. /\ Reconcile(s, d).gen = s.gen /\ Reconcile(s, d).applied = d
          /\ Reconcile(s, d).intent = None /\ Reconcile(s, d).pending = s.pending
      BY <1>2 DEF Reconcile, HarnessState
    <2> QED
      BY <1>0, <2>1 DEF Behind
  <1>3. CASE s.intent # None /\ s.intent.baseline # d
    <2>1. /\ Reconcile(s, d).gen = s.gen + 1 /\ Reconcile(s, d).applied = d
          /\ Reconcile(s, d).intent = None
      BY <1>3 DEF Reconcile, HarnessState
    <2>2. s.applied \notin {None, d}
      BY <1>3 DEF Behind
    <2>3. s.gen + 1 <= c
      BY <2>2 DEF Behind
    <2> QED
      BY <1>0, <2>1, <2>3 DEF Behind
  <1> QED
    BY <1>1, <1>2, <1>3

LEMMA PrepareIntentBehind ==
  ASSUME NEW s \in HarnessState, NEW d \in Digest, NEW c \in Nat, NEW Q, Behind(s, d, c)
  PROVE  Behind(PrepareIntent(s, d, Q), d, c)
  <1> DEFINE b == IF s.applied = None THEN d ELSE s.applied
             r == PrepareIntent(s, d, Q)
  <1>1. /\ r.gen = s.gen /\ r.applied = b /\ r.pending = s.pending
        /\ r.intent = [baseline |-> b, plans |-> Q]
    BY DEF PrepareIntent, HarnessState
  <1>2. b # None /\ (b \in {None, d} <=> s.applied \in {None, d})
    BY NoneAssumption
  <1>3. r.intent.baseline = b
    BY <1>1
  <1> QED
    BY <1>1, <1>2, <1>3 DEF Behind

(* What an install does to the states of its harness.                      *)
LEMMA InstallBehind ==
  ASSUME NEW s \in HarnessState, NEW d, NEW e, NEW c \in Nat, Behind(s, d, c)
  PROVE  Behind(s, e, IF e = d THEN c ELSE c + 1)
  <1>1. s.gen \in Nat
    BY DEF HarnessState
  <1> QED
    BY <1>1 DEF Behind

LEMMA ReconcileAllBehind ==
  ASSUME TypeOK, NEW m \in MaintenanceState, NEW H, StateBehind(m)
  PROVE  StateBehind(ReconcileAll(m, H))
  <1>1. \A h \in Harness : /\ m.hs[h] \in HarnessState /\ installed[h] \in Digest
                           /\ changes[h] \in Nat
    BY DEF TypeOK, MaintenanceState
  <1>2. \A h \in Harness : Behind(Reconcile(m.hs[h], installed[h]), installed[h], changes[h])
    BY <1>1, ReconcileBehind DEF StateBehind
  <1>3. ReconcileAll(m, H).hs = [h \in Harness |->
          IF h \in H THEN Reconcile(m.hs[h], installed[h]) ELSE m.hs[h]]
    BY DEF ReconcileAll, MaintenanceState
  <1> QED
    BY <1>2, <1>3 DEF StateBehind

LEMMA SetHarnessBehind ==
  ASSUME NEW m \in MaintenanceState, NEW h \in Harness, NEW s, StateBehind(m),
         Behind(s, installed[h], changes[h])
  PROVE  StateBehind(SetHarness(m, h, s))
  BY DEF StateBehind, SetHarness, MaintenanceState

LEMMA DefaultStateBehind ==
  ASSUME TypeOK
  PROVE  StateBehind(DefaultState)
  <1>1. \A h \in Harness : changes[h] \in Nat
    BY DEF TypeOK
  <1> QED
    BY <1>1, DefaultBehind DEF StateBehind, DefaultState

LEMMA InstallChanges ==
  ASSUME TypeOK, NEW h \in Harness, NEW d \in Digest, Install(h, d)
  PROVE  /\ installed' = [installed EXCEPT ![h] = d]
         /\ \A g \in Harness : changes'[g] = IF g = h /\ d # installed[h]
                                             THEN changes[g] + 1 ELSE changes[g]
  <1>0. changes \in [Harness -> Nat]
    BY DEF TypeOK
  <1>1. CASE d = installed[h]
    BY <1>1 DEF Install
  <1>2. CASE d # installed[h]
    BY <1>0, <1>2 DEF Install
  <1> QED
    BY <1>1, <1>2

(* A launcher that is installed keeps every state behind the changes.      *)
LEMMA InstallKeeps ==
  ASSUME TypeOK, NEW h \in Harness, NEW d \in Digest, Install(h, d),
         NEW m \in MaintenanceState, StateBehind(m)
  PROVE  \A g \in Harness : Behind(m.hs[g], installed'[g], changes'[g])
  <1>1. /\ installed' = [installed EXCEPT ![h] = d]
        /\ \A g \in Harness : changes'[g] = IF g = h /\ d # installed[h]
                                            THEN changes[g] + 1 ELSE changes[g]
    BY InstallChanges
  <1> SUFFICES ASSUME NEW g \in Harness PROVE Behind(m.hs[g], installed'[g], changes'[g])
    OBVIOUS
  <1>2. m.hs[g] \in HarnessState /\ changes[g] \in Nat /\ Behind(m.hs[g], installed[g], changes[g])
    BY DEF TypeOK, MaintenanceState, StateBehind
  <1>3. CASE g = h
    <2>1. /\ installed'[g] = d
          /\ changes'[g] = IF d = installed[g] THEN changes[g] ELSE changes[g] + 1
      BY <1>1, <1>3 DEF TypeOK
    <2> QED
      BY <1>2, <2>1, InstallBehind
  <1>4. CASE g # h
    BY <1>1, <1>2, <1>4 DEF TypeOK
  <1> QED
    BY <1>3, <1>4

LEMMA InstallCounts ==
  ASSUME TypeOK, GInv, NEW h \in Harness, NEW d \in Digest, Install(h, d), UNCHANGED respawned
  PROVE  \A k \in respawned' : k.gen \in 1..changes'[k.harness]
  <1>1. \A g \in Harness : changes[g] \in Nat /\ changes'[g] \in Nat /\ changes[g] <= changes'[g]
    <2>1. \A g \in Harness : changes[g] \in Nat
      BY DEF TypeOK
    <2>2. \A g \in Harness : changes'[g] \in {changes[g], changes[g] + 1}
      BY InstallChanges
    <2> QED
      BY <2>1, <2>2
  <1>2. \A k \in respawned : k.harness \in Harness /\ k.gen \in Nat
    BY DEF TypeOK, Keys
  <1> QED
    BY <1>1, <1>2 DEF GInv

(* The pass of one process does not depend on the others.                  *)
LEMMA PassOfOne ==
  ASSUME PassHasGeneration, NEW i \in Proc,
         \A j \in Proc \ {i} : /\ todo'[j] = todo[j] /\ kept'[j] = kept[j]
                               /\ pc'[j] = pc[j] /\ mem'[j] = mem[j] /\ hx'[j] = hx[j],
         todo'[i] \cup kept'[i] # {} => pc'[i] \in InWorker /\ Gen(i)' >= 1,
         pc'[i] \in {"advance", "respawn"} => Gen(i)' >= 1
  PROVE  PassHasGeneration'
  BY DEF PassHasGeneration, Gen

LEMMA EndCycleBehind ==
  ASSUME TypeOK, GInv, NEW i \in Proc, EndCycle(i), UNCHANGED <<installed, changes>>
  PROVE  (\A j \in Proc : StateBehind(mem[j]))' /\ PassHasGeneration'
  <1>1. /\ mem'[i] = DefaultState /\ todo'[i] = {} /\ kept'[i] = {} /\ pc'[i] = "idle"
        /\ \A j \in Proc \ {i} : /\ todo'[j] = todo[j] /\ kept'[j] = kept[j]
                                 /\ pc'[j] = pc[j] /\ mem'[j] = mem[j] /\ hx'[j] = hx[j]
    BY DEF EndCycle, TypeOK
  <1>2. PassHasGeneration'
    <2>1. todo'[i] \cup kept'[i] = {} /\ pc'[i] \notin {"advance", "respawn"}
      BY <1>1
    <2> QED
      BY <1>1, <2>1, PassOfOne DEF GInv
  <1>3. (\A j \in Proc : StateBehind(mem[j]))'
    BY <1>1, DefaultStateBehind DEF GInv, StateBehind
  <1> QED
    BY <1>2, <1>3

LEMMA CycleBehind ==
  ASSUME TypeOK, GInv, NEW i \in Proc, CycleStep(i)
  PROVE  GInv'
  <1>0. /\ mem[i] \in MaintenanceState /\ mem \in [Proc -> MaintenanceState]
        /\ disk \in MaintenanceState
        /\ hx[i] \in Harness /\ hx \in [Proc -> Harness]
        /\ \A h \in Harness : mem[i].hs[h] \in HarnessState
        /\ \A h \in Harness : installed[h] \in Digest /\ changes[h] \in Nat
        /\ todo \in [Proc -> SUBSET Plan] /\ kept \in [Proc -> SUBSET Plan]
        /\ pc \in [Proc -> PC]
    BY DEF TypeOK, MaintenanceState
  <1>a. /\ StateBehind(disk) /\ \A j \in Proc : StateBehind(mem[j])
        /\ PassHasGeneration /\ \A k \in respawned : k.gen \in 1..changes[k.harness]
        /\ \A h \in Harness : Behind(mem[i].hs[h], installed[h], changes[h])
    BY DEF GInv, StateBehind
  <1> HIDE DEF Harness
  (* A step that only changes what i holds, outside the relaunch pass.     *)
  <1>b. ASSUME UNCHANGED <<installed, changes, respawned, todo, kept>>,
               pc[i] \notin InWorker, pc'[i] \notin {"advance", "respawn"},
               \A j \in Proc \ {i} : pc'[j] = pc[j] /\ hx'[j] = hx[j] /\ mem'[j] = mem[j],
               StateBehind(mem'[i]), disk' = disk \/ disk' = mem'[i]
        PROVE  GInv'
    <2>1. todo[i] \cup kept[i] = {}
      BY <1>a, <1>b DEF PassHasGeneration
    <2>2. PassHasGeneration'
      BY <1>a, <1>b, <2>1, PassOfOne
    <2>3. StateBehind(disk)' /\ \A j \in Proc : StateBehind(mem[j])'
      BY <1>a, <1>b DEF StateBehind
    <2> QED
      BY <1>a, <1>b, <2>2, <2>3 DEF GInv
  (* A step that ends the cycle.                                           *)
  <1>c. ASSUME UNCHANGED <<installed, changes, respawned>>, EndCycle(i),
               NEW m, StateBehind(m), disk' = disk \/ disk' = m
        PROVE  GInv'
    <2>1. StateBehind(disk)'
      BY <1>a, <1>c DEF StateBehind
    <2> QED
      BY <1>a, <1>c, <2>1, EndCycleBehind DEF GInv
  <1>1. CASE TryOwner(i)
    <2>1. StateBehind(mem'[i])
      BY <1>0, <1>1, <1>a, DefaultStateBehind DEF TryOwner
    <2> QED
      BY <1>0, <1>1, <1>b, <2>1 DEF TryOwner, budgetVars, histVars, InWorker
  <1>2. CASE EstablishBaselines(i)
    <2>1. PICK ok \in SUBSET Harness :
            mem' = [mem EXCEPT ![i] = [ReconcileAll(mem[i], ok) EXCEPT !.checked = TRUE]]
      BY <1>2 DEF EstablishBaselines
    <2>2. StateBehind(ReconcileAll(mem[i], ok)) /\ ReconcileAll(mem[i], ok) \in MaintenanceState
      BY <1>0, <1>a, ReconcileAllBehind, ReconcileAllType
    <2>3. StateBehind([ReconcileAll(mem[i], ok) EXCEPT !.checked = TRUE])
      BY <2>2 DEF StateBehind, MaintenanceState
    <2> QED
      BY <1>0, <1>2, <1>b, <2>1, <2>3 DEF EstablishBaselines, fileVars, histVars, InWorker
  <1>3. ASSUME NEW due \in BOOLEAN, CheckDue(i, due) PROVE GInv'
    BY <1>0, <1>3, <1>a, <1>b DEF CheckDue, fileVars, budgetVars, histVars, InWorker
  <1>4. CASE SkipHarness(i)
    BY <1>0, <1>4, <1>a, <1>b DEF SkipHarness, NextHarness, fileVars, histVars, InWorker
  <1>5. CASE Intend(i)
    <2> DEFINE h == hx[i]
               m(S) == SetHarness(mem[i], h, PrepareIntent(mem[i].hs[h], installed[h],
                                                           {PlanOf(p) : p \in S}))
    <2>1. PICK S \in SUBSET Pane :
            \/ /\ Store(m(S))
               /\ mem' = [mem EXCEPT ![i] = m(S)]
               /\ pc' = [pc EXCEPT ![i] = "update"]
               /\ UNCHANGED <<owner, hx, todo, kept, tries, plan, faults>>
            \/ StoreFails(i, m(S))
      BY <1>5 DEF Intend
    <2>2. StateBehind(m(S))
      <3>1. Behind(PrepareIntent(mem[i].hs[h], installed[h], {PlanOf(p) : p \in S}),
                   installed[h], changes[h])
        BY <1>0, <1>a, PrepareIntentBehind
      <3> QED
        BY <1>0, <1>a, <3>1, SetHarnessBehind
    <2>3. UNCHANGED <<installed, changes, respawned>> /\ pc[i] \notin InWorker
      BY <1>5 DEF Intend, histVars, InWorker
    <2> HIDE DEF m
    <2>4. CASE StoreFails(i, m(S))
      BY <1>c, <2>2, <2>3, <2>4 DEF StoreFails, Store, fileVars
    <2>5. CASE /\ Store(m(S)) /\ mem' = [mem EXCEPT ![i] = m(S)]
               /\ pc' = [pc EXCEPT ![i] = "update"]
               /\ UNCHANGED <<owner, hx, todo, kept, tries, plan, faults>>
      BY <1>0, <1>b, <2>2, <2>3, <2>5 DEF Store
    <2> QED
      BY <2>1, <2>4, <2>5
  <1>6. CASE Update(i)
    <2> DEFINE h == hx[i]
    <2>1. PICK d \in Digest :
            /\ Install(h, d)
            /\ \/ mem' = [mem EXCEPT ![i] = SetHarness(@, h, Reconcile(@.hs[h], d))]
               \/ UNCHANGED mem
      BY <1>6 DEF Update
    <2>2. /\ pc[i] = "update" /\ pc' = [pc EXCEPT ![i] = "commit"]
          /\ UNCHANGED <<disk, hx, todo, kept, respawned>>
      BY <1>6 DEF Update, fileVars, histVars
    <2>3. installed'[h] = d /\ changes'[h] \in Nat
      BY <1>0, <2>1 DEF Install, TypeOK
    <2>4. \A m \in MaintenanceState : StateBehind(m) =>
            \A g \in Harness : Behind(m.hs[g], installed'[g], changes'[g])
      BY <1>0, <2>1, InstallKeeps
    <2>5. Behind(Reconcile(mem[i].hs[h], d), d, changes'[h])
      BY <1>0, <1>a, <2>3, <2>4, ReconcileBehind
    <2>6. \A g \in Harness : Behind(mem'[i].hs[g], installed'[g], changes'[g])
      <3>1. CASE mem' = [mem EXCEPT ![i] = SetHarness(mem[i], h, Reconcile(mem[i].hs[h], d))]
        <4>1. mem'[i] = [mem[i] EXCEPT !.hs[h] = Reconcile(mem[i].hs[h], d)]
          BY <1>0, <3>1 DEF SetHarness
        <4>2. /\ mem'[i].hs[h] = Reconcile(mem[i].hs[h], d)
              /\ \A g \in Harness \ {h} : mem'[i].hs[g] = mem[i].hs[g]
          BY <1>0, <4>1 DEF MaintenanceState
        <4> QED
          BY <1>0, <1>a, <2>3, <2>4, <2>5, <4>2
      <3> QED
        BY <1>0, <1>a, <2>1, <2>4, <3>1
    <2>7. \A j \in Proc \ {i} : mem'[j] = mem[j] /\ mem[j] \in MaintenanceState
      BY <1>0, <2>1
    <2>8. StateBehind(disk)' /\ \A j \in Proc : StateBehind(mem[j])'
      BY <1>0, <1>a, <2>2, <2>4, <2>6, <2>7 DEF StateBehind
    <2>9. todo[i] \cup kept[i] = {}
      BY <1>a, <2>2 DEF PassHasGeneration, InWorker
    <2>10. PassHasGeneration'
      BY <1>0, <1>a, <2>2, <2>7, <2>9, PassOfOne
    <2> QED
      BY <1>0, <2>1, <2>2, <2>8, <2>10, InstallCounts DEF GInv
  <1>7. CASE Commit(i)
    <2>1. UNCHANGED <<installed, changes, respawned>> /\ pc[i] \notin InWorker
      BY <1>7 DEF Commit, histVars, InWorker
    <2>2. CASE StoreFails(i, mem[i])
      BY <1>a, <1>c, <2>1, <2>2 DEF StoreFails, Store, fileVars
    <2>3. CASE Store(mem[i]) /\ NextHarness(i)
               /\ UNCHANGED <<owner, mem, todo, kept, tries, plan, faults>>
      BY <1>0, <1>a, <1>b, <2>1, <2>3 DEF Store, NextHarness
    <2> QED
      BY <1>7, <2>2, <2>3 DEF Commit
  <1>8. CASE Recover(i)
    <2>1. PICK ok : mem' = [mem EXCEPT ![i] = ReconcileAll(mem[i], ok)]
      BY <1>8 DEF Recover
    <2>2. /\ UNCHANGED <<disk, installed, changes, respawned>>
          /\ todo' = [todo EXCEPT ![i] = Visit(mem'[i], 1)] /\ kept' = [kept EXCEPT ![i] = {}]
          /\ pc' = [pc EXCEPT ![i] = "pick"] /\ hx' = [hx EXCEPT ![i] = 1]
      BY <1>8 DEF Recover, fileVars, histVars
    <2>3. StateBehind(mem'[i])
      BY <1>0, <1>a, <2>1, ReconcileAllBehind
    <2>4. todo'[i] \cup kept'[i] # {} => mem'[i].hs[1].pending # {}
      BY <1>0, <2>2 DEF Visit
    <2>5. todo'[i] \cup kept'[i] # {} => pc'[i] \in InWorker /\ Gen(i)' >= 1
      BY <1>0, <2>2, <2>3, <2>4, NextIsHarness DEF StateBehind, Behind, Gen, InWorker
    <2>6. PassHasGeneration'
      <3>1. \A j \in Proc \ {i} : /\ todo'[j] = todo[j] /\ kept'[j] = kept[j]
                                  /\ pc'[j] = pc[j] /\ mem'[j] = mem[j] /\ hx'[j] = hx[j]
        BY <1>0, <2>1, <2>2
      <3> QED
        BY <1>0, <1>a, <2>2, <2>5, <3>1, PassOfOne
    <2>7. StateBehind(disk)' /\ \A j \in Proc : StateBehind(mem[j])'
      BY <1>0, <1>a, <2>1, <2>2, <2>3 DEF StateBehind
    <2> QED
      BY <1>a, <2>2, <2>6, <2>7 DEF GInv
  <1>9. CASE FinishHarness(i)
    <2> DEFINE h == hx[i]
               m == IF mem[i].hs[h].applied = None THEN mem[i]
                    ELSE [mem[i] EXCEPT !.hs[h].pending = kept[i]]
    <2>0. /\ mem' = [mem EXCEPT ![i] = m] /\ kept' = [kept EXCEPT ![i] = {}]
          /\ pc[i] = "pick" /\ todo[i] = {}
          /\ UNCHANGED <<disk, installed, changes, respawned>>
          /\ \/ /\ h < NumHarness /\ hx' = [hx EXCEPT ![i] = h + 1]
                /\ todo' = [todo EXCEPT ![i] = Visit(m, h + 1)]
                /\ UNCHANGED pc
             \/ UNCHANGED todo /\ pc' = [pc EXCEPT ![i] = "finish"]
                /\ hx' = [hx EXCEPT ![i] = 1]
      BY <1>9 DEF FinishHarness, fileVars, budgetVars, histVars
    <2>1. kept[i] # {} => mem[i].hs[h].gen >= 1
      BY <1>a DEF PassHasGeneration, Gen
    <2>2. StateBehind(m)
      <3>1. Behind([mem[i].hs[h] EXCEPT !.pending = kept[i]], installed[h], changes[h])
        BY <1>0, <1>a, <2>1 DEF Behind, HarnessState
      <3>2. StateBehind(SetHarness(mem[i], h, [mem[i].hs[h] EXCEPT !.pending = kept[i]]))
        BY <1>0, <1>a, <3>1, SetHarnessBehind
      <3> QED
        BY <1>a, <3>2 DEF SetHarness
    <2> HIDE DEF m
    <2>3. mem'[i] = m /\ \A j \in Proc \ {i} : /\ todo'[j] = todo[j] /\ kept'[j] = kept[j]
                                  /\ pc'[j] = pc[j] /\ mem'[j] = mem[j] /\ hx'[j] = hx[j]
      BY <1>0, <2>0
    <2>4. todo'[i] \cup kept'[i] # {} => pc'[i] \in InWorker /\ Gen(i)' >= 1
      <3>1. SUFFICES ASSUME todo'[i] \cup kept'[i] # {}
                     PROVE  pc'[i] \in InWorker /\ Gen(i)' >= 1
        OBVIOUS
      <3>2. /\ h < NumHarness /\ hx'[i] = h + 1 /\ pc'[i] = "pick"
            /\ Visit(m, h + 1) # {}
        BY <1>0, <2>0, <3>1
      <3>3. h + 1 \in Harness /\ m.hs[h + 1].pending # {}
        BY <1>0, <3>2, NextIsHarness DEF Visit
      <3> QED
        BY <2>2, <2>3, <3>2, <3>3 DEF StateBehind, Behind, Gen, InWorker
    <2>5. pc'[i] \notin {"advance", "respawn"}
      BY <1>0, <2>0
    <2>6. PassHasGeneration'
      BY <1>a, <2>3, <2>4, <2>5, PassOfOne
    <2>7. StateBehind(disk)' /\ \A j \in Proc : StateBehind(mem[j])'
      BY <1>a, <2>0, <2>2, <2>3 DEF StateBehind
    <2> QED
      BY <1>a, <2>0, <2>6, <2>7 DEF GInv
  <1>10. CASE Finish(i)
    <2>1. UNCHANGED <<installed, changes, respawned>> /\ EndCycle(i)
          /\ (disk' = disk \/ disk' = mem[i])
      BY <1>10 DEF Finish, StoreFails, Store, fileVars, histVars
    <2> QED
      BY <1>a, <1>c, <2>1
  <1> QED
    BY <1>1, <1>2, <1>3, <1>4, <1>5, <1>6, <1>7, <1>8, <1>9, <1>10 DEF CycleStep

LEMMA PaneBehind ==
  ASSUME TypeOK, GInv, PlanHeld, NEW i \in Proc, PaneStep(i)
  PROVE  GInv'
  <1>0. /\ todo \in [Proc -> SUBSET Plan] /\ kept \in [Proc -> SUBSET Plan]
        /\ pc \in [Proc -> PC] /\ hx[i] \in Harness
    BY DEF TypeOK
  <1>1. UNCHANGED <<disk, mem, hx, installed, changes>>
    BY DEF PaneStep, KeepUnread, MaterializeReady, Defer, Forget, AlreadyClaimed,
       ClaimBeforeRespawn, Advance, Respawn, pickUnchanged, fileVars
  <1>2. /\ \/ UNCHANGED todo
           \/ pc[i] = "pick" /\ \E q \in todo[i] : todo' = [todo EXCEPT ![i] = @ \ {q}]
        /\ \/ UNCHANGED kept
           \/ pc[i] = "pick" /\ \E q \in todo[i] : kept' = [kept EXCEPT ![i] = @ \cup {q}]
        /\ \/ UNCHANGED pc
           \/ pc[i] = "pick" /\ todo[i] # {} /\ pc' = [pc EXCEPT ![i] = "advance"]
           \/ pc[i] \in {"advance", "respawn"}
              /\ pc' \in {[pc EXCEPT ![i] = "respawn"], [pc EXCEPT ![i] = "pick"]}
    BY DEF PaneStep, KeepUnread, MaterializeReady, Defer, Forget, AlreadyClaimed,
       ClaimBeforeRespawn, Advance, Respawn, Decides, Keep, Leave
  <1>3. PassHasGeneration'
    <2>1. \A j \in Proc \ {i} : todo'[j] = todo[j] /\ kept'[j] = kept[j] /\ pc'[j] = pc[j]
      BY <1>0, <1>2
    <2>2. todo'[i] \cup kept'[i] # {} => pc'[i] \in InWorker /\ Gen(i) >= 1
      BY <1>0, <1>2 DEF GInv, PassHasGeneration, InWorker
    <2>3. pc'[i] \in {"advance", "respawn"} => Gen(i) >= 1
      BY <1>0, <1>2 DEF GInv, PassHasGeneration
    <2> QED
      BY <1>1, <2>1, <2>2, <2>3, PassOfOne DEF GInv, Gen
  <1>4. \/ UNCHANGED respawned
        \/ pc[i] = "respawn" /\ respawned' = respawned \cup {Key(hx[i], Gen(i), plan[i])}
    BY DEF PaneStep, KeepUnread, MaterializeReady, Defer, Forget, AlreadyClaimed,
       ClaimBeforeRespawn, Advance, Respawn, RelaunchPane, pickUnchanged, histVars
  <1>5. pc[i] = "respawn" => Gen(i) \in 1..changes[hx[i]]
    <2>1. changes[hx[i]] \in Nat
      BY <1>0 DEF TypeOK
    <2>2. Gen(i) \in Nat
      BY GenType
    <2>3. Behind(mem[i].hs[hx[i]], installed[hx[i]], changes[hx[i]])
      BY <1>0 DEF GInv, StateBehind
    <2>4. Gen(i) <= changes[hx[i]]
      BY <2>1, <2>2, <2>3 DEF Behind, Gen
    <2> QED
      BY <2>1, <2>2, <2>4 DEF GInv, PassHasGeneration
  <1>6. \A k \in respawned' : k.gen \in 1..changes[k.harness]
    BY <1>4, <1>5 DEF GInv, Key
  <1>7. StateBehind(disk)' /\ \A j \in Proc : StateBehind(mem[j])'
    BY <1>1 DEF GInv, StateBehind
  <1> QED
    BY <1>1, <1>3, <1>6, <1>7 DEF GInv

LEMMA EnvironmentBehind ==
  ASSUME TypeOK, GInv, Environment
  PROVE  GInv'
  <1>1. ASSUME NEW i \in Proc, Crash(i) PROVE GInv'
    <2>1. EndCycle(i) /\ UNCHANGED <<disk, installed, changes, respawned>>
      BY <1>1 DEF Crash, fileVars, histVars
    <2>2. StateBehind(disk)'
      BY <2>1 DEF GInv, StateBehind
    <2> QED
      BY <2>1, <2>2, EndCycleBehind DEF GInv
  <1>2. ASSUME NEW h \in Harness, BackgroundUpdate(h) PROVE GInv'
    <2>1. PICK d \in Digest : Install(h, d)
      BY <1>2 DEF BackgroundUpdate
    <2>2. UNCHANGED <<disk, mem, hx, pc, todo, kept, respawned>>
      BY <1>2 DEF BackgroundUpdate, fileVars, cycleVars, histVars
    <2>3. disk \in MaintenanceState /\ \A j \in Proc : mem[j] \in MaintenanceState
      BY DEF TypeOK
    <2>4. StateBehind(disk)' /\ \A j \in Proc : StateBehind(mem[j])'
      BY <2>1, <2>2, <2>3, InstallKeeps DEF GInv, StateBehind
    <2>5. PassHasGeneration'
      BY <2>2 DEF GInv, PassHasGeneration, Gen
    <2> QED
      BY <2>1, <2>2, <2>4, <2>5, InstallCounts DEF GInv
  <1>3. ASSUME \A i \in Proc : ~Crash(i), \A h \in Harness : ~BackgroundUpdate(h)
        PROVE  GInv'
    <2>1. UNCHANGED <<disk, mem, hx, pc, todo, kept, installed, changes, respawned>>
      BY <1>3 DEF Environment, Shutdown, UserMutation, AgentDrift, DamageFile,
         fileVars, cycleVars, budgetVars, histVars
    <2> QED
      BY <2>1 DEF GInv, StateBehind, PassHasGeneration, Gen
  <1> QED
    BY <1>1, <1>2, <1>3

LEMMA GInvInit == Init => GInv
  <1> SUFFICES ASSUME Init PROVE GInv
    OBVIOUS
  <1>1. TypeOK /\ StateBehind(DefaultState)
    BY InitType, DefaultStateBehind
  <1>2. /\ disk = DefaultState /\ respawned = {}
        /\ \A i \in Proc : mem[i] = DefaultState /\ todo[i] = {} /\ kept[i] = {} /\ pc[i] = "idle"
    BY DEF Init
  <1> QED
    BY <1>1, <1>2 DEF GInv, PassHasGeneration

LEMMA GInvStep == IInv /\ GInv /\ [Next]_vars => GInv'
  <1> SUFFICES ASSUME IInv, GInv, [Next]_vars PROVE GInv'
    OBVIOUS
  <1>0. TypeOK /\ PlanHeld
    BY DEF IInv, Claims
  <1>1. CASE UNCHANGED vars
    BY <1>1 DEF vars, fileVars, cycleVars, budgetVars, histVars, GInv, StateBehind,
       PassHasGeneration, Gen
  <1>2. CASE Next
    BY <1>0, <1>2, CycleBehind, PaneBehind, EnvironmentBehind DEF Next
  <1> QED
    BY <1>1, <1>2

LEMMA GInvSafe == IInv /\ GInv => GenerationsAreChanges
  <1> SUFFICES ASSUME IInv, GInv PROVE GenerationsAreChanges
    OBVIOUS
  <1>1. \A h \in Harness : changes[h] \in Nat /\ disk.hs[h].gen \in Nat
                          /\ \A i \in Proc : mem[i].hs[h].gen \in Nat
    BY DEF IInv, TypeOK, MaintenanceState, HarnessState
  <1> QED
    BY <1>1 DEF GInv, StateBehind, Behind, GenerationsAreChanges

(* No pane is relaunched unless its launcher's digest changed, and no more *)
(* generations are ever in use than there were digest changes: crashes,    *)
(* interrupted updaters, background updates and a state file that starts   *)
(* over included (HarnessState::reconcile compares digests with the last   *)
(* applied baseline).                                                      *)
THEOREM NoGenerationWithoutChange == Spec => []GenerationsAreChanges
  <1>1. Spec => []GInv
    BY IInvAlways, GInvInit, GInvStep, PTL DEF Spec
  <1> QED
    BY <1>1, IInvAlways, GInvSafe, PTL
-----------------------------------------------------------------------------
(* The updater runs under the owner lock, over an intent that is stored.   *)

UInv == UpdaterIsRecoverable /\ \A i \in Proc : pc[i] \in InUpdate => owner = i

LEMMA CycleUpdates ==
  ASSUME TypeOK, UInv, NEW i \in Proc, CycleStep(i)
  PROVE  UInv'
  <1>0. /\ pc \in [Proc -> PC] /\ mem \in [Proc -> MaintenanceState] /\ hx \in [Proc -> Harness]
        /\ mem[i] \in MaintenanceState /\ hx[i] \in Harness /\ None \notin Proc
    BY NoneAssumption DEF TypeOK
  <1> HIDE DEF Harness
  <1>1. /\ \A j \in Proc \ {i} : pc'[j] = pc[j] /\ mem'[j] = mem[j] /\ hx'[j] = hx[j]
        /\ owner' \in {owner, i, IF owner = i THEN None ELSE owner}
        /\ pc'[i] \in InUpdate => owner' = i
        /\ pc'[i] = "update" => pc[i] = "intend"
    <2>1. CASE TryOwner(i) \/ EstablishBaselines(i) \/ (\E due \in BOOLEAN : CheckDue(i, due))
      BY <1>0, <2>1 DEF TryOwner, EstablishBaselines, CheckDue, UInv, InUpdate
    <2>2. CASE SkipHarness(i) \/ Intend(i) \/ Update(i)
      BY <1>0, <2>2 DEF SkipHarness, NextHarness, Intend, StoreFails, EndCycle, ReleaseOwner, Update,
         UInv, InUpdate
    <2>3. CASE Commit(i) \/ Recover(i) \/ FinishHarness(i) \/ Finish(i)
      BY <1>0, <2>3 DEF Commit, NextHarness, StoreFails, EndCycle, ReleaseOwner, Recover,
         FinishHarness, Finish, UInv, InUpdate, InWorker
    <2> QED
      BY <2>1, <2>2, <2>3 DEF CycleStep
  \* Another process that updates is the owner: the state file is its own.
  <1>2. ASSUME NEW j \in Proc \ {i}, pc[j] = "update"
        PROVE  owner' = j /\ UNCHANGED fileVars
    <2>1. owner = j /\ owner # i /\ pc[i] \notin InUpdate
      BY <1>2 DEF UInv, InUpdate
    <2>2. CASE TryOwner(i) \/ FinishHarness(i) \/ Finish(i)
      BY <1>0, <2>1, <2>2 DEF TryOwner, FinishHarness, Finish, EndCycle, ReleaseOwner
    <2>3. CASE \/ EstablishBaselines(i) \/ (\E due \in BOOLEAN : CheckDue(i, due)) \/ SkipHarness(i)
               \/ Intend(i) \/ Update(i) \/ Commit(i) \/ Recover(i)
      BY <2>1, <2>3 DEF EstablishBaselines, CheckDue, SkipHarness, Intend, Update, Commit, Recover,
         InUpdate
    <2> QED
      BY <2>2, <2>3 DEF CycleStep
  <1>3. ASSUME pc'[i] = "update"
        PROVE  file' = "ok" /\ disk' = mem'[i] /\ disk'.hs[hx'[i]].intent # None
    <2> DEFINE h == hx[i]
               s(S) == PrepareIntent(mem[i].hs[h], installed[h], {PlanOf(p) : p \in S})
    <2>1. Intend(i)
      BY <1>0, <1>1, <1>3 DEF CycleStep, TryOwner, EstablishBaselines, CheckDue, SkipHarness, NextHarness,
         Update, Commit, Recover, FinishHarness, Finish, StoreFails, EndCycle
    <2>2. PICK S \in SUBSET Pane : /\ Store(SetHarness(mem[i], h, s(S)))
                                   /\ mem' = [mem EXCEPT ![i] = SetHarness(mem[i], h, s(S))]
                                   /\ UNCHANGED hx
      BY <1>0, <1>3, <2>1 DEF Intend, StoreFails, EndCycle
    <2>3. s(S).intent # None
      <3>1. mem[i].hs[h] \in HarnessState /\ installed[h] \in Digest
        BY <1>0 DEF MaintenanceState, TypeOK
      <3>2. {PlanOf(p) : p \in S} \in SUBSET Plan
        BY PlanOfType
      <3> QED
        BY <3>1, <3>2, PrepareIntentOpens, NoneIsNoIntent
    <2>4. SetHarness(mem[i], h, s(S)).hs[h] = s(S)
      BY <1>0 DEF SetHarness, MaintenanceState
    <2> HIDE DEF s
    <2> QED
      BY <1>0, <2>2, <2>3, <2>4 DEF Store
  <1>4. UpdaterIsRecoverable'
    <2> SUFFICES ASSUME NEW j \in Proc, pc'[j] = "update"
                 PROVE  /\ owner' = j /\ file' # "absent"
                        /\ file' = "ok" => disk' = mem'[j] /\ disk'.hs[hx'[j]].intent # None
      BY DEF UpdaterIsRecoverable
    <2>1. CASE j = i
      BY <1>1, <1>3, <2>1 DEF InUpdate
    <2>2. CASE j # i
      BY <1>1, <1>2, <2>2 DEF UInv, UpdaterIsRecoverable, fileVars
    <2> QED
      BY <2>1, <2>2
  <1>5. \A j \in Proc : pc'[j] \in InUpdate => owner' = j
    <2> SUFFICES ASSUME NEW j \in Proc \ {i}, pc[j] \in InUpdate PROVE owner' = j
      BY <1>1
    <2>1. owner = j
      BY DEF UInv
    <2>2. ~TryOwner(i)
      BY <1>0, <2>1 DEF TryOwner
    <2>3. owner' \in {owner, IF owner = i THEN None ELSE owner}
      BY <2>2 DEF CycleStep, EstablishBaselines, CheckDue, SkipHarness, Intend, Update, Commit, Recover,
         FinishHarness, Finish, StoreFails, EndCycle, ReleaseOwner
    <2> QED
      BY <2>1, <2>3
  <1> QED
    BY <1>4, <1>5 DEF UInv

LEMMA OtherUpdates ==
  ASSUME TypeOK, UInv, Environment \/ (\E i \in Proc : PaneStep(i)) \/ UNCHANGED vars
  PROVE  UInv'
  <1>1. ASSUME NEW i \in Proc, PaneStep(i) PROVE UInv'
    <2>1. UNCHANGED <<owner, file, disk, mem, hx>>
      BY <1>1 DEF PaneStep, KeepUnread, MaterializeReady, Defer, Forget, AlreadyClaimed,
         ClaimBeforeRespawn, Advance, Respawn, pickUnchanged, fileVars
    <2>2. \A j \in Proc : pc'[j] = pc[j] \/ pc'[j] \in InWorker
      BY <1>1 DEF PaneStep, KeepUnread, MaterializeReady, Defer, Forget, AlreadyClaimed,
         ClaimBeforeRespawn, Advance, Respawn, Leave, InWorker, TypeOK
    <2> QED
      BY <2>1, <2>2 DEF UInv, UpdaterIsRecoverable, InUpdate, InWorker
  <1>2. ASSUME NEW i \in Proc, Crash(i) PROVE UInv'
    <2>1. /\ pc'[i] = "idle" /\ owner' = IF owner = i THEN None ELSE owner
          /\ UNCHANGED <<file, disk>>
          /\ \A j \in Proc \ {i} : pc'[j] = pc[j] /\ mem'[j] = mem[j] /\ hx'[j] = hx[j]
      BY <1>2 DEF Crash, EndCycle, ReleaseOwner, fileVars, TypeOK
    <2> QED
      BY <2>1 DEF UInv, UpdaterIsRecoverable, InUpdate
  <1>3. ASSUME NEW i \in Proc, Shutdown(i) PROVE UInv'
    <2>1. UNCHANGED <<file, disk, pc, mem, hx>> /\ owner = i /\ pc[i] \in InWorker
      BY <1>3 DEF Shutdown, fileVars, cycleVars
    <2>2. \A j \in Proc : pc[j] \notin InUpdate
      BY <2>1 DEF UInv, InUpdate, InWorker
    <2> QED
      BY <2>1, <2>2 DEF UInv, UpdaterIsRecoverable, InUpdate
  <1>4. CASE DamageFile
    BY <1>4 DEF DamageFile, cycleVars, UInv, UpdaterIsRecoverable
  <1>5. ASSUME \/ \E p \in Pane : UserMutation(p) \/ AgentDrift(p)
               \/ \E h \in Harness : BackgroundUpdate(h)
               \/ UNCHANGED vars
        PROVE  UInv'
    <2>1. UNCHANGED <<owner, file, disk, pc, mem, hx>>
      BY <1>5 DEF UserMutation, AgentDrift, BackgroundUpdate, vars, fileVars, cycleVars
    <2> QED
      BY <2>1 DEF UInv, UpdaterIsRecoverable
  <1> QED
    BY <1>1, <1>2, <1>3, <1>4, <1>5 DEF Environment

(* An interrupted updater can be recognised after the fact, and no         *)
(* generation is counted without a change of the launcher                  *)
(* (run_due_updates, recover_interrupted_intents).                         *)
THEOREM UpdaterStaysSafe == Spec => []UpdaterSafe
  <1>1. Init => UInv
    BY DEF Init, UInv, UpdaterIsRecoverable, InUpdate
  <1>2. IInv /\ UInv /\ [Next]_vars => UInv'
    BY CycleUpdates, OtherUpdates DEF IInv, Next
  <1>3. Spec => []UInv
    BY <1>1, <1>2, IInvAlways, PTL DEF Spec
  <1>4. UInv /\ GenerationsAreChanges => UpdaterSafe
    BY DEF UInv, UpdaterSafe
  <1> QED
    BY <1>3, <1>4, NoGenerationWithoutChange, PTL
-----------------------------------------------------------------------------
(* What leaves a pass unkept is stale or was claimed.  A plan of a harness *)
(* is a plan of a pane that ran it, so that a scan which sees another      *)
(* harness has seen another conversation; and a tombstone is found only    *)
(* where a claim was written.                                              *)

Of(h) == {q \in Plan : HarnessOf[q.conv] = h}
StateOwn(m) == \A h \in Harness : Within(m.hs[h], Of(h))
PassOwn == \A i \in Proc : todo[i] \cup kept[i] \subseteq Of(hx[i])
OwnPlans == StateOwn(disk) /\ (\A i \in Proc : StateOwn(mem[i])) /\ PassOwn

TombstonesClaimed ==
  \A p \in Pane : marker[p] # None /\ marker[p].phase = "Claimed" =>
    \E k \in claimed : /\ k.harness = marker[p].harness /\ k.gen = marker[p].gen
                       /\ k.plan.pane = p

LEMMA DefaultOwn == StateOwn(DefaultState)
  BY NoneAssumption DEF StateOwn, DefaultState, DefaultHarness, Within

LEMMA ReconcileAllOwn ==
  ASSUME NEW m \in MaintenanceState, NEW H, StateOwn(m)
  PROVE  StateOwn(ReconcileAll(m, H))
  <1>1. \A h \in Harness : m.hs[h] \in HarnessState /\ Within(m.hs[h], Of(h))
    BY DEF MaintenanceState, StateOwn
  <1>2. \A h \in Harness : Within(Reconcile(m.hs[h], installed[h]), Of(h))
    BY <1>1, ReconcileWithin
  <1>3. ReconcileAll(m, H).hs = [h \in Harness |->
          IF h \in H THEN Reconcile(m.hs[h], installed[h]) ELSE m.hs[h]]
    BY DEF ReconcileAll, MaintenanceState
  <1> QED
    BY <1>1, <1>2, <1>3 DEF StateOwn

LEMMA SetHarnessOwn ==
  ASSUME NEW m \in MaintenanceState, NEW h \in Harness, NEW s, StateOwn(m), Within(s, Of(h))
  PROVE  StateOwn(SetHarness(m, h, s))
  BY DEF StateOwn, SetHarness, MaintenanceState

LEMMA EndCycleOwn ==
  ASSUME TypeOK, OwnPlans, NEW i \in Proc, EndCycle(i), StateOwn(disk')
  PROVE  OwnPlans'
  <1>1. /\ mem'[i] = DefaultState /\ todo'[i] = {} /\ kept'[i] = {}
        /\ \A j \in Proc \ {i} : /\ mem'[j] = mem[j] /\ hx'[j] = hx[j]
                                 /\ todo'[j] = todo[j] /\ kept'[j] = kept[j]
    BY DEF EndCycle, TypeOK
  <1>2. PassOwn'
    BY <1>1 DEF OwnPlans, PassOwn
  <1>3. \A j \in Proc : StateOwn(mem'[j])
    BY <1>1, DefaultOwn DEF OwnPlans
  <1>4. StateOwn(disk)' <=> StateOwn(disk')
    BY DEF StateOwn
  <1>5. \A j \in Proc : StateOwn(mem[j])' <=> StateOwn(mem'[j])
    BY DEF StateOwn
  <1> QED
    BY <1>2, <1>3, <1>4, <1>5 DEF OwnPlans

LEMMA CycleOwn ==
  ASSUME TypeOK, PassHasGeneration, OwnPlans, NEW i \in Proc, CycleStep(i)
  PROVE  OwnPlans'
  <1>0. /\ mem[i] \in MaintenanceState /\ mem \in [Proc -> MaintenanceState]
        /\ hx[i] \in Harness /\ \A h \in Harness : mem[i].hs[h] \in HarnessState
        /\ todo \in [Proc -> SUBSET Plan] /\ kept \in [Proc -> SUBSET Plan]
        /\ hx \in [Proc -> Harness]
    BY DEF TypeOK, MaintenanceState
  <1>a. /\ StateOwn(disk) /\ (\A j \in Proc : StateOwn(mem[j])) /\ PassOwn
        /\ \A h \in Harness : Within(mem[i].hs[h], Of(h))
    BY DEF OwnPlans, StateOwn
  <1>z. pc[i] \notin InWorker => todo[i] = {} /\ kept[i] = {}
    BY DEF PassHasGeneration
  <1> HIDE DEF Harness, Of
  \* A step that changes the state held by i and what its pass visits.
  <1>b. ASSUME NEW m, mem' = [mem EXCEPT ![i] = m], StateOwn(m), StateOwn(disk'),
               todo'[i] \cup kept'[i] \subseteq Of(hx'[i]),
               \A j \in Proc \ {i} : todo'[j] = todo[j] /\ kept'[j] = kept[j] /\ hx'[j] = hx[j]
        PROVE  OwnPlans'
    <2>1. \A j \in Proc : StateOwn(mem'[j])
      BY <1>0, <1>a, <1>b
    <2>2. PassOwn'
      BY <1>a, <1>b DEF PassOwn
    <2> QED
      BY <1>b, <2>1, <2>2 DEF OwnPlans, StateOwn
  <1>m. mem[i] \in MaintenanceState /\ mem = [mem EXCEPT ![i] = mem[i]]
    BY <1>0
  \* Before its pass a process visits nothing.
  <1>c. ASSUME pc[i] \notin InWorker, UNCHANGED <<todo, kept>>,
               \A j \in Proc \ {i} : hx'[j] = hx[j],
               NEW m, mem' = [mem EXCEPT ![i] = m], StateOwn(m), StateOwn(disk')
        PROVE  OwnPlans'
    BY <1>b, <1>c, <1>z
  <1>1. CASE TryOwner(i)
    BY <1>0, <1>1, <1>a, <1>c, DefaultOwn DEF TryOwner, InWorker
  <1>2. CASE EstablishBaselines(i)
    <2>1. PICK ok \in SUBSET Harness :
            mem' = [mem EXCEPT ![i] = [ReconcileAll(mem[i], ok) EXCEPT !.checked = TRUE]]
      BY <1>2 DEF EstablishBaselines
    <2>2. StateOwn(ReconcileAll(mem[i], ok)) /\ ReconcileAll(mem[i], ok) \in MaintenanceState
      BY <1>0, <1>a, ReconcileAllOwn, ReconcileAllType
    <2>3. StateOwn([ReconcileAll(mem[i], ok) EXCEPT !.checked = TRUE])
      BY <2>2 DEF StateOwn, MaintenanceState
    <2> QED
      BY <1>2, <1>a, <1>c, <2>1, <2>3 DEF EstablishBaselines, fileVars, InWorker
  <1>3. ASSUME NEW due \in BOOLEAN, CheckDue(i, due) PROVE OwnPlans'
    <2>1. \A j \in Proc \ {i} : hx'[j] = hx[j]
      BY <1>0, <1>3 DEF CheckDue
    <2> QED
      BY <1>3, <1>a, <1>c, <1>m, <2>1 DEF CheckDue, fileVars, InWorker
  <1>4. CASE SkipHarness(i)
    <2>1. \A j \in Proc \ {i} : hx'[j] = hx[j]
      BY <1>0, <1>4 DEF SkipHarness, NextHarness
    <2> QED
      BY <1>4, <1>a, <1>c, <1>m, <2>1 DEF SkipHarness, fileVars, InWorker
  <1>5. CASE Intend(i)
    <2> DEFINE h == hx[i]
               m(S) == SetHarness(mem[i], h, PrepareIntent(mem[i].hs[h], installed[h],
                                                           {PlanOf(p) : p \in S}))
    <2>1. PICK S \in SUBSET {p \in Pane : alive[p] /\ HarnessOf[conv[p]] = h} :
            \/ /\ Store(m(S))
               /\ mem' = [mem EXCEPT ![i] = m(S)]
               /\ UNCHANGED <<todo, kept, hx>>
            \/ StoreFails(i, m(S))
      BY <1>5 DEF Intend
    <2>2. StateOwn(m(S))
      <3>1. {PlanOf(p) : p \in S} \subseteq Of(h)
        <4>1. \A p \in S : PlanOf(p) \in Plan /\ PlanOf(p).conv = conv[p]
          BY PlanOfType DEF PlanOf
        <4> QED
          BY <4>1 DEF Of
      <3>2. Within(PrepareIntent(mem[i].hs[h], installed[h], {PlanOf(p) : p \in S}), Of(h))
        BY <1>0, <1>a, <3>1, PrepareIntentWithin
      <3> QED
        BY <1>0, <1>a, <3>2, SetHarnessOwn
    <2> HIDE DEF m
    <2>3. CASE StoreFails(i, m(S))
      BY <1>a, <2>2, <2>3, EndCycleOwn DEF StoreFails, Store, fileVars
    <2>4. pc[i] \notin InWorker
      BY <1>5 DEF Intend, InWorker
    <2> QED
      BY <1>c, <2>1, <2>2, <2>3, <2>4 DEF Store
  <1>6. CASE Update(i)
    <2>1. PICK d \in Digest :
            \/ mem' = [mem EXCEPT ![i] = SetHarness(@, hx[i], Reconcile(@.hs[hx[i]], d))]
            \/ UNCHANGED mem
      BY <1>6 DEF Update
    <2>2. StateOwn(SetHarness(mem[i], hx[i], Reconcile(mem[i].hs[hx[i]], d)))
      BY <1>0, <1>a, ReconcileWithin, SetHarnessOwn
    <2>3. UNCHANGED <<disk, todo, kept, hx>> /\ pc[i] \notin InWorker
      BY <1>6 DEF Update, fileVars, InWorker
    <2>4. \E m : mem' = [mem EXCEPT ![i] = m] /\ StateOwn(m)
      BY <1>a, <1>m, <2>1, <2>2
    <2> QED
      BY <1>a, <1>c, <2>3, <2>4
  <1>7. CASE Commit(i)
    <2>1. CASE StoreFails(i, mem[i])
      BY <1>a, <2>1, EndCycleOwn DEF StoreFails, Store, fileVars
    <2>2. CASE Store(mem[i]) /\ NextHarness(i) /\ UNCHANGED <<mem, todo, kept>>
      <3>1. \A j \in Proc \ {i} : hx'[j] = hx[j]
        BY <1>0, <2>2 DEF NextHarness
      <3> QED
        BY <1>7, <1>a, <1>c, <1>m, <2>2, <3>1 DEF Commit, Store, InWorker
    <2> QED
      BY <1>7, <2>1, <2>2 DEF Commit
  <1>8. CASE Recover(i)
    <2>1. PICK ok : mem' = [mem EXCEPT ![i] = ReconcileAll(mem[i], ok)]
      BY <1>8 DEF Recover
    <2>2. StateOwn(ReconcileAll(mem[i], ok)) /\ mem'[i] = ReconcileAll(mem[i], ok)
      BY <1>0, <1>a, <2>1, ReconcileAllOwn
    <2>3. Visit(mem'[i], 1) \subseteq Of(1) /\ 1 \in Harness
      BY <2>2, NextIsHarness DEF StateOwn, Visit, Within
    <2>4. /\ todo' = [todo EXCEPT ![i] = Visit(mem'[i], 1)] /\ kept' = [kept EXCEPT ![i] = {}]
          /\ hx' = [hx EXCEPT ![i] = 1] /\ UNCHANGED disk
      BY <1>8 DEF Recover, fileVars
    <2>5. /\ todo'[i] \cup kept'[i] \subseteq Of(hx'[i])
          /\ \A j \in Proc \ {i} : todo'[j] = todo[j] /\ kept'[j] = kept[j] /\ hx'[j] = hx[j]
      BY <1>0, <2>3, <2>4
    <2> QED
      BY <1>a, <1>b, <2>1, <2>2, <2>4, <2>5
  <1>9. CASE FinishHarness(i)
    <2> DEFINE h == hx[i]
               m == IF mem[i].hs[h].applied = None THEN mem[i]
                    ELSE [mem[i] EXCEPT !.hs[h].pending = kept[i]]
    <2>1. StateOwn(m)
      <3>1. kept[i] \subseteq Of(h)
        BY <1>a DEF PassOwn
      <3> QED
        BY <1>0, <1>a, <3>1 DEF StateOwn, Within, MaintenanceState, HarnessState
    <2>2. h < NumHarness => Visit(m, h + 1) \subseteq Of(h + 1) /\ h + 1 \in Harness
      BY <1>0, <2>1, NextIsHarness DEF StateOwn, Visit, Within
    <2>3. /\ mem' = [mem EXCEPT ![i] = m] /\ kept' = [kept EXCEPT ![i] = {}]
          /\ UNCHANGED disk /\ todo[i] = {}
          /\ \/ /\ h < NumHarness /\ todo' = [todo EXCEPT ![i] = Visit(m, h + 1)]
                /\ hx' = [hx EXCEPT ![i] = h + 1]
             \/ UNCHANGED todo /\ hx' = [hx EXCEPT ![i] = 1]
      BY <1>9 DEF FinishHarness, fileVars
    <2> HIDE DEF m
    <2>4. /\ todo'[i] \cup kept'[i] \subseteq Of(hx'[i])
          /\ \A j \in Proc \ {i} : todo'[j] = todo[j] /\ kept'[j] = kept[j] /\ hx'[j] = hx[j]
      BY <1>0, <2>2, <2>3
    <2> QED
      BY <1>a, <1>b, <2>1, <2>3, <2>4
  <1>10. CASE Finish(i)
    BY <1>10, <1>a, EndCycleOwn DEF Finish, StoreFails, Store, fileVars
  <1> QED
    BY <1>1, <1>2, <1>3, <1>4, <1>5, <1>6, <1>7, <1>8, <1>9, <1>10 DEF CycleStep

LEMMA OtherOwn ==
  ASSUME TypeOK, OwnPlans, Environment \/ (\E i \in Proc : PaneStep(i)) \/ UNCHANGED vars
  PROVE  OwnPlans'
  <1>1. ASSUME NEW i \in Proc, PaneStep(i) PROVE OwnPlans'
    <2>1. UNCHANGED <<disk, mem, hx>>
      BY <1>1 DEF PaneStep, KeepUnread, MaterializeReady, Defer, Forget, AlreadyClaimed,
         ClaimBeforeRespawn, Advance, Respawn, pickUnchanged, fileVars
    <2>2. \/ UNCHANGED <<todo, kept>>
          \/ \E q \in todo[i] : /\ todo' = [todo EXCEPT ![i] = @ \ {q}]
                                /\ Keep(i, q) \/ UNCHANGED kept
      BY <1>1 DEF PaneStep, KeepUnread, MaterializeReady, Defer, Forget, AlreadyClaimed,
         ClaimBeforeRespawn, Advance, Respawn, Decides
    <2>3. \A j \in Proc : todo'[j] \cup kept'[j] \subseteq todo[j] \cup kept[j]
      <3>1. todo \in [Proc -> SUBSET Plan] /\ kept \in [Proc -> SUBSET Plan]
        BY DEF TypeOK
      <3>2. ASSUME NEW q \in todo[i], todo' = [todo EXCEPT ![i] = @ \ {q}],
                   Keep(i, q) \/ UNCHANGED kept, NEW j \in Proc
            PROVE  todo'[j] \cup kept'[j] \subseteq todo[j] \cup kept[j]
        BY <3>1, <3>2 DEF Keep
      <3> QED
        BY <2>2, <3>2
    <2> QED
      BY <2>1, <2>3 DEF OwnPlans, StateOwn, PassOwn
  <1>2. ASSUME NEW i \in Proc, Crash(i) PROVE OwnPlans'
    BY <1>2, EndCycleOwn DEF Crash, fileVars, OwnPlans
  <1>3. ASSUME \/ Environment /\ \A i \in Proc : ~Crash(i)
               \/ UNCHANGED vars
        PROVE  OwnPlans'
    <2>1. UNCHANGED <<disk, mem, todo, kept, hx>>
      BY <1>3 DEF Environment, Shutdown, UserMutation, AgentDrift, BackgroundUpdate,
         DamageFile, vars, fileVars, cycleVars
    <2> QED
      BY <2>1 DEF OwnPlans, StateOwn, PassOwn
  <1> QED
    BY <1>1, <1>2, <1>3

LEMMA TombstoneStep ==
  ASSUME TypeOK, TombstonesClaimed, [Next]_vars
  PROVE  TombstonesClaimed'
  <1>1. CASE UNCHANGED <<marker, claimed>>
    BY <1>1 DEF TombstonesClaimed
  <1>2. ASSUME NEW p \in Pane, NEW m, marker' = [marker EXCEPT ![p] = m], claimed \subseteq claimed',
               m # None /\ m.phase = "Claimed" =>
                 \E k \in claimed' : k.harness = m.harness /\ k.gen = m.gen /\ k.plan.pane = p
        PROVE  TombstonesClaimed'
    <2>1. marker'[p] = m /\ \A r \in Pane \ {p} : marker'[r] = marker[r]
      BY <1>2 DEF TypeOK
    <2> SUFFICES ASSUME NEW r \in Pane, marker'[r] # None /\ marker'[r].phase = "Claimed"
                 PROVE \E k \in claimed' : /\ k.harness = marker'[r].harness /\ k.gen = marker'[r].gen
                                           /\ k.plan.pane = r
      BY DEF TombstonesClaimed
    <2>2. CASE r = p
      BY <1>2, <2>1, <2>2
    <2>3. CASE r # p
      BY <1>2, <2>1, <2>3 DEF TombstonesClaimed
    <2> QED
      BY <2>2, <2>3
  <1>3. ASSUME NEW i \in Proc, PaneStep(i) PROVE TombstonesClaimed'
    <2>1. \A q \in todo[i] : q.pane \in Pane
      BY DEF TypeOK, Plan
    <2>2. CASE KeepUnread(i) \/ Defer(i) \/ AlreadyClaimed(i) \/ Advance(i)
      BY <1>1, <2>2 DEF KeepUnread, Defer, AlreadyClaimed, Advance, histVars
    <2>3. CASE MaterializeReady(i)
      <3>1. PICK q \in todo[i] : SetMarker(q.pane, Claim(i, q, "Ready")) \/ UNCHANGED marker
        BY <2>3 DEF MaterializeReady
      <3>2. Claim(i, q, "Ready").phase # "Claimed" /\ claimed' = claimed
        BY <2>3 DEF Claim, MaterializeReady
      <3> QED
        BY <1>1, <1>2, <2>1, <3>1, <3>2 DEF SetMarker
    <2>4. CASE Forget(i)
      <3>1. PICK q \in todo[i] : SetMarker(q.pane, None) \/ UNCHANGED marker
        BY <2>4 DEF Forget
      <3>2. claimed' = claimed
        BY <2>4 DEF Forget
      <3> QED
        BY <1>1, <1>2, <2>1, <3>1, <3>2 DEF SetMarker
    <2>5. CASE ClaimBeforeRespawn(i)
      <3>1. PICK q \in todo[i] : WriteClaim(i, q) \/ UNCHANGED <<marker, claimed>>
        BY <2>5 DEF ClaimBeforeRespawn
      <3> DEFINE k == Key(hx[i], Gen(i), q)
                 m == Claim(i, q, "Claimed")
      <3>2. k.harness = m.harness /\ k.gen = m.gen /\ k.plan.pane = q.pane
        BY DEF Key, Claim
      <3> HIDE DEF k, m
      <3>3. WriteClaim(i, q) => marker' = [marker EXCEPT ![q.pane] = m] /\ claimed' = claimed \cup {k}
        BY DEF WriteClaim, SetMarker, k, m
      <3> QED
        BY <1>1, <1>2, <2>1, <3>1, <3>2, <3>3
    <2>6. CASE Respawn(i)
      <3>1. \/ UNCHANGED <<marker, claimed>>
            \/ SetMarker(plan[i].pane, None) /\ UNCHANGED claimed
        BY <2>6 DEF Respawn
      <3>2. CASE SetMarker(plan[i].pane, None) /\ UNCHANGED claimed
        BY <3>2 DEF SetMarker, TombstonesClaimed, TypeOK
      <3> QED
        BY <1>1, <3>1, <3>2
    <2> QED
      BY <1>3, <2>2, <2>3, <2>4, <2>5, <2>6 DEF PaneStep
  <1>4. ASSUME NEW i \in Proc, CycleStep(i) PROVE UNCHANGED <<marker, claimed>>
    BY <1>4 DEF CycleStep, TryOwner, EstablishBaselines, CheckDue, SkipHarness, Intend,
       Update, Commit, Recover, FinishHarness, Finish, paneVars, histVars
  <1>5. CASE Environment \/ UNCHANGED vars
    BY <1>1, <1>5 DEF Environment, Crash, Shutdown, UserMutation, AgentDrift, BackgroundUpdate, DamageFile,
       vars, paneVars, histVars
  <1> QED
    BY <1>1, <1>3, <1>4, <1>5 DEF Next

\* What is decided of a plan that is not kept.
LEMMA ForgottenIsStale ==
  ASSUME TypeOK, PassOwn, TombstonesClaimed, NEW i \in Proc, NEW q \in todo[i],
         NEW o \in Observations(q.pane), NEW a \in {"Forget", "AlreadyClaimed"},
         Decides(i, q, o, a), misses' = misses
  PROVE  Stale(q) \/ ClaimedUnder(hx[i], Gen(i), q)
  <1>1. /\ q \in Plan /\ q.pane \in Pane /\ HarnessOf[q.conv] = hx[i] /\ hx[i] \in Harness
        /\ seq[q.pane] \in Nat /\ conv[q.pane] \in Conv /\ misses \in Nat /\ alive[q.pane] \in BOOLEAN
    BY DEF TypeOK, PassOwn, Of, Plan
  <1>2. /\ o.exists \in BOOLEAN /\ o.harness = HarnessOf[conv[q.pane]]
        /\ o.conv \in {conv[q.pane], None} /\ o.seq \in {seq[q.pane], None}
    BY <1>1 DEF Observations
  <1>3. alive[q.pane] => o.exists
    BY <1>1, <1>2 DEF Decides
  <1>4. CASE Tombstone(marker[q.pane], hx[i], Gen(i), q.conv)
    BY <1>1, <1>4 DEF Tombstone, IsMarker, TombstonesClaimed, ClaimedUnder
  <1>5. CASE Outdated(q, o, hx[i])
    BY <1>1, <1>2, <1>3, <1>5 DEF Outdated, Stale
  <1>6. \/ Tombstone(marker[q.pane], hx[i], Gen(i), q.conv) \/ Outdated(q, o, hx[i])
    BY DEF Decides, PaneAction
  <1> QED
    BY <1>4, <1>5, <1>6

LEMMA PassKeeps ==
  ASSUME TypeOK, PassOwn, TombstonesClaimed, [Next]_vars, NEW i \in Proc,
         pc[i] = "pick", pc'[i] = "pick", misses' = misses,
         NEW q \in todo[i] \ (todo'[i] \cup kept'[i])
  PROVE  Stale(q) \/ ClaimedUnder(hx[i], Gen(i), q)
  <1>1. todo \in [Proc -> SUBSET Plan] /\ kept \in [Proc -> SUBSET Plan] /\ pc \in [Proc -> PC]
    BY DEF TypeOK
  <1>2. ASSUME NEW j \in Proc, PaneStep(j), j # i PROVE FALSE
    BY <1>1, <1>2 DEF PaneStep, KeepUnread, MaterializeReady, Defer, Forget, AlreadyClaimed,
       ClaimBeforeRespawn, Advance, Respawn, Decides, pickUnchanged
  <1>3. ASSUME NEW j \in Proc, CycleStep(j) PROVE FALSE
    <2>1. CASE j # i
      BY <1>1, <1>3, <2>1 DEF CycleStep, TryOwner, EstablishBaselines, CheckDue, SkipHarness, Intend,
         Update, Commit, Recover, FinishHarness, Finish, StoreFails, EndCycle
    <2>2. CASE j = i
      BY <1>1, <1>3, <2>2 DEF CycleStep, TryOwner, EstablishBaselines, CheckDue, SkipHarness, Intend,
         Update, Commit, Recover, FinishHarness, Finish
    <2> QED
      BY <2>1, <2>2
  <1>4. ASSUME Environment PROVE FALSE
    <2>1. ASSUME NEW j \in Proc, Crash(j) PROVE FALSE
      BY <1>1, <2>1 DEF Crash, EndCycle
    <2>2. ASSUME \A j \in Proc : ~Crash(j) PROVE UNCHANGED todo
      BY <1>4, <2>2 DEF Environment, Shutdown, UserMutation, AgentDrift, BackgroundUpdate, DamageFile, cycleVars
    <2> QED
      BY <2>1, <2>2
  <1>5. PaneStep(i)
    BY <1>2, <1>3, <1>4 DEF Next, vars, cycleVars
  <1>6. CASE KeepUnread(i) \/ MaterializeReady(i) \/ Defer(i) \/ ClaimBeforeRespawn(i)
    <2>1. \E r \in todo[i] : todo' = [todo EXCEPT ![i] = @ \ {r}] /\ Keep(i, r)
      <3>1. CASE KeepUnread(i) \/ MaterializeReady(i) \/ Defer(i)
        BY <3>1 DEF KeepUnread, MaterializeReady, Defer, Decides
      <3>2. CASE ClaimBeforeRespawn(i)
        <4>1. pc' # [pc EXCEPT ![i] = "advance"]
          BY <1>1
        <4> QED
          BY <3>2, <4>1 DEF ClaimBeforeRespawn, Decides
      <3> QED
        BY <1>6, <3>1, <3>2
    <2> QED
      BY <1>1, <2>1 DEF Keep
  <1>7. CASE Forget(i) \/ AlreadyClaimed(i)
    <2>1. PICK r \in todo[i] : \E o \in Observations(r.pane), a \in {"Forget", "AlreadyClaimed"} :
            Decides(i, r, o, a)
      BY <1>7 DEF Forget, AlreadyClaimed
    <2>2. q = r
      BY <1>1, <2>1 DEF Decides
    <2> QED
      BY <2>1, <2>2, ForgottenIsStale
  <1>8. CASE Advance(i) \/ Respawn(i)
    BY <1>8 DEF Advance, Respawn
  <1> QED
    BY <1>5, <1>6, <1>7, <1>8 DEF PaneStep

(* What a pass of the worker takes from its plans without keeping it is    *)
(* stale (the pane is gone, has another identity or a newer mutation) or   *)
(* was claimed under this generation's number before, except in a step in  *)
(* which the scan missed a pane (pane_action).  Markers, and plans that a  *)
(* later generation replaces, are not spoken of.                           *)
THEOREM OnlyTheStaleIsForgotten == Spec => OnlyStaleForgotten
  <1>1. Init => OwnPlans /\ TombstonesClaimed
    BY DefaultOwn DEF Init, OwnPlans, PassOwn, TombstonesClaimed
  <1>2. /\ IInv /\ GInv /\ OwnPlans /\ TombstonesClaimed /\ [Next]_vars
        => OwnPlans' /\ TombstonesClaimed'
    BY CycleOwn, OtherOwn, TombstoneStep DEF IInv, GInv, Next
  <1>3. Spec => []GInv
    BY IInvAlways, GInvInit, GInvStep, PTL DEF Spec
  <1>4. Spec => [](OwnPlans /\ TombstonesClaimed)
    BY <1>1, <1>2, <1>3, IInvAlways, PTL DEF Spec
  <1>5. IInv /\ OwnPlans /\ TombstonesClaimed /\ [Next]_vars =>
          [\A i \in Proc : pc[i] = "pick" /\ pc'[i] = "pick" /\ misses' = misses =>
             \A q \in todo[i] \ (todo'[i] \cup kept'[i]) :
               Stale(q) \/ ClaimedUnder(hx[i], Gen(i), q)]_vars
    BY PassKeeps DEF IInv, OwnPlans
  <1> QED
    BY <1>4, <1>5, IInvAlways, PTL DEF Spec, OnlyStaleForgotten
=============================================================================
