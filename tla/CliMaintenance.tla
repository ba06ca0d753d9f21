--------------------------- MODULE CliMaintenance ---------------------------
(***************************************************************************)
(* Owner-local CLI maintenance (auto_update.rs, control.rs).               *)
(*                                                                         *)
(* Every web process of one owner ticks; the one that takes the owner lock *)
(* loads the durable state, may run the vendor updaters, reconciles what   *)
(* they did against the last applied launcher, and relaunches the planned  *)
(* panes one at a time.  The protocol has three durable places - the state *)
(* file, a marker and a mutation sequence on each tmux pane - and no two   *)
(* of them change together.  A process may crash between any two steps, or *)
(* lose the owner lock while its blocking worker still relaunches panes.   *)
(*                                                                         *)
(* Abstractions.  An executable identity is its digest (changed() looks at *)
(* nothing else).  A conversation stands for what identifies a pane's      *)
(* agent: harness, profile, mode and native session log.  Time is a choice *)
(* (a check may or may not be due).  Reads that commute with every other   *)
(* actor's steps are part of the step that uses them.                      *)
(***************************************************************************)
EXTENDS Integers, FiniteSets

CONSTANTS
  Proc,           \* web processes of one owner: the old and the new service
  Pane,           \* tmux pane ids, never reused while the tmux server lives
  NumHarness,     \* Harness::ALL, in order
  Conv,           \* what a pane's agent is: harness, profile, mode, session log
  HarnessOf,      \* the harness of a conversation
  Digest,         \* launcher digests
  RelaunchLimit,  \* config maintenance.relaunch_limit
  None,           \* Option::None
  MaxSeq,         \* bound on each pane's mutation sequence
  MaxChange,      \* bound on the launcher changes of each harness
  MaxCrash,       \* bound on crashes and shutdowns
  MaxFault,       \* bound on failed calls (file, lock, tmux, inspection)
  MaxScanMiss,    \* bound on scans that miss a live pane
  MaxDamage       \* bound on times the state file becomes unreadable

Harness == 1..NumHarness
Phase == {"Ready", "Claimed"}

ASSUME NumHarnessAssumption == NumHarness \in Nat \ {0}
ASSUME HarnessOfAssumption == HarnessOf \in [Conv -> Harness]
ASSUME BoundAssumption ==
  /\ RelaunchLimit \in Nat /\ MaxSeq \in Nat /\ MaxChange \in Nat
  /\ MaxCrash \in Nat /\ MaxFault \in Nat /\ MaxScanMiss \in Nat
  /\ MaxDamage \in Nat

(* PlannedPane.  muts and life are history fields: the pane's user         *)
(* mutations and the life of the state file when it was planned.           *)
Plan == [pane : Pane, conv : Conv, seq : Nat, muts : Nat, life : Nat]
Intent == [baseline : Digest, plans : SUBSET Plan]
HarnessState == [gen : Nat, applied : Digest \cup {None},
                 intent : Intent \cup {None}, pending : SUBSET Plan]
MaintenanceState == [checked : BOOLEAN, hs : [Harness -> HarnessState]]
Marker == [harness : Harness, gen : Nat, conv : Conv, phase : Phase]

(* None is a value no Option payload equals.                               *)
ASSUME NoneAssumption ==
  None \notin Proc \cup Digest \cup Intent \cup Marker \cup Plan \cup Conv \cup Nat

DefaultHarness == [gen |-> 0, applied |-> None, intent |-> None, pending |-> {}]
DefaultState == [checked |-> FALSE, hs |-> [h \in Harness |-> DefaultHarness]]

VARIABLES
  installed,  \* the launcher digest each harness resolves to
  file,       \* the state file: "absent", "ok" or "unreadable"
  disk,       \* its contents when "ok"
  owner,      \* holder of the owner lock
  plock,      \* holder of each pane's process lock
  alive, conv, idle,  \* each pane's agent, as tmux and the agent show it
  seq,        \* @atmux_mutation_sequence of each pane
  marker,     \* the pending-update option of each pane
  pc,         \* where each process's cycle is
  mem,        \* each process's copy of the maintenance state
  hx,         \* the harness the cycle is at
  todo, kept, \* plans of that harness still to visit, and retained so far
  tries,      \* relaunch attempts of this pass
  plan,       \* the plan being claimed
  changes, crashes, faults, misses, damages,  \* bounded environment steps
  userMuts,   \* history: user mutations of each pane
  claimed,    \* history: plans whose claim was written
  respawned   \* history: plans whose pane was relaunched

paneVars == <<alive, conv, idle, seq, marker>>
cycleVars == <<mem, hx, todo, kept, tries, plan>>
histVars == <<userMuts, claimed, respawned>>
budgetVars == <<changes, crashes, faults, misses, damages>>
fileVars == <<file, disk>>
vars == <<installed, fileVars, owner, plock, paneVars, pc, cycleVars,
          budgetVars, histVars>>

InUpdate == {"begin", "intend", "update", "commit", "recover"}
InWorker == {"pick", "advance", "respawn"}
PC == {"idle", "finish"} \cup InUpdate \cup InWorker

(* A plan under one update generation: what may be relaunched once.        *)
Key(h, g, q) == [harness |-> h, gen |-> g, plan |-> q]
Keys == [harness : Harness, gen : Nat, plan : Plan]

TypeOK ==
  /\ installed \in [Harness -> Digest]
  /\ file \in {"absent", "ok", "unreadable"}
  /\ disk \in MaintenanceState
  /\ owner \in Proc \cup {None}
  /\ plock \in [Pane -> Proc \cup {None}]
  /\ alive \in [Pane -> BOOLEAN]
  /\ conv \in [Pane -> Conv]
  /\ idle \in [Pane -> BOOLEAN]
  /\ seq \in [Pane -> Nat]
  /\ marker \in [Pane -> Marker \cup {None}]
  /\ pc \in [Proc -> PC]
  /\ mem \in [Proc -> MaintenanceState]
  /\ hx \in [Proc -> Harness]
  /\ todo \in [Proc -> SUBSET Plan]
  /\ kept \in [Proc -> SUBSET Plan]
  /\ tries \in [Proc -> Nat]
  /\ plan \in [Proc -> Plan \cup {None}]
  /\ changes \in [Harness -> Nat]
  /\ crashes \in Nat /\ faults \in Nat /\ misses \in Nat /\ damages \in Nat
  /\ userMuts \in [Pane -> Nat]
  /\ claimed \in SUBSET Keys
  /\ respawned \in SUBSET Keys

Init ==
  /\ installed \in [Harness -> Digest]
  /\ file = "absent" /\ disk = DefaultState
  /\ owner = None /\ plock = [p \in Pane |-> None]
  /\ alive \in [Pane -> BOOLEAN] /\ conv \in [Pane -> Conv]
  /\ idle = [p \in Pane |-> TRUE] /\ seq = [p \in Pane |-> 0]
  /\ marker = [p \in Pane |-> None]
  /\ pc = [i \in Proc |-> "idle"]
  /\ mem = [i \in Proc |-> DefaultState]
  /\ hx = [i \in Proc |-> 1]
  /\ todo = [i \in Proc |-> {}] /\ kept = [i \in Proc |-> {}]
  /\ tries = [i \in Proc |-> 0] /\ plan = [i \in Proc |-> None]
  /\ changes = [h \in Harness |-> 0]
  /\ crashes = 0 /\ faults = 0 /\ misses = 0 /\ damages = 0
  /\ userMuts = [p \in Pane |-> 0]
  /\ claimed = {} /\ respawned = {}

-----------------------------------------------------------------------------
(* The durable state and its holder.                                       *)

\* A call to a file, a lock, tmux or a launcher inspection may fail.
Fault == faults < MaxFault /\ faults' = faults + 1

\* Mutants of Reconcile: no digest comparison; the intent is not taken.
ReconcileUncompared(s, final) ==
  IF s.intent = None THEN [s EXCEPT !.applied = final]
  ELSE [s EXCEPT !.applied = final, !.intent = None, !.gen = @ + 1,
                 !.pending = s.intent.plans]

ReconcileUntaken(s, final) ==
  IF s.intent = None \/ s.intent.baseline = final THEN [s EXCEPT !.applied = final]
  ELSE [s EXCEPT !.applied = final, !.gen = @ + 1, !.pending = s.intent.plans]

\* HarnessState::reconcile.
Reconcile(s, final) ==
  IF s.intent = None THEN [s EXCEPT !.applied = final]
  ELSE IF s.intent.baseline = final
       THEN [s EXCEPT !.applied = final, !.intent = None]
       ELSE [s EXCEPT !.applied = final, !.intent = None,
                      !.gen = @ + 1, !.pending = s.intent.plans]

\* Mutant: the observed launcher does not become a missing baseline.
PrepareIntentUnbased(s, before, plans) ==
  [s EXCEPT !.intent = [baseline |-> s.applied, plans |-> plans]]

\* HarnessState::prepare_intent.
PrepareIntent(s, before, plans) ==
  LET baseline == IF s.applied = None THEN before ELSE s.applied
  IN [s EXCEPT !.applied = baseline,
               !.intent = [baseline |-> baseline, plans |-> plans]]

SetHarness(m, h, s) == [m EXCEPT !.hs[h] = s]

\* reconcile() of every harness in H with the launcher it resolves to now.
ReconcileAll(m, H) ==
  [m EXCEPT !.hs = [h \in Harness |->
      IF h \in H THEN Reconcile(m.hs[h], installed[h]) ELSE m.hs[h]]]

\* OwnerLock::store: temporary file, sync, rename, directory sync.
Store(m) == file' = "ok" /\ disk' = m

\* The lock is dropped with the cycle; a detached worker no longer has it.
ReleaseOwner(i) == owner' = IF owner = i THEN None ELSE owner

\* The cycle of i is over: its lock, its copy of the state and its work go.
EndCycle(i) ==
  /\ pc' = [pc EXCEPT ![i] = "idle"]
  /\ ReleaseOwner(i)
  /\ mem' = [mem EXCEPT ![i] = DefaultState]
  /\ hx' = [hx EXCEPT ![i] = 1]
  /\ todo' = [todo EXCEPT ![i] = {}]
  /\ kept' = [kept EXCEPT ![i] = {}]
  /\ tries' = [tries EXCEPT ![i] = 0]
  /\ plan' = [plan EXCEPT ![i] = None]

\* run_maintenance_cycle returning early with `?` because a store failed; the
\* file may have been renamed all the same (the directory sync failed).
StoreFails(i, m) ==
  /\ Fault
  /\ Store(m) \/ UNCHANGED fileVars
  /\ EndCycle(i)

\* Mutant: the owner lock is not exclusive.
TryOwnerUnlocked(i) ==
  /\ pc[i] = "idle"
  /\ owner' = i
  /\ mem' = [mem EXCEPT ![i] = IF file = "ok" THEN disk ELSE DefaultState]
  /\ pc' = [pc EXCEPT ![i] = "begin"]
  /\ UNCHANGED <<installed, fileVars, plock, paneVars, hx, todo, kept, tries, plan,
                 budgetVars, histVars>>

(* maintenance_once: try the owner lock, load the state.  A file this      *)
(* build cannot read is moved aside and the default state used.            *)
TryOwner(i) ==
  /\ pc[i] = "idle" /\ owner = None
  /\ owner' = i
  /\ mem' = [mem EXCEPT ![i] = IF file = "ok" THEN disk ELSE DefaultState]
  /\ file' = IF file = "unreadable" THEN "absent" ELSE file
  /\ pc' = [pc EXCEPT ![i] = "begin"]
  /\ UNCHANGED <<installed, disk, plock, paneVars, hx, todo, kept, tries, plan,
                 budgetVars, histVars>>

(* establish_baselines: the first pass only inspects; ok is the set of     *)
(* harnesses whose inspection succeeded.                                   *)
EstablishBaselines(i) ==
  /\ pc[i] = "begin" /\ ~mem[i].checked
  /\ \E ok \in SUBSET Harness :
       /\ IF ok = Harness THEN UNCHANGED faults ELSE Fault
       /\ mem' = [mem EXCEPT ![i] =
                    [ReconcileAll(mem[i], ok) EXCEPT !.checked = TRUE]]
  /\ pc' = [pc EXCEPT ![i] = "recover"]
  /\ UNCHANGED <<installed, fileVars, owner, plock, paneVars, hx, todo, kept, tries,
                 plan, changes, crashes, misses, damages, histVars>>

\* Mutant: a check that is due is never run.
CheckDueNever(i, due) ==
  /\ pc[i] = "begin" /\ mem[i].checked
  /\ pc' = [pc EXCEPT ![i] = "recover"]
  /\ hx' = [hx EXCEPT ![i] = 1]
  /\ UNCHANGED <<installed, fileVars, owner, plock, paneVars, mem, todo, kept, tries,
                 plan, budgetVars, histVars>>

\* check_due: the interval since last_check_ms has passed, or it has not.
CheckDue(i, due) ==
  /\ pc[i] = "begin" /\ mem[i].checked
  /\ pc' = [pc EXCEPT ![i] = IF due THEN "intend" ELSE "recover"]
  /\ hx' = [hx EXCEPT ![i] = 1]
  /\ UNCHANGED <<installed, fileVars, owner, plock, paneVars, mem, todo, kept, tries,
                 plan, budgetVars, histVars>>

\* The next harness of run_due_updates, or its end.
NextHarness(i) ==
  IF hx[i] < NumHarness
  THEN hx' = [hx EXCEPT ![i] = @ + 1] /\ pc' = [pc EXCEPT ![i] = "intend"]
  ELSE UNCHANGED hx /\ pc' = [pc EXCEPT ![i] = "recover"]

\* run_due_updates: no launcher, or inspect or collect failed: `continue`.
SkipHarness(i) ==
  /\ pc[i] = "intend" /\ Fault
  /\ NextHarness(i)
  /\ UNCHANGED <<installed, fileVars, owner, plock, paneVars, mem, todo, kept, tries,
                 plan, changes, crashes, misses, damages, histVars>>

\* What collect_cli_update_candidates may plan for pane p.
PlanOf(p) == [pane |-> p, conv |-> conv[p], seq |-> seq[p],
              muts |-> userMuts[p], life |-> damages]

(* run_due_updates up to its first persist: inspect, collect, intent.  A   *)
(* pane whose mode, session or binding is not exact now is not planned.    *)
Intend(i) ==
  LET h == hx[i] IN
  /\ pc[i] = "intend"
  /\ \E S \in SUBSET {p \in Pane : alive[p] /\ HarnessOf[conv[p]] = h} :
       LET m == SetHarness(mem[i], h, PrepareIntent(mem[i].hs[h], installed[h],
                                                   {PlanOf(p) : p \in S}))
       IN /\ \A p \in S : plock[p] = None
          /\ \/ /\ Store(m)
                /\ mem' = [mem EXCEPT ![i] = m]
                /\ pc' = [pc EXCEPT ![i] = "update"]
                /\ UNCHANGED <<owner, hx, todo, kept, tries, plan, faults>>
             \/ StoreFails(i, m)
  /\ UNCHANGED <<installed, plock, paneVars, changes, crashes, misses, damages,
                 histVars>>

\* The launcher of h changes to d, or does not change.
Install(h, d) ==
  /\ installed' = [installed EXCEPT ![h] = d]
  /\ IF d = installed[h] THEN UNCHANGED changes
     ELSE changes[h] < MaxChange /\ changes' = [changes EXCEPT ![h] = @ + 1]

(* update() and reconcile_update_result: the vendor updater may change the *)
(* launcher whether it succeeds or not.  When it fails and the launcher    *)
(* cannot be inspected either, the intent stays open.                      *)
Update(i) ==
  LET h == hx[i] IN
  /\ pc[i] = "update"
  /\ \E d \in Digest :
       /\ Install(h, d)
       /\ \/ /\ mem' = [mem EXCEPT ![i] = SetHarness(@, h, Reconcile(@.hs[h], d))]
             /\ UNCHANGED faults
          \/ Fault /\ UNCHANGED mem
  /\ pc' = [pc EXCEPT ![i] = "commit"]
  /\ UNCHANGED <<fileVars, owner, plock, paneVars, hx, todo, kept, tries, plan,
                 crashes, misses, damages, histVars>>

\* run_due_updates: the persist after reconciliation, then the next harness.
Commit(i) ==
  /\ pc[i] = "commit"
  /\ \/ /\ Store(mem[i]) /\ NextHarness(i)
        /\ UNCHANGED <<owner, mem, todo, kept, tries, plan, faults>>
     \/ StoreFails(i, mem[i])
  /\ UNCHANGED <<installed, plock, paneVars, changes, crashes, misses, damages,
                 histVars>>

\* The plans of harness h a pass will visit; none when it has no launcher.
Visit(m, h) == IF m.hs[h].applied = None THEN {} ELSE m.hs[h].pending

(* recover_interrupted_intents; process_pending starts at once, nothing is *)
(* stored in between.                                                      *)
Recover(i) ==
  LET open == {h \in Harness : mem[i].hs[h].intent # None} IN
  /\ pc[i] = "recover"
  /\ \E ok \in SUBSET open :
       /\ IF ok = open THEN UNCHANGED faults ELSE Fault
       /\ mem' = [mem EXCEPT ![i] = ReconcileAll(mem[i], ok)]
  /\ pc' = [pc EXCEPT ![i] = "pick"]
  /\ hx' = [hx EXCEPT ![i] = 1]
  /\ todo' = [todo EXCEPT ![i] = Visit(mem'[i], 1)]
  /\ kept' = [kept EXCEPT ![i] = {}]
  /\ tries' = [tries EXCEPT ![i] = 0]
  /\ UNCHANGED <<installed, fileVars, owner, plock, paneVars, plan, changes, crashes,
                 misses, damages, histVars>>

-----------------------------------------------------------------------------
(* process_cli_update_candidates_blocking: one plan after another, each    *)
(* under its pane's process lock and in-memory gate.                       *)

(* A fresh look at pane p.  A scan may miss a live pane (another pane of   *)
(* its tmux session ranks higher, or the listing fails); the scan names    *)
(* the harness, while the native session, the sequence and the idle proof  *)
(* may be unavailable for now.                                             *)
Observations(p) ==
  [exists : {alive[p]} \cup IF misses < MaxScanMiss THEN {FALSE} ELSE {},
   harness : {HarnessOf[conv[p]]},
   conv : IF alive[p] THEN {conv[p], None} ELSE {None},
   seq : {seq[p], None},
   exactIdle : {alive[p] /\ idle[p], FALSE}]

IsMarker(m, h, g, c) == m # None /\ m.harness = h /\ m.gen = g /\ m.conv = c

\* Mutants of the two: claims are retried; the sequence is not compared.
TombstoneIgnored(m, h, g, c) == FALSE
OutdatedUnsequenced(q, o, h) ==
  ~o.exists \/ o.harness # h \/ (o.conv # None /\ o.conv # q.conv)

\* pane_action, arm by arm: this exact update was claimed before ...
Tombstone(m, h, g, c) == IsMarker(m, h, g, c) /\ m.phase = "Claimed"

\* ... the plan is not about this pane as it is now ...
Outdated(q, o, h) ==
  \/ ~o.exists \/ o.harness # h
  \/ o.seq # None /\ o.seq # q.seq
  \/ o.conv # None /\ o.conv # q.conv

PaneAction(q, m, o, h, g) ==
  IF Tombstone(m, h, g, q.conv) THEN "AlreadyClaimed"
  ELSE IF Outdated(q, o, h) THEN "Forget"
  ELSE IF ~IsMarker(m, h, g, q.conv) THEN "MaterializeReady"
  ELSE IF o.exactIdle /\ o.conv # None /\ o.seq # None THEN "ClaimBeforeRespawn"
  ELSE "Defer"

Gen(i) == mem[i].hs[hx[i]].gen

\* Process i locks the pane of a plan it still has to visit, looks, decides a.
Decides(i, q, o, a) ==
  /\ pc[i] = "pick" /\ q \in todo[i] /\ plock[q.pane] = None
  /\ o \in Observations(q.pane)
  /\ PaneAction(q, marker[q.pane], o, hx[i], Gen(i)) = a
  /\ misses' = IF alive[q.pane] /\ ~o.exists THEN misses + 1 ELSE misses
  /\ todo' = [todo EXCEPT ![i] = @ \ {q}]

\* Mutant: retained plans are lost.
KeepNothing(i, q) == UNCHANGED kept

Keep(i, q) == kept' = [kept EXCEPT ![i] = @ \cup {q}]
SetMarker(p, m) == marker' = [marker EXCEPT ![p] = m]
Claim(i, q, ph) == [harness |-> hx[i], gen |-> Gen(i), conv |-> q.conv, phase |-> ph]
pickUnchanged == <<installed, fileVars, owner, alive, conv, idle, seq, mem, hx,
                   changes, crashes, damages, userMuts, respawned>>

\* The lock or the marker could not be read: the plan stays.
KeepUnread(i) ==
  /\ pc[i] = "pick" /\ Fault
  /\ \E q \in todo[i] : Keep(i, q) /\ todo' = [todo EXCEPT ![i] = @ \ {q}]
  /\ UNCHANGED <<pickUnchanged, plock, marker, pc, tries, plan, misses, claimed>>

\* The plan's Ready marker is written (or not); the plan stays either way.
MaterializeReady(i) ==
  /\ \E q \in todo[i] : \E o \in Observations(q.pane) :
       /\ Decides(i, q, o, "MaterializeReady")
       /\ Keep(i, q)
       /\ \/ SetMarker(q.pane, Claim(i, q, "Ready")) /\ UNCHANGED faults
          \/ Fault /\ UNCHANGED marker
  /\ UNCHANGED <<pickUnchanged, plock, pc, tries, plan, claimed>>

Defer(i) ==
  /\ \E q \in todo[i] : \E o \in Observations(q.pane) :
       Decides(i, q, o, "Defer") /\ Keep(i, q)
  /\ UNCHANGED <<pickUnchanged, plock, marker, pc, tries, plan, faults, claimed>>

\* The plan is dropped and a Ready marker, of whatever update, is cleared.
Forget(i) ==
  /\ \E q \in todo[i] : \E o \in Observations(q.pane) :
       /\ Decides(i, q, o, "Forget")
       /\ LET m == marker[q.pane] IN
          IF m # None /\ m.phase = "Ready"
          THEN \/ SetMarker(q.pane, None) /\ UNCHANGED faults
               \/ Fault /\ UNCHANGED marker
          ELSE UNCHANGED <<marker, faults>>
  /\ UNCHANGED <<pickUnchanged, plock, kept, pc, tries, plan, claimed>>

AlreadyClaimed(i) ==
  /\ \E q \in todo[i] : \E o \in Observations(q.pane) :
       Decides(i, q, o, "AlreadyClaimed")
  /\ UNCHANGED <<pickUnchanged, plock, marker, kept, pc, tries, plan, faults, claimed>>

WriteClaim(i, q) ==
  /\ SetMarker(q.pane, Claim(i, q, "Claimed"))
  /\ claimed' = claimed \cup {Key(hx[i], Gen(i), q)}

\* Mutant: the last allowed attempt of a pass is refused.
OverLimitEarly(i) == tries[i] + 1 >= RelaunchLimit

OverLimit(i) == tries[i] >= RelaunchLimit

(* ClaimBeforeRespawn up to its marker write.  Over the limit, or without  *)
(* a resource scope, the plan stays; so it does when the write fails,      *)
(* although the marker may have been written.                              *)
ClaimBeforeRespawn(i) ==
  /\ \E q \in todo[i] : \E o \in Observations(q.pane) :
       /\ Decides(i, q, o, "ClaimBeforeRespawn")
       /\ \/ /\ IF OverLimit(i) THEN UNCHANGED faults ELSE Fault
             /\ Keep(i, q)
             /\ UNCHANGED <<plock, marker, pc, tries, plan, claimed>>
          \/ /\ ~OverLimit(i) /\ Fault
             /\ tries' = [tries EXCEPT ![i] = @ + 1]
             /\ \/ WriteClaim(i, q)
                \/ UNCHANGED <<marker, claimed>>
             /\ Keep(i, q)
             /\ UNCHANGED <<plock, pc, plan>>
          \/ /\ ~OverLimit(i)
             /\ tries' = [tries EXCEPT ![i] = @ + 1]
             /\ WriteClaim(i, q)
             /\ plan' = [plan EXCEPT ![i] = q]
             /\ plock' = [plock EXCEPT ![q.pane] = i]
             /\ pc' = [pc EXCEPT ![i] = "advance"]
             /\ UNCHANGED <<kept, faults>>
  /\ UNCHANGED pickUnchanged

\* The claim's pane lock and in-memory gate are released.
Leave(i) ==
  /\ plock' = [plock EXCEPT ![plan[i].pane] = None]
  /\ plan' = [plan EXCEPT ![i] = None]
  /\ pc' = [pc EXCEPT ![i] = "pick"]

AdvanceSequence(p) == seq[p] < MaxSeq /\ seq' = [seq EXCEPT ![p] = @ + 1]

\* Mutant: the relaunch does not advance the sequence.
AdvanceNot(i) ==
  /\ pc[i] = "advance"
  /\ pc' = [pc EXCEPT ![i] = "respawn"]
  /\ UNCHANGED <<installed, fileVars, owner, plock, paneVars, cycleVars, budgetVars,
                 histVars>>

(* advance_pane_mutation_sequence after the claim.  When it fails, written *)
(* or not, the plan is dropped and the Claimed marker stays.               *)
Advance(i) ==
  /\ pc[i] = "advance"
  /\ LET p == plan[i].pane IN
     \/ /\ alive[p] /\ AdvanceSequence(p)
        /\ pc' = [pc EXCEPT ![i] = "respawn"]
        /\ UNCHANGED <<plock, plan, faults>>
     \/ /\ IF alive[p] /\ seq[p] < MaxSeq THEN Fault ELSE UNCHANGED faults
        /\ AdvanceSequence(p) \/ UNCHANGED seq
        /\ Leave(i)
  /\ UNCHANGED <<installed, fileVars, owner, alive, conv, idle, marker, mem, hx, todo,
                 kept, tries, changes, crashes, misses, damages, histVars>>

\* resume_after_cli_update: the pane's process becomes the planned session.
RelaunchPane(i) ==
  LET p == plan[i].pane IN
  /\ alive[p]
  /\ conv' = [conv EXCEPT ![p] = plan[i].conv]
  /\ idle' = [idle EXCEPT ![p] = FALSE]
  /\ respawned' = respawned \cup {Key(hx[i], Gen(i), plan[i])}

(* The destructive step.  Its error is ambiguous: the pane may have been   *)
(* relaunched, and the Claimed marker stays.  On success it is cleared.    *)
Respawn(i) ==
  /\ pc[i] = "respawn"
  /\ LET p == plan[i].pane IN
     \/ RelaunchPane(i) /\ SetMarker(p, None) /\ UNCHANGED faults
     \/ RelaunchPane(i) /\ Fault /\ UNCHANGED marker
     \/ /\ IF alive[p] THEN Fault ELSE UNCHANGED faults
        /\ UNCHANGED <<conv, idle, marker, respawned>>
  /\ Leave(i)
  /\ UNCHANGED <<installed, fileVars, owner, alive, seq, mem, hx, todo, kept, tries,
                 changes, crashes, misses, damages, userMuts, claimed>>

(* The plans of one harness are all visited: what was retained stays       *)
(* pending.  A harness without a launcher keeps its plans unvisited.       *)
FinishHarness(i) ==
  LET h == hx[i]
      m == IF mem[i].hs[h].applied = None THEN mem[i]
           ELSE [mem[i] EXCEPT !.hs[h].pending = kept[i]]
  IN
  /\ pc[i] = "pick" /\ todo[i] = {}
  /\ mem' = [mem EXCEPT ![i] = m]
  /\ kept' = [kept EXCEPT ![i] = {}]
  /\ IF h < NumHarness
     THEN /\ hx' = [hx EXCEPT ![i] = h + 1]
          /\ todo' = [todo EXCEPT ![i] = Visit(m, h + 1)]
          /\ UNCHANGED pc
     ELSE /\ hx' = [hx EXCEPT ![i] = 1] /\ UNCHANGED todo
          /\ pc' = [pc EXCEPT ![i] = "finish"]
  /\ UNCHANGED <<installed, fileVars, owner, plock, paneVars, tries, plan, budgetVars,
                 histVars>>

(* run_maintenance_cycle: the final persist.  A worker that outlived its   *)
(* cycle has nobody to return its state to.                                *)
Finish(i) ==
  /\ pc[i] = "finish"
  /\ \/ owner = i /\ Store(mem[i]) /\ EndCycle(i) /\ UNCHANGED faults
     \/ owner = i /\ StoreFails(i, mem[i])
     \/ owner # i /\ EndCycle(i) /\ UNCHANGED <<fileVars, faults>>
  /\ UNCHANGED <<installed, plock, paneVars, changes, crashes, misses, damages,
                 histVars>>

-----------------------------------------------------------------------------
(* What else happens: processes end, users and agents act, launchers and   *)
(* the state file change outside a cycle.                                  *)

\* The process dies; the operating system releases its locks.
Crash(i) ==
  /\ pc[i] # "idle" /\ crashes < MaxCrash /\ crashes' = crashes + 1
  /\ EndCycle(i)
  /\ plock' = [p \in Pane |-> IF plock[p] = i THEN None ELSE plock[p]]
  /\ UNCHANGED <<installed, fileVars, paneVars, changes, faults, misses, damages,
                 histVars>>

(* Graceful shutdown drops the maintenance task, and with it the owner     *)
(* lock, while the blocking relaunch worker runs on to its end.            *)
Shutdown(i) ==
  /\ owner = i /\ pc[i] \in InWorker
  /\ crashes < MaxCrash /\ crashes' = crashes + 1
  /\ owner' = None
  /\ UNCHANGED <<installed, fileVars, plock, paneVars, pc, cycleVars, changes, faults,
                 misses, damages, histVars>>

(* Any other pane mutation of any process: process lock, gate, sequence,   *)
(* then delivery - a message or key, a relaunch as another conversation or *)
(* model, a kill, or nothing (delivery failed or the process died).        *)
UserMutation(p) ==
  /\ plock[p] = None /\ alive[p] /\ AdvanceSequence(p)
  /\ userMuts' = [userMuts EXCEPT ![p] = @ + 1]
  /\ \/ UNCHANGED <<conv, alive, idle>>
     \/ idle' = [idle EXCEPT ![p] = FALSE] /\ UNCHANGED <<conv, alive>>
     \/ \E c \in Conv : conv' = [conv EXCEPT ![p] = c] /\ UNCHANGED <<alive, idle>>
     \/ alive' = [alive EXCEPT ![p] = FALSE] /\ UNCHANGED <<conv, idle>>
  /\ UNCHANGED <<installed, fileVars, owner, plock, marker, pc, cycleVars, budgetVars,
                 claimed, respawned>>

(* The agent itself, or a user attached to tmux: no lock, no sequence.     *)
AgentDrift(p) ==
  /\ alive[p]
  /\ \/ idle' = [idle EXCEPT ![p] = ~@] /\ UNCHANGED <<alive, conv>>
     \/ \E c \in Conv \ {conv[p]} :
          conv' = [conv EXCEPT ![p] = c] /\ UNCHANGED <<alive, idle>>
     \/ alive' = [alive EXCEPT ![p] = FALSE] /\ UNCHANGED <<conv, idle>>
  /\ UNCHANGED <<installed, fileVars, owner, plock, seq, marker, pc, cycleVars,
                 budgetVars, histVars>>

\* A provider background update, or an updater that outlived its timeout.
BackgroundUpdate(h) ==
  /\ \E d \in Digest \ {installed[h]} : Install(h, d)
  /\ UNCHANGED <<fileVars, owner, plock, paneVars, pc, cycleVars, crashes, faults,
                 misses, damages, histVars>>

\* The state file becomes one this build cannot read.
DamageFile ==
  /\ file = "ok" /\ damages < MaxDamage /\ damages' = damages + 1
  /\ file' = "unreadable"
  /\ UNCHANGED <<installed, disk, owner, plock, paneVars, pc, cycleVars, changes,
                 crashes, faults, misses, histVars>>

CycleStep(i) ==
  \/ TryOwner(i) \/ EstablishBaselines(i) \/ \E due \in BOOLEAN : CheckDue(i, due)
  \/ SkipHarness(i) \/ Intend(i) \/ Update(i) \/ Commit(i) \/ Recover(i)
  \/ FinishHarness(i) \/ Finish(i)

PaneStep(i) ==
  \/ KeepUnread(i) \/ MaterializeReady(i) \/ Defer(i) \/ Forget(i)
  \/ AlreadyClaimed(i) \/ ClaimBeforeRespawn(i) \/ Advance(i) \/ Respawn(i)

Environment ==
  \/ \E i \in Proc : Crash(i) \/ Shutdown(i)
  \/ \E p \in Pane : UserMutation(p) \/ AgentDrift(p)
  \/ \E h \in Harness : BackgroundUpdate(h)
  \/ DamageFile

Next == Environment \/ \E i \in Proc : CycleStep(i) \/ PaneStep(i)

Spec == Init /\ [][Next]_vars

-----------------------------------------------------------------------------
(* Safety.                                                                 *)

(* A process that has claimed a plan, or is about to relaunch its pane,    *)
(* holds a plan that no process has relaunched under this generation:      *)
(* crashes, retries and a worker that outlived its lock included           *)
(* (process_cli_update_candidates_blocking, "at-most-once tombstone").     *)
NeverRelaunchedTwice ==
  \A i \in Proc : pc[i] \in {"advance", "respawn"} =>
    Key(hx[i], Gen(i), plan[i]) \notin respawned

(* A claim is never made again, whatever became of it: a claim that was    *)
(* followed by a crash before the sequence advanced is a tombstone.        *)
ClaimedNeverRetried ==
  [][\A i \in Proc : pc[i] = "pick" /\ pc'[i] = "advance" =>
       Key(hx[i], Gen(i), plan'[i]) \notin claimed]_vars

(* Whoever mutates a pane through atmux after it was planned wins: the     *)
(* relaunch of an older plan never runs (README: a newer atmux user        *)
(* mutation invalidates it via the durable sequence).                      *)
NewerMutationWins ==
  \A i \in Proc : pc[i] \in {"advance", "respawn"} =>
    userMuts[plan[i].pane] = plan[i].muts

(* No pane is relaunched unless its launcher's digest changed: there are   *)
(* no more generations than digest changes, in the file, in any process's  *)
(* copy of it and in what was relaunched.                                  *)
GenerationsAreChanges ==
  /\ \A h \in Harness : disk.hs[h].gen <= changes[h]
  /\ \A h \in Harness, i \in Proc : mem[i].hs[h].gen <= changes[h]
  /\ \A k \in respawned : k.gen \in 1..changes[k.harness]

(* A vendor updater only runs under the owner lock, with its intent and    *)
(* the last applied baseline in the state file (unless that was damaged    *)
(* behind it), so an interruption can always be reconciled.                *)
UpdaterIsRecoverable ==
  \A i \in Proc : pc[i] = "update" =>
    /\ owner = i
    /\ file # "absent"
    /\ file = "ok" => disk = mem[i] /\ disk.hs[hx[i]].intent # None

(* An interrupted updater can be recognised after the fact, and a          *)
(* generation stands for a change of the launcher: both of the above.      *)
UpdaterSafe == UpdaterIsRecoverable /\ GenerationsAreChanges

-----------------------------------------------------------------------------
(* Liveness.  The ticker of every process keeps running and a process      *)
(* finishes the steps it can take (spawn_maintenance, spawn_blocking); the *)
(* clock makes a check due again and again; a pane that stays idle, or no  *)
(* longer is what was planned, is not misread for ever.  Crashes and       *)
(* failed calls are finitely many.                                         *)
Fairness ==
  \A i \in Proc :
    /\ WF_vars(CycleStep(i)) /\ WF_vars(PaneStep(i))
    /\ SF_vars(CheckDue(i, TRUE))
    /\ SF_vars(ClaimBeforeRespawn(i)) /\ SF_vars(Forget(i))

FairSpec == Spec /\ Fairness

(* An intent that was open when a process died is reconciled by a later    *)
(* cycle (recover_interrupted_intents).                                    *)
IntentsSettle == []<>(\A h \in Harness : disk.hs[h].intent = None)

(* Whatever changed the launcher - updater, background update, an updater  *)
(* whose process died - the state file comes to know it.                   *)
LauncherReconciled ==
  \A h \in Harness : <>[](disk.hs[h].applied = installed[h])

(* No update is left half known: both of the above                         *)
(* (recover_interrupted_intents, reconcile_harness).                       *)
UpdatesSettle == IntentsSettle /\ LauncherReconciled

PendingOn(p) == \E h \in Harness : \E q \in disk.hs[h].pending : q.pane = p

(* A pane that is gone, or whose agent stays and ends up idle, is not      *)
(* planned for ever: it is relaunched or its plan is given up.             *)
PlansSettle ==
  \A p \in Pane, c \in Conv :
    <>[](~alive[p] \/ (idle[p] /\ conv[p] = c)) => []<>~PendingOn(p)

-----------------------------------------------------------------------------
(* What becomes of plans.                                                  *)

\* The plan no longer describes its pane.
Stale(q) == ~alive[q.pane] \/ conv[q.pane] # q.conv \/ seq[q.pane] # q.seq

\* A generation that was never stored, or lost with the file, is reached a
\* second time: the marker of a claim under it stands for the later plan too.
ClaimedUnder(h, gen, q) ==
  \E k \in claimed : k.harness = h /\ k.gen = gen /\ k.plan.pane = q.pane

(* pane_action's comment: "only disappearance, definite identity change,   *)
(* or mutation-sequence advance forgets a plan".  A plan leaves a pass     *)
(* only kept, claimed, or stale; a scan that misses the pane is excepted.  *)
OnlyStaleForgotten ==
  [][\A i \in Proc : pc[i] = "pick" /\ pc'[i] = "pick" /\ misses' = misses =>
       \A q \in todo[i] \ (todo'[i] \cup kept'[i]) :
         Stale(q) \/ ClaimedUnder(hx[i], Gen(i), q)]_vars
=============================================================================
