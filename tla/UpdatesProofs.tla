---------------------------- MODULE UpdatesProofs ----------------------------
(***************************************************************************)
(* What the updates run of MCUpdates checks, proved: a node's executable,  *)
(* the record of what it replaced and the lock on an install; the types of *)
(* the scheduler; and the single use of a refresh token.  Each component   *)
(* has an inductive invariant; their conjunction is the project's.         *)
(***************************************************************************)
EXTENDS MCUpdates, WellFoundedInduction, TLAPS

-----------------------------------------------------------------------------
(* The update of the executable.  First what holds for any number of       *)
(* processes at it: who has the claim, and what a task carries.            *)

\* A task that asks belongs to a process that runs; one that installs has its
\* claim, and knows the digests its step needs.
TaskShape ==
  /\ \A t \in Task : step[t] # "idle" => at[t] \in Updater /\ running[at[t]] # NoVersion
  /\ \A t \in Task : step[t] \in Installing => busy[at[t]]
  /\ \A t \in Task : step[t] \in (Installing \ {"verify"}) \cup {"learn"} => wanted[t] \in Version
  /\ \A t \in Task : step[t] \in {"unlink", "link", "install", "record", "restore", "keep"} => leaving[t] \in Version
  /\ OneInstall

ClaimInv == UpdateTypeOK /\ TaskShape

LEMMA UpdateFacts ==
  /\ MaxVersion \in Nat /\ 1 \in Version /\ NoVersion \notin Version /\ Version \subseteq File
  /\ HardLinks \in BOOLEAN /\ "idle" \in TaskPC /\ Installing \subseteq TaskPC /\ "idle" \notin Installing
  /\ {"check", "learn", "claim"} \subseteq TaskPC /\ {"check", "learn", "claim"} \cap Installing = {}
  BY UpdateBounds, UpdateConstants DEF Version, File, TaskPC, Installing

LEMMA ClaimInvBegins == UpdateInit => ClaimInv
  <1> SUFFICES ASSUME UpdateInit PROVE ClaimInv
    OBVIOUS
  <1> USE UpdateFacts DEF UpdateInit
  <1>1. UpdateTypeOK
    BY DEF UpdateTypeOK, File
  <1>2. \A t \in Task : step[t] = "idle"
    OBVIOUS
  <1>3. TaskShape
    BY <1>2 DEF TaskShape, OneInstall
  <1> QED
    BY <1>1, <1>3 DEF ClaimInv

\* A task that has the claim goes on to another step of what it does.
LEMMA MovesOn ==
  ASSUME ClaimInv, NEW t \in Task, NEW from \in Installing \ {"verify"}, NEW to \in Installing \ {"verify"},
         Move(t, from, to), FileStep, wanted' = wanted,
         \A u \in Task \ {t} : leaving'[u] = leaving[u],
         to \in {"unlink", "link", "install", "record", "restore", "keep"} => leaving'[t] \in Version
  PROVE  TaskShape' /\ step' \in [Task -> TaskPC] /\ step'[t] = to /\ at[t] \in Updater /\ wanted[t] \in Version
  <1>1. /\ step[t] = from /\ step' = [step EXCEPT ![t] = to] /\ UNCHANGED <<state, running, busy, at>>
    BY DEF Move, FileStep, sharedVars
  <1>2. step' \in [Task -> TaskPC] /\ step'[t] = to /\ \A u \in Task \ {t} : step'[u] = step[u]
    BY <1>1, UpdateFacts DEF ClaimInv, UpdateTypeOK
  <1>3. step[t] # "idle" /\ step[t] \in Installing
    BY <1>1, UpdateFacts
  <1>4. wanted[t] \in Version /\ at[t] \in Updater /\ running[at[t]] # NoVersion /\ busy[at[t]]
    BY <1>1, <1>3 DEF ClaimInv, TaskShape
  <1>5. TaskShape'
    <2>1. \A u \in Task : step'[u] # "idle" => at'[u] \in Updater /\ running'[at'[u]] # NoVersion
      BY <1>1, <1>2, <1>4 DEF ClaimInv, TaskShape
    <2>2. \A u \in Task : step'[u] \in Installing => busy'[at'[u]]
      BY <1>1, <1>2, <1>4 DEF ClaimInv, TaskShape
    <2>3. \A u \in Task : step'[u] \in (Installing \ {"verify"}) \cup {"learn"} => wanted'[u] \in Version
      BY <1>2, <1>4 DEF ClaimInv, TaskShape
    <2>4. \A u \in Task : step'[u] \in {"unlink", "link", "install", "record", "restore", "keep"} => leaving'[u] \in Version
      BY <1>2 DEF ClaimInv, TaskShape
    <2>5. \A u \in Task : step'[u] \in Installing => step[u] \in Installing
      BY <1>2, <1>3
    <2>6. OneInstall'
      BY <1>1, <2>5 DEF ClaimInv, TaskShape, OneInstall
    <2> QED
      BY <2>1, <2>2, <2>3, <2>4, <2>6 DEF TaskShape
  <1> QED
    BY <1>2, <1>4, <1>5

\* The end of a task that installs frees its process, and that one only.
LEMMA Ends ==
  ASSUME ClaimInv, NEW t \in Task, step[t] \in Installing, EndTask(t), running' = running
  PROVE  /\ TaskShape'
         /\ step' \in [Task -> TaskPC] /\ at' \in [Task -> Updater \cup {NoVersion}] /\ wanted' \in [Task -> File]
         /\ leaving' \in [Task -> File] /\ linked' \in [Task -> BOOLEAN] /\ busy' \in [Updater -> BOOLEAN]
         /\ \A u \in Task : step'[u] = IF u = t THEN "idle" ELSE step[u]
  <1>1. /\ step' = [step EXCEPT ![t] = "idle"] /\ at' = [at EXCEPT ![t] = NoVersion]
        /\ wanted' = [wanted EXCEPT ![t] = NoVersion] /\ leaving' = [leaving EXCEPT ![t] = NoVersion]
        /\ linked' = [linked EXCEPT ![t] = FALSE] /\ busy' = [busy EXCEPT ![at[t]] = FALSE]
    BY DEF EndTask, Answer
  <1>2. /\ step' \in [Task -> TaskPC] /\ at' \in [Task -> Updater \cup {NoVersion}] /\ wanted' \in [Task -> File]
        /\ leaving' \in [Task -> File] /\ linked' \in [Task -> BOOLEAN] /\ busy' \in [Updater -> BOOLEAN]
    BY <1>1, UpdateFacts DEF ClaimInv, UpdateTypeOK, File
  <1>3. \A u \in Task : step'[u] = IF u = t THEN "idle" ELSE step[u]
    BY <1>1 DEF ClaimInv, UpdateTypeOK
  <1>4. \A u \in Task \ {t} : at'[u] = at[u] /\ wanted'[u] = wanted[u] /\ leaving'[u] = leaving[u]
    BY <1>1 DEF ClaimInv, UpdateTypeOK
  <1>5. TaskShape'
    <2>1. \A u \in Task : step'[u] # "idle" => at'[u] \in Updater /\ running'[at'[u]] # NoVersion
      BY <1>3, <1>4 DEF ClaimInv, TaskShape
    <2>2. ASSUME NEW u \in Task, step'[u] \in Installing PROVE busy'[at'[u]]
      <3>1. u # t /\ step[u] \in Installing
        BY <1>3, <2>2, UpdateFacts
      <3>2. at[u] # at[t] /\ busy[at[u]] /\ at[u] \in Updater
        BY <2>1, <2>2, <1>4, <3>1, UpdateFacts DEF ClaimInv, TaskShape, OneInstall
      <3> QED
        BY <1>1, <1>4, <3>1, <3>2 DEF ClaimInv, UpdateTypeOK
    <2>3. \A u \in Task : step'[u] \in (Installing \ {"verify"}) \cup {"learn"} => wanted'[u] \in Version
      BY <1>3, <1>4, UpdateFacts DEF ClaimInv, TaskShape
    <2>4. \A u \in Task : step'[u] \in {"unlink", "link", "install", "record", "restore", "keep"} => leaving'[u] \in Version
      BY <1>3, <1>4 DEF ClaimInv, TaskShape
    <2>5. \A u \in Task : step'[u] \in Installing => u # t /\ step[u] \in Installing
      BY <1>3, UpdateFacts
    <2>6. OneInstall'
      BY <1>4, <2>5 DEF ClaimInv, TaskShape, OneInstall
    <2> QED
      BY <2>1, <2>2, <2>3, <2>4, <2>6 DEF TaskShape
  <1> QED
    BY <1>2, <1>3, <1>5

\* A task that answers before it has a claim.
LEMMA AnswerTypes ==
  ASSUME ClaimInv, NEW t \in Task, Answer(t)
  PROVE  /\ step' \in [Task -> TaskPC] /\ at' \in [Task -> Updater \cup {NoVersion}] /\ wanted' \in [Task -> File]
         /\ leaving' \in [Task -> File] /\ linked' \in [Task -> BOOLEAN]
         /\ step'[t] = "idle"
         /\ \A u \in Task \ {t} : step'[u] = step[u] /\ at'[u] = at[u] /\ wanted'[u] = wanted[u] /\ leaving'[u] = leaving[u]
  BY UpdateFacts DEF Answer, ClaimInv, UpdateTypeOK, File

\* One task changes, and does not install: the others are as they were.
LEMMA OneTask ==
  ASSUME ClaimInv, NEW t \in Task, UNCHANGED <<running, busy>>,
         \A u \in Task \ {t} : step'[u] = step[u] /\ at'[u] = at[u] /\ wanted'[u] = wanted[u] /\ leaving'[u] = leaving[u],
         step'[t] \notin Installing, step'[t] # "idle" => at'[t] \in Updater /\ running[at'[t]] # NoVersion,
         step'[t] = "learn" => wanted'[t] \in Version
  PROVE  TaskShape'
  <1>1. \A u \in Task : step'[u] # "idle" => at'[u] \in Updater /\ running'[at'[u]] # NoVersion
    BY DEF ClaimInv, TaskShape
  <1>2. \A u \in Task : step'[u] \in Installing => busy'[at'[u]]
    BY DEF ClaimInv, TaskShape
  <1>3. \A u \in Task : step'[u] \in (Installing \ {"verify"}) \cup {"learn"} => wanted'[u] \in Version
    BY DEF ClaimInv, TaskShape
  <1>4. \A u \in Task : step'[u] \in {"unlink", "link", "install", "record", "restore", "keep"} => leaving'[u] \in Version
    BY DEF ClaimInv, TaskShape, Installing
  <1>5. OneInstall'
    BY DEF ClaimInv, TaskShape, OneInstall
  <1> QED
    BY <1>1, <1>2, <1>3, <1>4, <1>5 DEF TaskShape

\* A task enters the install or the rollback of a process at which none is busy.
LEMMA Enters ==
  ASSUME ClaimInv, NEW t \in Task, NEW p \in Updater, ~busy[p], busy' = [busy EXCEPT ![p] = TRUE],
         running[p] # NoVersion, running' = running, step'[t] \in {"stage", "verify"},
         at'[t] = p, step'[t] # "verify" => wanted'[t] \in Version,
         \A u \in Task \ {t} : step'[u] = step[u] /\ at'[u] = at[u] /\ wanted'[u] = wanted[u] /\ leaving'[u] = leaving[u]
  PROVE  TaskShape'
  <1>1. \A u \in Task : step[u] \in Installing => at[u] # p
    BY DEF ClaimInv, TaskShape
  <1>2. \A q \in Updater : busy[q] => busy'[q]
    BY DEF ClaimInv, UpdateTypeOK
  <1>3. busy'[p]
    BY DEF ClaimInv, UpdateTypeOK
  <1>4. \A u \in Task : step'[u] # "idle" => at'[u] \in Updater /\ running'[at'[u]] # NoVersion
    BY DEF ClaimInv, TaskShape
  <1>5. \A u \in Task : step'[u] \in Installing => busy'[at'[u]]
    BY <1>2, <1>3, <1>4, UpdateFacts DEF ClaimInv, TaskShape
  <1>6. \A u \in Task : step'[u] \in (Installing \ {"verify"}) \cup {"learn"} => wanted'[u] \in Version
    BY DEF ClaimInv, TaskShape
  <1>7. \A u \in Task : step'[u] \in {"unlink", "link", "install", "record", "restore", "keep"} => leaving'[u] \in Version
    BY DEF ClaimInv, TaskShape
  <1>8. OneInstall'
    BY <1>1 DEF ClaimInv, TaskShape, OneInstall
  <1> QED
    BY <1>4, <1>5, <1>6, <1>7, <1>8 DEF TaskShape

\* Processes go and come, no task changes.
LEMMA NoTask ==
  ASSUME ClaimInv, UNCHANGED <<busy, taskVars>>, \A p \in Updater : running[p] # NoVersion => running'[p] # NoVersion
  PROVE  TaskShape'
  <1>1. UNCHANGED <<step, at, wanted, leaving, linked>>
    BY DEF taskVars
  <1> QED
    BY <1>1 DEF ClaimInv, TaskShape, OneInstall

-----------------------------------------------------------------------------
(* The steps of an install and of a rollback.                              *)

LEMMA StageKeeps == ASSUME ClaimInv, NEW t \in Task, Stage(t) PROVE ClaimInv'
  <1>1. /\ Move(t, "stage", "hash") /\ FileStep /\ wanted' = wanted
        /\ staged' = [staged EXCEPT ![at[t]] = wanted[t]]
        /\ UNCHANGED <<exe, prev, aside, leaving, linked>>
    BY DEF Stage, exeVars
  <1>2. "hash" \notin {"unlink", "link", "install", "record", "restore", "keep"}
    OBVIOUS
  <1>3. TaskShape' /\ step' \in [Task -> TaskPC] /\ at[t] \in Updater /\ wanted[t] \in Version
    <2>1. "stage" \in Installing \ {"verify"} /\ "hash" \in Installing \ {"verify"}
      BY DEF Installing
    <2> QED
      BY <1>1, <1>2, <2>1, MovesOn
  <1>4. staged' \in [Updater -> File]
    BY <1>1, <1>3, UpdateFacts DEF ClaimInv, UpdateTypeOK, File
  <1>5. UNCHANGED <<release, state, running, busy, candidate, verified, fetched, armed, at, rollbacks, updateCrashes,
                    updateFaults>>
    BY <1>1 DEF FileStep, sharedVars, updateBounds
  <1>6. UpdateTypeOK'
    BY <1>1, <1>3, <1>4, <1>5 DEF ClaimInv, UpdateTypeOK
  <1> QED
    BY <1>3, <1>6 DEF ClaimInv

LEMMA HashKeeps == ASSUME ClaimInv, NEW t \in Task, Hash(t) PROVE ClaimInv'
  <1>1. /\ Move(t, "hash", "unlink") /\ FileStep /\ wanted' = wanted
        /\ exe # NoVersion /\ leaving' = [leaving EXCEPT ![t] = exe]
        /\ UNCHANGED <<exe, prev, staged, aside, linked>>
    BY DEF Hash, exeVars
  <1>2. /\ exe \in Version /\ leaving' \in [Task -> File] /\ leaving'[t] \in Version
        /\ \A u \in Task \ {t} : leaving'[u] = leaving[u]
    BY <1>1 DEF ClaimInv, UpdateTypeOK, File
  <1>3. TaskShape' /\ step' \in [Task -> TaskPC] /\ at[t] \in Updater /\ wanted[t] \in Version
    <2>1. "hash" \in Installing \ {"verify"} /\ "unlink" \in Installing \ {"verify"}
      BY DEF Installing
    <2> QED
      BY <1>1, <1>2, <2>1, MovesOn
  <1>4. leaving' \in [Task -> File]
    BY <1>1, <1>3, UpdateFacts DEF ClaimInv, UpdateTypeOK, File
  <1>5. UNCHANGED <<release, state, running, busy, candidate, verified, fetched, armed, at, rollbacks, updateCrashes,
                    updateFaults>>
    BY <1>1 DEF FileStep, sharedVars, updateBounds
  <1>6. UpdateTypeOK'
    BY <1>1, <1>3, <1>4, <1>5 DEF ClaimInv, UpdateTypeOK
  <1> QED
    BY <1>3, <1>6 DEF ClaimInv

LEMMA UnlinkKeeps == ASSUME ClaimInv, NEW t \in Task, Unlink(t) PROVE ClaimInv'
  <1>1. /\ Move(t, "unlink", "link") /\ FileStep /\ wanted' = wanted
        /\ prev' = NoVersion
        /\ UNCHANGED <<exe, staged, aside, leaving, linked>>
    BY DEF Unlink, exeVars
  <1>2. leaving'[t] \in Version
    BY <1>1 DEF Move, ClaimInv, TaskShape
  <1>3. TaskShape' /\ step' \in [Task -> TaskPC] /\ at[t] \in Updater /\ wanted[t] \in Version
    <2>1. "unlink" \in Installing \ {"verify"} /\ "link" \in Installing \ {"verify"}
      BY DEF Installing
    <2> QED
      BY <1>1, <1>2, <2>1, MovesOn
  <1>4. prev' \in File
    BY <1>1, <1>3, UpdateFacts DEF ClaimInv, UpdateTypeOK, File
  <1>5. UNCHANGED <<release, state, running, busy, candidate, verified, fetched, armed, at, rollbacks, updateCrashes,
                    updateFaults>>
    BY <1>1 DEF FileStep, sharedVars, updateBounds
  <1>6. UpdateTypeOK'
    BY <1>1, <1>3, <1>4, <1>5 DEF ClaimInv, UpdateTypeOK
  <1> QED
    BY <1>3, <1>6 DEF ClaimInv

LEMMA LinkKeeps == ASSUME ClaimInv, NEW t \in Task, Link(t) PROVE ClaimInv'
  <1>1. /\ Move(t, "link", "install") /\ FileStep /\ wanted' = wanted
        /\ prev' = exe /\ exe' \in {exe, NoVersion} /\ linked' = [linked EXCEPT ![t] = HardLinks /\ prev = NoVersion]
        /\ UNCHANGED <<staged, aside, leaving>>
    BY DEF Link, exeVars
  <1>2. leaving'[t] \in Version
    BY <1>1 DEF Move, ClaimInv, TaskShape
  <1>3. TaskShape' /\ step' \in [Task -> TaskPC] /\ at[t] \in Updater /\ wanted[t] \in Version
    <2>1. "link" \in Installing \ {"verify"} /\ "install" \in Installing \ {"verify"}
      BY DEF Installing
    <2> QED
      BY <1>1, <1>2, <2>1, MovesOn
  <1>4. prev' \in File /\ exe' \in File /\ linked' \in [Task -> BOOLEAN]
    BY <1>1, <1>3, UpdateFacts DEF ClaimInv, UpdateTypeOK, File
  <1>5. UNCHANGED <<release, state, running, busy, candidate, verified, fetched, armed, at, rollbacks, updateCrashes,
                    updateFaults>>
    BY <1>1 DEF FileStep, sharedVars, updateBounds
  <1>6. UpdateTypeOK'
    BY <1>1, <1>3, <1>4, <1>5 DEF ClaimInv, UpdateTypeOK
  <1> QED
    BY <1>3, <1>6 DEF ClaimInv

LEMMA InstallStagedKeeps == ASSUME ClaimInv, NEW t \in Task, InstallStaged(t) PROVE ClaimInv'
  <1>1. /\ Move(t, "install", "record") /\ FileStep /\ wanted' = wanted
        /\ exe' = staged[at[t]] /\ staged' = [staged EXCEPT ![at[t]] = NoVersion]
        /\ UNCHANGED <<prev, aside, leaving, linked>>
    BY DEF InstallStaged, exeVars
  <1>2. leaving'[t] \in Version
    BY <1>1 DEF Move, ClaimInv, TaskShape
  <1>3. TaskShape' /\ step' \in [Task -> TaskPC] /\ at[t] \in Updater /\ wanted[t] \in Version
    <2>1. "install" \in Installing \ {"verify"} /\ "record" \in Installing \ {"verify"}
      BY DEF Installing
    <2> QED
      BY <1>1, <1>2, <2>1, MovesOn
  <1>4. exe' \in File /\ staged' \in [Updater -> File]
    BY <1>1, <1>3, UpdateFacts DEF ClaimInv, UpdateTypeOK, File
  <1>5. UNCHANGED <<release, state, running, busy, candidate, verified, fetched, armed, at, rollbacks, updateCrashes,
                    updateFaults>>
    BY <1>1 DEF FileStep, sharedVars, updateBounds
  <1>6. UpdateTypeOK'
    BY <1>1, <1>3, <1>4, <1>5 DEF ClaimInv, UpdateTypeOK
  <1> QED
    BY <1>3, <1>6 DEF ClaimInv

LEMMA SetAsideKeeps == ASSUME ClaimInv, NEW t \in Task, SetAside(t) PROVE ClaimInv'
  <1>1. /\ Move(t, "aside", "restore") /\ FileStep /\ wanted' = wanted
        /\ exe # NoVersion /\ aside' = [aside EXCEPT ![at[t]] = exe] /\ leaving' = [leaving EXCEPT ![t] = exe] /\ linked' = [linked EXCEPT ![t] = HardLinks] /\ exe' \in {exe, NoVersion}
        /\ UNCHANGED <<prev, staged>>
    BY DEF SetAside, exeVars
  <1>2. /\ exe \in Version /\ leaving' \in [Task -> File] /\ leaving'[t] \in Version
        /\ \A u \in Task \ {t} : leaving'[u] = leaving[u]
    BY <1>1 DEF ClaimInv, UpdateTypeOK, File
  <1>3. TaskShape' /\ step' \in [Task -> TaskPC] /\ at[t] \in Updater /\ wanted[t] \in Version
    <2>1. "aside" \in Installing \ {"verify"} /\ "restore" \in Installing \ {"verify"}
      BY DEF Installing
    <2> QED
      BY <1>1, <1>2, <2>1, MovesOn
  <1>4. exe' \in File /\ aside' \in [Updater -> File] /\ leaving' \in [Task -> File] /\ linked' \in [Task -> BOOLEAN]
    BY <1>1, <1>3, UpdateFacts DEF ClaimInv, UpdateTypeOK, File
  <1>5. UNCHANGED <<release, state, running, busy, candidate, verified, fetched, armed, at, rollbacks, updateCrashes,
                    updateFaults>>
    BY <1>1 DEF FileStep, sharedVars, updateBounds
  <1>6. UpdateTypeOK'
    BY <1>1, <1>3, <1>4, <1>5 DEF ClaimInv, UpdateTypeOK
  <1> QED
    BY <1>3, <1>6 DEF ClaimInv

LEMMA RestoreKeeps == ASSUME ClaimInv, NEW t \in Task, Restore(t) PROVE ClaimInv'
  <1>1. /\ Move(t, "restore", "keep") /\ FileStep /\ wanted' = wanted
        /\ exe' = prev /\ prev' = NoVersion
        /\ UNCHANGED <<staged, aside, leaving, linked>>
    BY DEF Restore, exeVars
  <1>2. leaving'[t] \in Version
    BY <1>1 DEF Move, ClaimInv, TaskShape
  <1>3. TaskShape' /\ step' \in [Task -> TaskPC] /\ at[t] \in Updater /\ wanted[t] \in Version
    <2>1. "restore" \in Installing \ {"verify"} /\ "keep" \in Installing \ {"verify"}
      BY DEF Installing
    <2> QED
      BY <1>1, <1>2, <2>1, MovesOn
  <1>4. exe' \in File /\ prev' \in File
    BY <1>1, <1>3, UpdateFacts DEF ClaimInv, UpdateTypeOK, File
  <1>5. UNCHANGED <<release, state, running, busy, candidate, verified, fetched, armed, at, rollbacks, updateCrashes,
                    updateFaults>>
    BY <1>1 DEF FileStep, sharedVars, updateBounds
  <1>6. UpdateTypeOK'
    BY <1>1, <1>3, <1>4, <1>5 DEF ClaimInv, UpdateTypeOK
  <1> QED
    BY <1>3, <1>6 DEF ClaimInv

LEMMA KeepReplacedKeeps == ASSUME ClaimInv, NEW t \in Task, KeepReplaced(t) PROVE ClaimInv'
  <1>1. /\ Move(t, "keep", "record") /\ FileStep /\ wanted' = wanted
        /\ prev' = aside[at[t]] /\ aside' = [aside EXCEPT ![at[t]] = NoVersion]
        /\ UNCHANGED <<exe, staged, leaving, linked>>
    BY DEF KeepReplaced, exeVars
  <1>2. leaving'[t] \in Version
    BY <1>1 DEF Move, ClaimInv, TaskShape
  <1>3. TaskShape' /\ step' \in [Task -> TaskPC] /\ at[t] \in Updater /\ wanted[t] \in Version
    <2>1. "keep" \in Installing \ {"verify"} /\ "record" \in Installing \ {"verify"}
      BY DEF Installing
    <2> QED
      BY <1>1, <1>2, <2>1, MovesOn
  <1>4. prev' \in File /\ aside' \in [Updater -> File]
    BY <1>1, <1>3, UpdateFacts DEF ClaimInv, UpdateTypeOK, File
  <1>5. UNCHANGED <<release, state, running, busy, candidate, verified, fetched, armed, at, rollbacks, updateCrashes,
                    updateFaults>>
    BY <1>1 DEF FileStep, sharedVars, updateBounds
  <1>6. UpdateTypeOK'
    BY <1>1, <1>3, <1>4, <1>5 DEF ClaimInv, UpdateTypeOK
  <1> QED
    BY <1>3, <1>6 DEF ClaimInv

LEMMA VerifyKeeps == ASSUME ClaimInv, NEW t \in Task, Verify(t) PROVE ClaimInv'
  <1>1. /\ step[t] = "verify" /\ step[t] \in Installing /\ step[t] # "idle"
        /\ UNCHANGED <<release, exe, prev, staged, aside, state, running, candidate, verified, fetched, armed,
                       rollbacks, updateCrashes, updateFaults>>
    BY DEF Verify, Installing, exeVars, updateBounds
  <1>2. CASE Restorable
    <2>1. /\ step' = [step EXCEPT ![t] = "aside"] /\ wanted' = [wanted EXCEPT ![t] = prev]
          /\ state # NoVersion /\ prev = state.sha /\ UNCHANGED <<at, leaving, linked, busy>>
      BY <1>2 DEF Verify, Restorable, Move
    <2>2. step' \in [Task -> TaskPC] /\ step'[t] = "aside" /\ \A u \in Task \ {t} : step'[u] = step[u]
      BY <2>1 DEF ClaimInv, UpdateTypeOK, TaskPC, Installing
    <2>3. prev \in Version
      <3>1. state \in Record
        BY <2>1 DEF ClaimInv, UpdateTypeOK
      <3> QED
        BY <2>1, <3>1 DEF Record
    <2>4. wanted' \in [Task -> File] /\ wanted'[t] = prev /\ \A u \in Task \ {t} : wanted'[u] = wanted[u]
      BY <2>1, <2>3 DEF ClaimInv, UpdateTypeOK, File
    <2>5. UpdateTypeOK'
      BY <1>1, <2>1, <2>2, <2>4 DEF ClaimInv, UpdateTypeOK
    <2>6. TaskShape'
      <3>1. \A u \in Task : step'[u] # "idle" => at'[u] \in Updater /\ running'[at'[u]] # NoVersion
        BY <1>1, <2>1, <2>2 DEF ClaimInv, TaskShape
      <3>2. \A u \in Task : step'[u] \in Installing => step[u] \in Installing
        BY <1>1, <2>2
      <3>3. \A u \in Task : step'[u] \in Installing => busy'[at'[u]]
        BY <1>1, <2>1, <3>2 DEF ClaimInv, TaskShape
      <3>4. \A u \in Task : step'[u] \in (Installing \ {"verify"}) \cup {"learn"} => wanted'[u] \in Version
        BY <2>2, <2>3, <2>4 DEF ClaimInv, TaskShape
      <3>5. \A u \in Task : step'[u] \in {"unlink", "link", "install", "record", "restore", "keep"} => leaving'[u] \in Version
        BY <2>1, <2>2 DEF ClaimInv, TaskShape
      <3>6. OneInstall'
        BY <1>1, <2>1, <3>2 DEF ClaimInv, TaskShape, OneInstall
      <3> QED
        BY <3>1, <3>3, <3>4, <3>5, <3>6 DEF TaskShape
    <2> QED
      BY <2>5, <2>6 DEF ClaimInv
  <1>3. CASE ~Restorable
    <2>1. EndTask(t)
      BY <1>3 DEF Verify
    <2>2. /\ TaskShape'
          /\ step' \in [Task -> TaskPC] /\ at' \in [Task -> Updater \cup {NoVersion}] /\ wanted' \in [Task -> File]
          /\ leaving' \in [Task -> File] /\ linked' \in [Task -> BOOLEAN] /\ busy' \in [Updater -> BOOLEAN]
      BY <1>1, <2>1, Ends
    <2>3. UpdateTypeOK'
      BY <1>1, <2>2 DEF ClaimInv, UpdateTypeOK
    <2> QED
      BY <2>2, <2>3 DEF ClaimInv
  <1> QED
    BY <1>2, <1>3

LEMMA RecordAppliedKeeps == ASSUME ClaimInv, NEW t \in Task, RecordApplied(t) PROVE ClaimInv'
  <1>1. /\ step[t] = "record" /\ state' = Recorded(t) /\ armed' = [armed EXCEPT ![at[t]] = at[t] \notin OneShot]
        /\ EndTask(t) /\ UNCHANGED <<release, exe, prev, staged, aside, running, candidate, verified, fetched,
                                     rollbacks, updateCrashes, updateFaults>>
    BY DEF RecordApplied, exeVars, updateBounds
  <1>2. step[t] \in Installing \ {"verify"} /\ step[t] # "idle"
    BY <1>1 DEF Installing
  <1>3. /\ TaskShape'
        /\ step' \in [Task -> TaskPC] /\ at' \in [Task -> Updater \cup {NoVersion}] /\ wanted' \in [Task -> File]
        /\ leaving' \in [Task -> File] /\ linked' \in [Task -> BOOLEAN] /\ busy' \in [Updater -> BOOLEAN]
    BY <1>1, <1>2, Ends
  <1>4. state' \in Record
    <2>1. wanted[t] \in Version /\ leaving[t] \in Version /\ at[t] \in Updater /\ running[at[t]] # NoVersion
      BY <1>1, <1>2 DEF ClaimInv, TaskShape
    <2>2. running[at[t]] \in Version
      BY <2>1 DEF ClaimInv, UpdateTypeOK, File
    <2> QED
      BY <1>1, <2>1, <2>2 DEF Recorded, Record
  <1>5. armed' \in [Updater -> BOOLEAN]
    BY <1>1 DEF ClaimInv, UpdateTypeOK
  <1>6. UpdateTypeOK'
    BY <1>1, <1>3, <1>4, <1>5 DEF ClaimInv, UpdateTypeOK
  <1> QED
    BY <1>3, <1>6 DEF ClaimInv

LEMMA TaskFailsKeeps == ASSUME ClaimInv, NEW t \in Task, TaskFails(t) PROVE ClaimInv'
  <1>1. /\ step[t] \in Installing /\ EndTask(t)
        /\ UNCHANGED <<release, state, running, candidate, verified, fetched, armed, rollbacks, updateCrashes>>
    BY DEF TaskFails
  <1>2. updateFaults' \in Nat
    <2>1. updateFaults' = updateFaults \/ updateFaults' = updateFaults + 1
      BY DEF TaskFails, UpdateFault
    <2> QED
      BY <2>1 DEF ClaimInv, UpdateTypeOK
  <1>3. /\ TaskShape'
        /\ step' \in [Task -> TaskPC] /\ at' \in [Task -> Updater \cup {NoVersion}] /\ wanted' \in [Task -> File]
        /\ leaving' \in [Task -> File] /\ linked' \in [Task -> BOOLEAN] /\ busy' \in [Updater -> BOOLEAN]
    BY <1>1, Ends
  <1>4. at[t] \in Updater
    BY <1>1, UpdateFacts DEF ClaimInv, TaskShape
  <1>5. exe' \in File /\ prev' \in File /\ staged' \in [Updater -> File] /\ aside' \in [Updater -> File]
    <2>1. CASE step[t] \in {"stage", "hash", "unlink", "link"}
      <3>1. /\ staged' = staged \/ staged' = [staged EXCEPT ![at[t]] = NoVersion]
            /\ UNCHANGED <<exe, prev, aside>>
        BY <2>1 DEF TaskFails
      <3> QED
        BY <3>1 DEF ClaimInv, UpdateTypeOK, File
    <2>2. CASE step[t] = "install"
      <3>1. exe' \in {exe, prev} /\ prev' = NoVersion /\ UNCHANGED <<staged, aside>>
        BY <2>2 DEF TaskFails
      <3> QED
        BY <3>1 DEF ClaimInv, UpdateTypeOK, File
    <2>3. CASE step[t] = "restore"
      <3>1. \/ UNCHANGED exeVars
            \/ /\ exe' \in {exe, aside[at[t]]} /\ aside' = [aside EXCEPT ![at[t]] = NoVersion]
               /\ UNCHANGED <<prev, staged>>
        BY <2>3 DEF TaskFails
      <3> QED
        BY <1>4, <3>1 DEF ClaimInv, UpdateTypeOK, File, exeVars
    <2>4. CASE step[t] \in {"record", "verify", "aside", "keep"}
      <3>1. UNCHANGED exeVars
        BY <2>4 DEF TaskFails
      <3> QED
        BY <3>1 DEF ClaimInv, UpdateTypeOK, exeVars
    <2> QED
      BY <1>1, <2>1, <2>2, <2>3, <2>4 DEF Installing
  <1>6. UpdateTypeOK'
    BY <1>1, <1>2, <1>3, <1>5 DEF ClaimInv, UpdateTypeOK
  <1> QED
    BY <1>3, <1>6 DEF ClaimInv

-----------------------------------------------------------------------------
(* Requests and checks.                                                    *)

LEMMA AskApplyKeeps == ASSUME ClaimInv, NEW t \in Task, NEW p \in Updater, AskApply(t, p) PROVE ClaimInv'
  <1> DEFINE to == IF candidate[p] = NoVersion THEN "check" ELSE "claim"
  <1>1. /\ running[p] # NoVersion /\ step' = [step EXCEPT ![t] = to] /\ at' = [at EXCEPT ![t] = p]
        /\ UNCHANGED <<release, exe, prev, staged, aside, state, running, busy, candidate, verified, fetched, armed,
                       wanted, leaving, linked, rollbacks, updateCrashes, updateFaults>>
    BY DEF AskApply, exeVars, sharedVars, updateBounds
  <1>2. to \in TaskPC /\ to \notin Installing /\ to # "learn"
    BY DEF TaskPC, Installing
  <1> HIDE DEF to
  <1>3. UpdateTypeOK'
    BY <1>1, <1>2 DEF ClaimInv, UpdateTypeOK
  <1>4. step'[t] = to /\ at'[t] = p /\ \A u \in Task \ {t} : step'[u] = step[u] /\ at'[u] = at[u]
    BY <1>1 DEF ClaimInv, UpdateTypeOK
  <1>5. TaskShape'
    BY <1>1, <1>2, <1>4, OneTask
  <1> QED
    BY <1>3, <1>5 DEF ClaimInv

LEMMA CheckFirstKeeps == ASSUME ClaimInv, NEW t \in Task, CheckFirst(t) PROVE ClaimInv'
  <1>1. /\ step[t] = "check" /\ step[t] # "idle"
        /\ UNCHANGED <<release, exe, prev, staged, aside, state, running, busy, candidate, verified,
                       fetched, armed, rollbacks, updateCrashes, updateFaults>>
    BY DEF CheckFirst, exeVars, sharedVars, updateBounds
  <1>2. CASE Answer(t)
    <2>1. /\ step' \in [Task -> TaskPC] /\ at' \in [Task -> Updater \cup {NoVersion}] /\ wanted' \in [Task -> File]
          /\ leaving' \in [Task -> File] /\ linked' \in [Task -> BOOLEAN]
          /\ step'[t] = "idle"
          /\ \A u \in Task \ {t} : step'[u] = step[u] /\ at'[u] = at[u] /\ wanted'[u] = wanted[u] /\ leaving'[u] = leaving[u]
      BY <1>2, AnswerTypes
    <2>2. UpdateTypeOK'
      BY <1>1, <2>1 DEF ClaimInv, UpdateTypeOK
    <2>3. step'[t] \notin Installing /\ step'[t] # "learn"
      BY <2>1, UpdateFacts
    <2>4. TaskShape'
      BY <1>1, <2>1, <2>3, OneTask
    <2> QED
      BY <2>2, <2>4 DEF ClaimInv
  <1>3. CASE Move(t, "check", "learn") /\ wanted' = [wanted EXCEPT ![t] = release] /\ UNCHANGED <<at, leaving, linked>>
    <2>1. /\ step' \in [Task -> TaskPC] /\ wanted' \in [Task -> File]
          /\ step'[t] = "learn" /\ wanted'[t] = release /\ release \in Version
          /\ \A u \in Task \ {t} : step'[u] = step[u] /\ wanted'[u] = wanted[u]
      BY <1>3, UpdateFacts DEF Move, ClaimInv, UpdateTypeOK, File
    <2>2. UpdateTypeOK'
      BY <1>1, <1>3, <2>1 DEF ClaimInv, UpdateTypeOK
    <2>3. step'[t] \notin Installing /\ at[t] \in Updater /\ running[at[t]] # NoVersion
      BY <1>1, <2>1, UpdateFacts DEF ClaimInv, TaskShape
    <2>4. TaskShape'
      BY <1>1, <1>3, <2>1, <2>3, OneTask
    <2> QED
      BY <2>2, <2>4 DEF ClaimInv
  <1> QED
    BY <1>2, <1>3 DEF CheckFirst

LEMMA OutcomeTypes ==
  ASSUME ClaimInv, NEW p \in Updater, NEW v \in Version, Outcome(p, v)
  PROVE  candidate' \in [Updater -> File] /\ verified' \in [Updater -> BOOLEAN] /\ updateFaults' \in Nat
  <1>1. CASE Learn(p, v) /\ UNCHANGED updateFaults
    <2>1. Newer(p, v) \in File
      BY DEF Newer, File
    <2> QED
      BY <1>1, <2>1 DEF Learn, ClaimInv, UpdateTypeOK
  <1>2. CASE UpdateFault /\ UNCHANGED candidate /\ verified' \in {verified, [verified EXCEPT ![p] = FALSE]}
    <2>1. updateFaults' = updateFaults + 1 /\ candidate' = candidate
      BY <1>2 DEF UpdateFault
    <2>2. verified' = verified \/ verified' = [verified EXCEPT ![p] = FALSE]
      BY <1>2
    <2>3. verified' \in [Updater -> BOOLEAN]
      BY <2>2 DEF ClaimInv, UpdateTypeOK
    <2> QED
      BY <2>1, <2>3 DEF ClaimInv, UpdateTypeOK
  <1> QED
    BY <1>1, <1>2 DEF Outcome

LEMMA LearnFirstKeeps == ASSUME ClaimInv, NEW t \in Task, LearnFirst(t) PROVE ClaimInv'
  <1>1. /\ Move(t, "learn", "claim") /\ wanted' = [wanted EXCEPT ![t] = NoVersion] /\ Outcome(at[t], wanted[t])
        /\ UNCHANGED <<release, exe, prev, staged, aside, state, running, busy, fetched, armed, at, leaving, linked,
                       rollbacks, updateCrashes>>
    BY DEF LearnFirst, exeVars
  <1>2. at[t] \in Updater /\ running[at[t]] # NoVersion /\ wanted[t] \in Version
    BY <1>1 DEF Move, ClaimInv, TaskShape
  <1>3. candidate' \in [Updater -> File] /\ verified' \in [Updater -> BOOLEAN] /\ updateFaults' \in Nat
    BY <1>1, <1>2, OutcomeTypes
  <1>4. /\ step' \in [Task -> TaskPC] /\ wanted' \in [Task -> File]
        /\ step'[t] = "claim" /\ \A u \in Task \ {t} : step'[u] = step[u] /\ wanted'[u] = wanted[u]
    BY <1>1, UpdateFacts DEF Move, ClaimInv, UpdateTypeOK, File
  <1>5. UpdateTypeOK'
    BY <1>1, <1>3, <1>4 DEF ClaimInv, UpdateTypeOK
  <1>6. step'[t] \notin Installing /\ step'[t] # "learn"
    BY <1>4, UpdateFacts
  <1>7. TaskShape'
    BY <1>1, <1>2, <1>4, <1>6, OneTask
  <1> QED
    BY <1>5, <1>7 DEF ClaimInv

LEMMA ClaimUpdaterKeeps == ASSUME ClaimInv, NEW t \in Task, ClaimUpdater(t) PROVE ClaimInv'
  <1> DEFINE p == at[t]
  <1>1. /\ step[t] = "claim" /\ step[t] # "idle"
        /\ UNCHANGED <<release, exe, prev, staged, aside, state, running, candidate, verified,
                       fetched, armed, rollbacks, updateCrashes, updateFaults>>
    BY DEF ClaimUpdater, exeVars, updateBounds
  <1>2. p \in Updater /\ running[p] # NoVersion
    BY <1>1 DEF ClaimInv, TaskShape
  <1>3. CASE busy[p] \/ candidate[p] = NoVersion \/ ~verified[p]
    <2>1. Answer(t) /\ busy' = busy
      BY <1>3 DEF ClaimUpdater
    <2>2. /\ step' \in [Task -> TaskPC] /\ at' \in [Task -> Updater \cup {NoVersion}] /\ wanted' \in [Task -> File]
          /\ leaving' \in [Task -> File] /\ linked' \in [Task -> BOOLEAN]
          /\ step'[t] = "idle"
          /\ \A u \in Task \ {t} : step'[u] = step[u] /\ at'[u] = at[u] /\ wanted'[u] = wanted[u] /\ leaving'[u] = leaving[u]
      BY <2>1, AnswerTypes
    <2>3. UpdateTypeOK'
      BY <1>1, <2>1, <2>2 DEF ClaimInv, UpdateTypeOK
    <2>4. step'[t] \notin Installing /\ step'[t] # "learn"
      BY <2>2, UpdateFacts
    <2>5. TaskShape'
      BY <1>1, <2>1, <2>2, <2>4, OneTask
    <2> QED
      BY <2>3, <2>5 DEF ClaimInv
  <1>4. CASE ~(busy[p] \/ candidate[p] = NoVersion \/ ~verified[p])
    <2>1. /\ busy' = [busy EXCEPT ![p] = TRUE] /\ wanted' = [wanted EXCEPT ![t] = candidate[p]]
          /\ Move(t, "claim", "stage") /\ UNCHANGED <<at, leaving, linked>>
      BY <1>4 DEF ClaimUpdater
    <2>2. candidate[p] \in Version
      BY <1>2, <1>4 DEF ClaimInv, UpdateTypeOK, File
    <2>3. at'[t] = p /\ ~busy[p]
      BY <1>4, <2>1
    <2> HIDE DEF p
    <2>4. /\ step' \in [Task -> TaskPC] /\ step'[t] = "stage" /\ \A u \in Task \ {t} : step'[u] = step[u]
      BY <2>1 DEF Move, ClaimInv, UpdateTypeOK, TaskPC, Installing
    <2>5. /\ wanted' \in [Task -> File] /\ wanted'[t] = candidate[p] /\ \A u \in Task \ {t} : wanted'[u] = wanted[u]
      BY <2>1, <2>2 DEF ClaimInv, UpdateTypeOK, File
    <2>6. busy' \in [Updater -> BOOLEAN]
      BY <2>1 DEF ClaimInv, UpdateTypeOK
    <2>7. UpdateTypeOK'
      BY <1>1, <2>1, <2>4, <2>5, <2>6 DEF ClaimInv, UpdateTypeOK
    <2>8. \A u \in Task \ {t} : step'[u] = step[u] /\ at'[u] = at[u] /\ wanted'[u] = wanted[u] /\ leaving'[u] = leaving[u]
      BY <2>1, <2>4, <2>5
    <2>9. wanted'[t] \in Version /\ step'[t] \in {"stage", "verify"} /\ running' = running
      BY <1>1, <2>2, <2>4, <2>5
    <2>10. TaskShape'
      BY <1>2, <2>1, <2>3, <2>8, <2>9, Enters
    <2> QED
      BY <2>7, <2>10 DEF ClaimInv
  <1> QED
    BY <1>3, <1>4

LEMMA AskRollbackKeeps ==
  ASSUME ClaimInv, NEW t \in Task, NEW p \in Updater, AskRollback(t, p) PROVE ClaimInv'
  <1>1. /\ running[p] # NoVersion /\ ~busy[p] /\ rollbacks' = rollbacks + 1
        /\ busy' = [busy EXCEPT ![p] = TRUE] /\ step' = [step EXCEPT ![t] = "verify"] /\ at' = [at EXCEPT ![t] = p]
        /\ UNCHANGED <<release, exe, prev, staged, aside, state, running, candidate, verified, fetched, armed,
                       wanted, leaving, linked, updateCrashes, updateFaults>>
    BY DEF AskRollback, exeVars
  <1>2. /\ step' \in [Task -> TaskPC] /\ at' \in [Task -> Updater \cup {NoVersion}] /\ step'[t] = "verify" /\ at'[t] = p
        /\ \A u \in Task \ {t} : step'[u] = step[u] /\ at'[u] = at[u]
    BY <1>1 DEF ClaimInv, UpdateTypeOK, TaskPC, Installing
  <1>3. UpdateTypeOK'
    BY <1>1, <1>2 DEF ClaimInv, UpdateTypeOK
  <1>4. TaskShape'
    BY <1>1, <1>2, Enters
  <1> QED
    BY <1>3, <1>4 DEF ClaimInv

LEMMA FetchKeeps == ASSUME ClaimInv, NEW p \in Updater, Fetch(p) PROVE ClaimInv'
  <1>1. /\ fetched' = [fetched EXCEPT ![p] = @ \cup {release}]
        /\ UNCHANGED <<release, exe, prev, staged, aside, state, running, busy, candidate, verified, armed, taskVars,
                       rollbacks, updateCrashes, updateFaults>>
    BY DEF Fetch, exeVars, updateBounds
  <1>2. fetched' \in [Updater -> SUBSET Version]
    BY <1>1 DEF ClaimInv, UpdateTypeOK
  <1>3. UpdateTypeOK'
    BY <1>1, <1>2 DEF ClaimInv, UpdateTypeOK, taskVars
  <1>4. TaskShape'
    BY <1>1, NoTask
  <1> QED
    BY <1>3, <1>4 DEF ClaimInv

LEMMA ReportKeeps == ASSUME ClaimInv, NEW p \in Updater, NEW v \in Version, Report(p, v) PROVE ClaimInv'
  <1>1. /\ fetched' = [fetched EXCEPT ![p] = @ \ {v}] /\ Outcome(p, v)
        /\ UNCHANGED <<release, exe, prev, staged, aside, state, running, busy, armed, taskVars, rollbacks, updateCrashes>>
    BY DEF Report, exeVars
  <1>2. fetched' \in [Updater -> SUBSET Version]
    BY <1>1 DEF ClaimInv, UpdateTypeOK
  <1>3. candidate' \in [Updater -> File] /\ verified' \in [Updater -> BOOLEAN] /\ updateFaults' \in Nat
    BY <1>1, OutcomeTypes
  <1>4. UpdateTypeOK'
    BY <1>1, <1>2, <1>3 DEF ClaimInv, UpdateTypeOK, taskVars
  <1>5. TaskShape'
    BY <1>1, NoTask
  <1> QED
    BY <1>4, <1>5 DEF ClaimInv

-----------------------------------------------------------------------------
(* Processes.                                                              *)

LEMMA StartKeeps == ASSUME ClaimInv, NEW p \in Updater, Start(p) PROVE ClaimInv'
  <1>1. /\ exe # NoVersion /\ running' = [running EXCEPT ![p] = exe]
        /\ UNCHANGED <<release, exe, prev, staged, aside, state, busy, candidate, verified, fetched, armed, taskVars,
                       rollbacks, updateCrashes, updateFaults>>
    BY DEF Start, exeVars, sharedVars, updateBounds
  <1>2. running' \in [Updater -> File]
    BY <1>1 DEF ClaimInv, UpdateTypeOK
  <1>3. \A q \in Updater : running[q] # NoVersion => running'[q] # NoVersion
    BY <1>1 DEF ClaimInv, UpdateTypeOK
  <1>4. UpdateTypeOK'
    BY <1>1, <1>2 DEF ClaimInv, UpdateTypeOK, taskVars
  <1>5. TaskShape'
    BY <1>1, <1>3, NoTask
  <1> QED
    BY <1>4, <1>5 DEF ClaimInv

LEMMA PublishReleaseKeeps == ASSUME ClaimInv, PublishRelease PROVE ClaimInv'
  <1>1. /\ release < MaxVersion /\ release' = release + 1
        /\ UNCHANGED <<exe, prev, staged, aside, state, running, busy, candidate, verified, fetched, armed, taskVars,
                       rollbacks, updateCrashes, updateFaults>>
    BY DEF PublishRelease, exeVars, sharedVars, updateBounds
  <1>2. release' \in Version
    BY <1>1, UpdateFacts DEF ClaimInv, UpdateTypeOK, Version
  <1>3. UpdateTypeOK'
    BY <1>1, <1>2 DEF ClaimInv, UpdateTypeOK, taskVars
  <1>4. TaskShape'
    BY <1>1, NoTask
  <1> QED
    BY <1>3, <1>4 DEF ClaimInv

\* The tasks of a process go with it; those of the others go on.
LEMMA LostKeeps ==
  ASSUME ClaimInv, NEW p \in Updater, Lost(p), NEW v \in File, running' = [running EXCEPT ![p] = v],
         updateCrashes' \in Nat, updateFaults' \in Nat,
         UNCHANGED <<release, exe, prev, staged, aside, state, rollbacks>>
  PROVE  ClaimInv'
  <1>1. /\ busy' = [busy EXCEPT ![p] = FALSE] /\ candidate' = [candidate EXCEPT ![p] = NoVersion]
        /\ verified' = [verified EXCEPT ![p] = FALSE] /\ fetched' = [fetched EXCEPT ![p] = {}]
        /\ armed' = [armed EXCEPT ![p] = FALSE]
    BY DEF Lost
  <1>2. /\ busy' \in [Updater -> BOOLEAN] /\ candidate' \in [Updater -> File] /\ verified' \in [Updater -> BOOLEAN]
        /\ fetched' \in [Updater -> SUBSET Version] /\ armed' \in [Updater -> BOOLEAN] /\ running' \in [Updater -> File]
    BY <1>1 DEF ClaimInv, UpdateTypeOK, File
  <1>3. /\ step' \in [Task -> TaskPC] /\ at' \in [Task -> Updater \cup {NoVersion}]
        /\ wanted' \in [Task -> File] /\ leaving' \in [Task -> File] /\ linked' \in [Task -> BOOLEAN]
    <2>1. /\ step' = [t \in Task |-> IF t \in {u \in Task : at[u] = p} THEN "idle" ELSE step[t]]
          /\ at' = [t \in Task |-> IF t \in {u \in Task : at[u] = p} THEN NoVersion ELSE at[t]]
          /\ wanted' = [t \in Task |-> IF t \in {u \in Task : at[u] = p} THEN NoVersion ELSE wanted[t]]
          /\ leaving' = [t \in Task |-> IF t \in {u \in Task : at[u] = p} THEN NoVersion ELSE leaving[t]]
          /\ linked' = [t \in Task |-> t \notin {u \in Task : at[u] = p} /\ linked[t]]
      BY DEF Lost
    <2> QED
      BY <2>1, UpdateFacts DEF ClaimInv, UpdateTypeOK, File
  <1>4. \A t \in Task : IF at[t] = p THEN step'[t] = "idle"
                        ELSE step'[t] = step[t] /\ at'[t] = at[t] /\ wanted'[t] = wanted[t] /\ leaving'[t] = leaving[t]
    BY DEF Lost
  <1>5. UpdateTypeOK'
    BY <1>2, <1>3 DEF ClaimInv, UpdateTypeOK
  <1>6. \A t \in Task : step'[t] # "idle" => /\ at[t] # p /\ step'[t] = step[t] /\ at'[t] = at[t]
                                              /\ wanted'[t] = wanted[t] /\ leaving'[t] = leaving[t]
    BY <1>4
  <1>7. TaskShape'
    <2>1. \A q \in Updater \ {p} : running'[q] = running[q] /\ busy'[q] = busy[q]
      BY <1>1 DEF ClaimInv, UpdateTypeOK
    <2>2. \A t \in Task : step'[t] # "idle" => at'[t] \in Updater \ {p} /\ running'[at'[t]] # NoVersion
      BY <1>6, <2>1 DEF ClaimInv, TaskShape
    <2>3. \A t \in Task : step'[t] \in Installing => busy'[at'[t]]
      BY <1>6, <2>1, <2>2, UpdateFacts DEF ClaimInv, TaskShape
    <2>4. \A t \in Task : step'[t] \in (Installing \ {"verify"}) \cup {"learn"} => wanted'[t] \in Version
      BY <1>6, UpdateFacts DEF ClaimInv, TaskShape
    <2>5. \A t \in Task : step'[t] \in {"unlink", "link", "install", "record", "restore", "keep"} => leaving'[t] \in Version
      BY <1>6 DEF ClaimInv, TaskShape
    <2>6. OneInstall'
      BY <1>6, UpdateFacts DEF ClaimInv, TaskShape, OneInstall
    <2> QED
      BY <2>2, <2>3, <2>4, <2>5, <2>6 DEF TaskShape
  <1> QED
    BY <1>5, <1>7 DEF ClaimInv

LEMMA ExecKeeps == ASSUME ClaimInv, NEW p \in Updater, Exec(p) PROVE ClaimInv'
  <1>1. UNCHANGED <<release, exe, prev, staged, aside, state, rollbacks, updateCrashes>>
    BY DEF Exec, exeVars
  <1>2. CASE running' = [running EXCEPT ![p] = exe] /\ Lost(p) /\ UNCHANGED updateFaults
    <2>1. exe \in File /\ updateFaults' \in Nat /\ updateCrashes' \in Nat
      BY <1>1, <1>2 DEF ClaimInv, UpdateTypeOK
    <2> QED
      BY <1>1, <1>2, <2>1, LostKeeps
  <1>3. CASE /\ IF exe = NoVersion THEN UNCHANGED updateFaults ELSE UpdateFault
             /\ armed' = [armed EXCEPT ![p] = FALSE]
             /\ UNCHANGED <<running, busy, candidate, verified, fetched, taskVars>>
    <2>1. updateFaults' \in Nat
      BY <1>3 DEF UpdateFault, ClaimInv, UpdateTypeOK
    <2>2. armed' \in [Updater -> BOOLEAN]
      BY <1>3 DEF ClaimInv, UpdateTypeOK
    <2>3. UpdateTypeOK'
      BY <1>1, <1>3, <2>1, <2>2 DEF ClaimInv, UpdateTypeOK, taskVars
    <2>4. TaskShape'
      BY <1>3, NoTask
    <2> QED
      BY <2>3, <2>4 DEF ClaimInv
  <1> QED
    BY <1>2, <1>3 DEF Exec

LEMMA UpdaterDiesKeeps == ASSUME ClaimInv, NEW p \in Updater, UpdaterDies(p) PROVE ClaimInv'
  <1>1. /\ updateCrashes' = updateCrashes + 1 /\ running' = [running EXCEPT ![p] = NoVersion] /\ Lost(p)
        /\ UNCHANGED <<release, exe, prev, staged, aside, state, rollbacks, updateFaults>>
    BY DEF UpdaterDies, exeVars
  <1>2. NoVersion \in File /\ updateFaults' \in Nat /\ updateCrashes' \in Nat
    BY <1>1 DEF ClaimInv, UpdateTypeOK, File
  <1> QED
    BY <1>1, <1>2, LostKeeps

LEMMA ClaimStepKeeps == ClaimInv /\ [UpdateNext]_updateVars => ClaimInv'
  <1> SUFFICES ASSUME ClaimInv, [UpdateNext]_updateVars PROVE ClaimInv'
    OBVIOUS
  <1>1. CASE PublishRelease
    BY <1>1, PublishReleaseKeeps
  <1>2. CASE \E p \in Updater : Fetch(p) \/ Exec(p) \/ UpdaterDies(p) \/ Start(p)
    BY <1>2, FetchKeeps, ExecKeeps, UpdaterDiesKeeps, StartKeeps
  <1>3. CASE \E p \in Updater, v \in Version : Report(p, v)
    BY <1>3, ReportKeeps
  <1>4. CASE \E t \in Task, p \in Updater : AskApply(t, p) \/ AskRollback(t, p)
    BY <1>4, AskApplyKeeps, AskRollbackKeeps
  <1>5. ASSUME NEW t \in Task, TaskStep(t) PROVE ClaimInv'
    <2>1. CASE CheckFirst(t) \/ LearnFirst(t) \/ ClaimUpdater(t)
      BY <2>1, CheckFirstKeeps, LearnFirstKeeps, ClaimUpdaterKeeps
    <2>2. CASE Stage(t) \/ Hash(t) \/ Unlink(t) \/ Link(t) \/ InstallStaged(t)
      BY <2>2, StageKeeps, HashKeeps, UnlinkKeeps, LinkKeeps, InstallStagedKeeps
    <2>3. CASE Verify(t) \/ SetAside(t) \/ Restore(t) \/ KeepReplaced(t)
      BY <2>3, VerifyKeeps, SetAsideKeeps, RestoreKeeps, KeepReplacedKeeps
    <2>4. CASE RecordApplied(t) \/ TaskFails(t)
      BY <2>4, RecordAppliedKeeps, TaskFailsKeeps
    <2> QED
      BY <1>5, <2>1, <2>2, <2>3, <2>4 DEF TaskStep
  <1>6. CASE UNCHANGED updateVars
    <2>1. UNCHANGED <<release, exe, prev, staged, aside, state, running, busy, candidate, verified, fetched, armed,
                      taskVars, rollbacks, updateCrashes, updateFaults>>
      BY <1>6 DEF updateVars, exeVars, sharedVars, updateBounds
    <2>2. UpdateTypeOK'
      BY <2>1 DEF ClaimInv, UpdateTypeOK, taskVars
    <2>3. TaskShape'
      BY <2>1, NoTask
    <2> QED
      BY <2>2, <2>3 DEF ClaimInv
  <1> QED
    BY <1>1, <1>2, <1>3, <1>4, <1>5, <1>6 DEF UpdateNext

-----------------------------------------------------------------------------
(* The files, for one process at the executable.                           *)

OneUpdater == \A p, q \in Updater : p = q

\* What is under which name, at every step of an install and of a rollback.
Placed(t) ==
  /\ step[t] \in {"hash", "unlink", "link", "install"} => staged[at[t]] = wanted[t]
  /\ step[t] \in {"unlink", "link"} => exe = leaving[t]
  /\ step[t] = "link" => prev = NoVersion
  /\ step[t] \in {"install", "record"} => prev = leaving[t]
  /\ step[t] \in {"record", "keep"} => exe = wanted[t]
  /\ step[t] \in {"aside", "restore"} => state # NoVersion /\ prev = state.sha /\ prev = wanted[t]
  /\ step[t] \in {"restore", "keep"} => aside[at[t]] = leaving[t]
  /\ step[t] \in {"install", "restore"} => linked[t] = HardLinks

UpdateInv ==
  /\ ClaimInv
  /\ \A t \in Task : Placed(t)
  /\ HardLinks => exe # NoVersion

LEMMA UpdateInvBegins == UpdateInit => UpdateInv
  <1> SUFFICES ASSUME UpdateInit PROVE UpdateInv
    OBVIOUS
  <1>1. \A t \in Task : step[t] = "idle"
    BY DEF UpdateInit
  <1>2. \A t \in Task : Placed(t)
    BY <1>1 DEF Placed
  <1>3. exe # NoVersion
    BY UpdateFacts DEF UpdateInit
  <1> QED
    BY <1>2, <1>3, ClaimInvBegins DEF UpdateInv

\* With one process, whoever installs is the only one.
LEMMA OthersPlaced ==
  ASSUME TaskShape', OneUpdater, NEW t \in Task, step'[t] \in Installing, Placed(t)' PROVE \A u \in Task : Placed(u)'
  <1>1. \A u \in Task \ {t} : step'[u] \notin Installing
    BY UpdateFacts DEF TaskShape, OneInstall, OneUpdater
  <1>2. \A u \in Task \ {t} : Placed(u)'
    BY <1>1 DEF Placed, Installing
  <1> QED
    BY <1>2

\* A step that leaves alone the files, and the tasks that have begun with them.
LEMMA Quiet ==
  ASSUME UpdateInv, UNCHANGED <<exe, prev, staged, aside, state>>,
         \A t \in Task : step'[t] \in Installing \ {"stage", "verify"} =>
           /\ step'[t] = step[t] /\ at'[t] = at[t] /\ wanted'[t] = wanted[t]
           /\ leaving'[t] = leaving[t] /\ linked'[t] = linked[t]
  PROVE  \A t \in Task : Placed(t)'
  <1> SUFFICES ASSUME NEW t \in Task PROVE Placed(t)'
    OBVIOUS
  <1>1. CASE step'[t] \in Installing \ {"stage", "verify"}
    <2>1. /\ step'[t] = step[t] /\ at'[t] = at[t] /\ wanted'[t] = wanted[t]
          /\ leaving'[t] = leaving[t] /\ linked'[t] = linked[t]
      BY <1>1
    <2>2. Placed(t)
      BY DEF UpdateInv
    <2> QED
      BY <2>1, <2>2 DEF Placed
  <1>2. CASE step'[t] \notin Installing \ {"stage", "verify"}
    BY <1>2 DEF Placed, Installing
  <1> QED
    BY <1>1, <1>2

\* A task answers, and the files are as they were.
LEMMA AnswerPlaces ==
  ASSUME UpdateInv, NEW t \in Task, Answer(t), UNCHANGED <<exe, prev, staged, aside, state>>
  PROVE  \A u \in Task : Placed(u)'
  <1>1. /\ step'[t] = "idle"
        /\ \A u \in Task \ {t} : step'[u] = step[u] /\ at'[u] = at[u] /\ wanted'[u] = wanted[u] /\ leaving'[u] = leaving[u]
    BY AnswerTypes DEF UpdateInv
  <1>2. \A u \in Task \ {t} : linked'[u] = linked[u]
    BY DEF Answer, UpdateInv, ClaimInv, UpdateTypeOK
  <1> QED
    BY <1>1, <1>2, UpdateFacts, Quiet

LEMMA StagePlaces == ASSUME UpdateInv, ClaimInv', OneUpdater, NEW t \in Task, Stage(t) PROVE UpdateInv'
  <1>1. /\ Move(t, "stage", "hash") /\ UNCHANGED <<at, state>>
        /\ staged' = [staged EXCEPT ![at[t]] = wanted[t]]
        /\ UNCHANGED <<exe, prev, aside, wanted, leaving, linked>>
    BY DEF Stage, exeVars, FileStep
  <1>2. step[t] = "stage" /\ step'[t] = "hash" /\ step[t] \in Installing /\ step'[t] \in Installing /\ step[t] # "idle"
    BY <1>1 DEF Move, UpdateInv, ClaimInv, UpdateTypeOK, Installing
  <1>3. at[t] \in Updater /\ Placed(t) /\ wanted[t] \in Version
    BY <1>2 DEF UpdateInv, ClaimInv, TaskShape
  <1>4. staged'[at[t]] = wanted[t]
    BY <1>1, <1>2, <1>3 DEF Placed, UpdateInv, ClaimInv, UpdateTypeOK
  <1>5. Placed(t)'
    BY <1>1, <1>2, <1>3, <1>4, UpdateFacts DEF Placed
  <1>6. HardLinks => exe' # NoVersion
    BY <1>1, <1>2, <1>3, <1>4, UpdateFacts DEF Placed, UpdateInv
  <1> QED
    BY <1>2, <1>5, <1>6, OthersPlaced DEF UpdateInv, ClaimInv

LEMMA HashPlaces == ASSUME UpdateInv, ClaimInv', OneUpdater, NEW t \in Task, Hash(t) PROVE UpdateInv'
  <1>1. /\ Move(t, "hash", "unlink") /\ UNCHANGED <<at, state>>
        /\ leaving' = [leaving EXCEPT ![t] = exe]
        /\ UNCHANGED <<exe, prev, staged, aside, wanted, linked>>
    BY DEF Hash, exeVars, FileStep
  <1>2. step[t] = "hash" /\ step'[t] = "unlink" /\ step[t] \in Installing /\ step'[t] \in Installing /\ step[t] # "idle"
    BY <1>1 DEF Move, UpdateInv, ClaimInv, UpdateTypeOK, Installing
  <1>3. at[t] \in Updater /\ Placed(t) /\ wanted[t] \in Version
    BY <1>2 DEF UpdateInv, ClaimInv, TaskShape
  <1>4. leaving'[t] = exe
    BY <1>1, <1>2, <1>3 DEF Placed, UpdateInv, ClaimInv, UpdateTypeOK
  <1>5. Placed(t)'
    BY <1>1, <1>2, <1>3, <1>4, UpdateFacts DEF Placed
  <1>6. HardLinks => exe' # NoVersion
    BY <1>1, <1>2, <1>3, <1>4, UpdateFacts DEF Placed, UpdateInv
  <1> QED
    BY <1>2, <1>5, <1>6, OthersPlaced DEF UpdateInv, ClaimInv

LEMMA UnlinkPlaces == ASSUME UpdateInv, ClaimInv', OneUpdater, NEW t \in Task, Unlink(t) PROVE UpdateInv'
  <1>1. /\ Move(t, "unlink", "link") /\ UNCHANGED <<at, state>>
        /\ prev' = NoVersion
        /\ UNCHANGED <<exe, staged, aside, wanted, leaving, linked>>
    BY DEF Unlink, exeVars, FileStep
  <1>2. step[t] = "unlink" /\ step'[t] = "link" /\ step[t] \in Installing /\ step'[t] \in Installing /\ step[t] # "idle"
    BY <1>1 DEF Move, UpdateInv, ClaimInv, UpdateTypeOK, Installing
  <1>3. at[t] \in Updater /\ Placed(t) /\ wanted[t] \in Version
    BY <1>2 DEF UpdateInv, ClaimInv, TaskShape
  <1>4. prev' = NoVersion
    BY <1>1, <1>2, <1>3 DEF Placed, UpdateInv, ClaimInv, UpdateTypeOK
  <1>5. Placed(t)'
    BY <1>1, <1>2, <1>3, <1>4, UpdateFacts DEF Placed
  <1>6. HardLinks => exe' # NoVersion
    BY <1>1, <1>2, <1>3, <1>4, UpdateFacts DEF Placed, UpdateInv
  <1> QED
    BY <1>2, <1>5, <1>6, OthersPlaced DEF UpdateInv, ClaimInv

LEMMA LinkPlaces == ASSUME UpdateInv, ClaimInv', OneUpdater, NEW t \in Task, Link(t) PROVE UpdateInv'
  <1>1. /\ Move(t, "link", "install") /\ UNCHANGED <<at, state>>
        /\ prev' = exe /\ linked' = [linked EXCEPT ![t] = HardLinks /\ prev = NoVersion]
        /\ exe' = (IF HardLinks /\ prev = NoVersion THEN exe ELSE NoVersion)
        /\ UNCHANGED <<staged, aside, wanted, leaving>>
    BY DEF Link, exeVars, FileStep
  <1>2. step[t] = "link" /\ step'[t] = "install" /\ step[t] \in Installing /\ step'[t] \in Installing /\ step[t] # "idle"
    BY <1>1 DEF Move, UpdateInv, ClaimInv, UpdateTypeOK, Installing
  <1>3. at[t] \in Updater /\ Placed(t) /\ wanted[t] \in Version
    BY <1>2 DEF UpdateInv, ClaimInv, TaskShape
  <1>4. linked'[t] = (HardLinks /\ prev = NoVersion)
    BY <1>1, <1>2, <1>3 DEF Placed, UpdateInv, ClaimInv, UpdateTypeOK
  <1>5. Placed(t)'
    BY <1>1, <1>2, <1>3, <1>4, UpdateFacts DEF Placed
  <1>6. HardLinks => exe' # NoVersion
    BY <1>1, <1>2, <1>3, <1>4, UpdateFacts DEF Placed, UpdateInv
  <1> QED
    BY <1>2, <1>5, <1>6, OthersPlaced DEF UpdateInv, ClaimInv

LEMMA InstallStagedPlaces == ASSUME UpdateInv, ClaimInv', OneUpdater, NEW t \in Task, InstallStaged(t) PROVE UpdateInv'
  <1>1. /\ Move(t, "install", "record") /\ UNCHANGED <<at, state>>
        /\ exe' = staged[at[t]] /\ staged' = [staged EXCEPT ![at[t]] = NoVersion]
        /\ UNCHANGED <<prev, aside, wanted, leaving, linked>>
    BY DEF InstallStaged, exeVars, FileStep
  <1>2. step[t] = "install" /\ step'[t] = "record" /\ step[t] \in Installing /\ step'[t] \in Installing /\ step[t] # "idle"
    BY <1>1 DEF Move, UpdateInv, ClaimInv, UpdateTypeOK, Installing
  <1>3. at[t] \in Updater /\ Placed(t) /\ wanted[t] \in Version
    BY <1>2 DEF UpdateInv, ClaimInv, TaskShape
  <1>4. exe' \in Version
    BY <1>1, <1>2, <1>3 DEF Placed, UpdateInv, ClaimInv, UpdateTypeOK
  <1>5. Placed(t)'
    BY <1>1, <1>2, <1>3, <1>4, UpdateFacts DEF Placed
  <1>6. HardLinks => exe' # NoVersion
    BY <1>1, <1>2, <1>3, <1>4, UpdateFacts DEF Placed, UpdateInv
  <1> QED
    BY <1>2, <1>5, <1>6, OthersPlaced DEF UpdateInv, ClaimInv

LEMMA SetAsidePlaces == ASSUME UpdateInv, ClaimInv', OneUpdater, NEW t \in Task, SetAside(t) PROVE UpdateInv'
  <1>1. /\ Move(t, "aside", "restore") /\ UNCHANGED <<at, state>>
        /\ exe # NoVersion /\ aside' = [aside EXCEPT ![at[t]] = exe] /\ leaving' = [leaving EXCEPT ![t] = exe]
        /\ linked' = [linked EXCEPT ![t] = HardLinks] /\ exe' = (IF HardLinks THEN exe ELSE NoVersion)
        /\ UNCHANGED <<prev, staged, wanted>>
    BY DEF SetAside, exeVars, FileStep
  <1>2. step[t] = "aside" /\ step'[t] = "restore" /\ step[t] \in Installing /\ step'[t] \in Installing /\ step[t] # "idle"
    BY <1>1 DEF Move, UpdateInv, ClaimInv, UpdateTypeOK, Installing
  <1>3. at[t] \in Updater /\ Placed(t) /\ wanted[t] \in Version
    BY <1>2 DEF UpdateInv, ClaimInv, TaskShape
  <1>4. aside'[at[t]] = exe /\ leaving'[t] = exe /\ linked'[t] = HardLinks
    BY <1>1, <1>2, <1>3 DEF Placed, UpdateInv, ClaimInv, UpdateTypeOK
  <1>5. Placed(t)'
    BY <1>1, <1>2, <1>3, <1>4, UpdateFacts DEF Placed
  <1>6. HardLinks => exe' # NoVersion
    BY <1>1, <1>2, <1>3, <1>4, UpdateFacts DEF Placed, UpdateInv
  <1> QED
    BY <1>2, <1>5, <1>6, OthersPlaced DEF UpdateInv, ClaimInv

LEMMA RestorePlaces == ASSUME UpdateInv, ClaimInv', OneUpdater, NEW t \in Task, Restore(t) PROVE UpdateInv'
  <1>1. /\ Move(t, "restore", "keep") /\ UNCHANGED <<at, state>>
        /\ exe' = prev /\ prev' = NoVersion /\ prev # NoVersion
        /\ UNCHANGED <<staged, aside, wanted, leaving, linked>>
    BY DEF Restore, exeVars, FileStep
  <1>2. step[t] = "restore" /\ step'[t] = "keep" /\ step[t] \in Installing /\ step'[t] \in Installing /\ step[t] # "idle"
    BY <1>1 DEF Move, UpdateInv, ClaimInv, UpdateTypeOK, Installing
  <1>3. at[t] \in Updater /\ Placed(t) /\ wanted[t] \in Version
    BY <1>2 DEF UpdateInv, ClaimInv, TaskShape
  <1>4. exe' = wanted[t]
    BY <1>1, <1>2, <1>3 DEF Placed, UpdateInv, ClaimInv, UpdateTypeOK
  <1>5. Placed(t)'
    BY <1>1, <1>2, <1>3, <1>4, UpdateFacts DEF Placed
  <1>6. HardLinks => exe' # NoVersion
    BY <1>1, <1>2, <1>3, <1>4, UpdateFacts DEF Placed, UpdateInv
  <1> QED
    BY <1>2, <1>5, <1>6, OthersPlaced DEF UpdateInv, ClaimInv

LEMMA KeepReplacedPlaces == ASSUME UpdateInv, ClaimInv', OneUpdater, NEW t \in Task, KeepReplaced(t) PROVE UpdateInv'
  <1>1. /\ Move(t, "keep", "record") /\ UNCHANGED <<at, state>>
        /\ prev' = aside[at[t]] /\ aside' = [aside EXCEPT ![at[t]] = NoVersion]
        /\ UNCHANGED <<exe, staged, wanted, leaving, linked>>
    BY DEF KeepReplaced, exeVars, FileStep
  <1>2. step[t] = "keep" /\ step'[t] = "record" /\ step[t] \in Installing /\ step'[t] \in Installing /\ step[t] # "idle"
    BY <1>1 DEF Move, UpdateInv, ClaimInv, UpdateTypeOK, Installing
  <1>3. at[t] \in Updater /\ Placed(t) /\ wanted[t] \in Version
    BY <1>2 DEF UpdateInv, ClaimInv, TaskShape
  <1>4. prev' = leaving[t]
    BY <1>1, <1>2, <1>3 DEF Placed, UpdateInv, ClaimInv, UpdateTypeOK
  <1>5. Placed(t)'
    BY <1>1, <1>2, <1>3, <1>4, UpdateFacts DEF Placed
  <1>6. HardLinks => exe' # NoVersion
    BY <1>1, <1>2, <1>3, <1>4, UpdateFacts DEF Placed, UpdateInv
  <1> QED
    BY <1>2, <1>5, <1>6, OthersPlaced DEF UpdateInv, ClaimInv

LEMMA VerifyPlaces == ASSUME UpdateInv, ClaimInv', OneUpdater, NEW t \in Task, Verify(t) PROVE UpdateInv'
  <1>1. step[t] = "verify" /\ step[t] \in Installing /\ UNCHANGED <<exe, prev, staged, aside, state, running>>
    BY DEF Verify, Installing, exeVars
  <1>2. CASE Restorable
    <2>1. /\ step' = [step EXCEPT ![t] = "aside"] /\ wanted' = [wanted EXCEPT ![t] = prev]
          /\ state # NoVersion /\ prev = state.sha
      BY <1>2 DEF Verify, Restorable, Move
    <2>2. step'[t] = "aside" /\ wanted'[t] = prev /\ step'[t] \in Installing
      BY <2>1 DEF UpdateInv, ClaimInv, UpdateTypeOK, Installing
    <2>3. Placed(t)'
      BY <1>1, <2>1, <2>2 DEF Placed
    <2> QED
      BY <1>1, <2>2, <2>3, OthersPlaced DEF UpdateInv, ClaimInv
  <1>3. CASE ~Restorable
    <2>1. Answer(t)
      BY <1>3 DEF Verify, EndTask
    <2>2. \A u \in Task : Placed(u)'
      BY <1>1, <2>1, AnswerPlaces DEF UpdateInv
    <2> QED
      BY <1>1, <2>2 DEF UpdateInv
  <1> QED
    BY <1>2, <1>3

\* A rename that fails is undone.
LEMMA FailureKeepsExe == ASSUME UpdateInv, NEW t \in Task, TaskFails(t) PROVE HardLinks => exe' # NoVersion
  <1>1. Placed(t)
    BY DEF UpdateInv
  <1>2. exe' = exe \/ (step[t] \in {"install", "restore"} /\ ~linked[t])
    BY DEF TaskFails, exeVars, Installing
  <1> QED
    BY <1>1, <1>2 DEF Placed, UpdateInv

LEMMA EndsPlace ==
  ASSUME UpdateInv, ClaimInv', OneUpdater, NEW t \in Task, RecordApplied(t) \/ TaskFails(t) PROVE UpdateInv'
  <1>1. step[t] \in Installing /\ Answer(t)
    BY DEF RecordApplied, TaskFails, EndTask, Installing
  <1>2. \A u \in Task : step'[u] = IF u = t THEN "idle" ELSE step[u]
    BY <1>1 DEF Answer, UpdateInv, ClaimInv, UpdateTypeOK
  <1>3. \A u \in Task \ {t} : step[u] \notin Installing
    BY <1>1, UpdateFacts DEF UpdateInv, ClaimInv, TaskShape, OneInstall, OneUpdater
  <1>4. \A u \in Task : step'[u] \notin Installing
    BY <1>2, <1>3, UpdateFacts
  <1>5. \A u \in Task : Placed(u)'
    BY <1>4 DEF Placed, Installing
  <1>6. HardLinks => exe' # NoVersion
    BY FailureKeepsExe DEF RecordApplied, exeVars, UpdateInv
  <1> QED
    BY <1>5, <1>6 DEF UpdateInv

\* Everything else leaves the files alone.
LEMMA RequestPlaces ==
  ASSUME UpdateInv, NEW t \in Task,
         \/ CheckFirst(t) \/ LearnFirst(t) \/ ClaimUpdater(t)
         \/ \E p \in Updater : AskApply(t, p) \/ AskRollback(t, p)
  PROVE  (\A u \in Task : Placed(u)') /\ exe' = exe
  <1>1. UNCHANGED <<exe, prev, staged, aside, state>>
    BY DEF CheckFirst, LearnFirst, ClaimUpdater, AskApply, AskRollback, exeVars
  <1>2. CASE Answer(t)
    BY <1>1, <1>2, AnswerPlaces
  <1>3. CASE ~Answer(t)
    <2>1. \E s \in {"learn", "claim", "stage", "check", "verify"} : step' = [step EXCEPT ![t] = s]
      BY <1>3 DEF CheckFirst, LearnFirst, ClaimUpdater, AskApply, AskRollback, Move
    <2>2. leaving' = leaving /\ linked' = linked
      BY <1>3 DEF CheckFirst, LearnFirst, ClaimUpdater, AskApply, AskRollback
    <2>3. /\ at' = at \/ \E p \in Updater : at' = [at EXCEPT ![t] = p]
          /\ wanted' = wanted \/ \E v : wanted' = [wanted EXCEPT ![t] = v]
      BY <1>3 DEF CheckFirst, LearnFirst, ClaimUpdater, AskApply, AskRollback
    <2>4. /\ step'[t] \notin Installing \ {"stage", "verify"}
          /\ \A u \in Task \ {t} : step'[u] = step[u]
      BY <2>1 DEF UpdateInv, ClaimInv, UpdateTypeOK, Installing
    <2>5. \A u \in Task \ {t} : at'[u] = at[u] /\ wanted'[u] = wanted[u]
      BY <2>3 DEF UpdateInv, ClaimInv, UpdateTypeOK
    <2> QED
      BY <1>1, <2>2, <2>4, <2>5, Quiet
  <1> QED
    BY <1>1, <1>2, <1>3

LEMMA ProcessPlaces ==
  ASSUME UpdateInv,
         \/ PublishRelease \/ UNCHANGED updateVars
         \/ \E p \in Updater : Fetch(p) \/ Exec(p) \/ UpdaterDies(p) \/ Start(p) \/ \E v \in Version : Report(p, v)
  PROVE  (\A t \in Task : Placed(t)') /\ exe' = exe
  <1>1. UNCHANGED <<exe, prev, staged, aside, state>>
    BY DEF PublishRelease, Fetch, Exec, UpdaterDies, Start, Report, exeVars, updateVars
  <1>2. UNCHANGED taskVars \/ \E p \in Updater : Lost(p)
    BY DEF PublishRelease, Fetch, Exec, UpdaterDies, Start, Report, updateVars
  <1>3. CASE UNCHANGED taskVars
    BY <1>1, <1>3, Quiet DEF taskVars
  <1>4. CASE \E p \in Updater : Lost(p)
    <2>1. PICK p \in Updater : Lost(p)
      BY <1>4
    <2>2. \A t \in Task : IF at[t] = p THEN step'[t] = "idle"
                          ELSE /\ step'[t] = step[t] /\ at'[t] = at[t] /\ wanted'[t] = wanted[t]
                               /\ leaving'[t] = leaving[t] /\ linked'[t] = linked[t]
      BY <2>1 DEF Lost, UpdateInv, ClaimInv, UpdateTypeOK
    <2> QED
      BY <1>1, <2>2, UpdateFacts, Quiet
  <1> QED
    BY <1>1, <1>2, <1>3, <1>4

LEMMA UpdateStepKeeps == UpdateInv /\ OneUpdater /\ [UpdateNext]_updateVars => UpdateInv'
  <1> SUFFICES ASSUME UpdateInv, OneUpdater, [UpdateNext]_updateVars PROVE UpdateInv'
    OBVIOUS
  <1>1. ClaimInv'
    BY ClaimStepKeeps DEF UpdateInv
  <1>2. CASE \/ PublishRelease \/ UNCHANGED updateVars
             \/ \E p \in Updater : Fetch(p) \/ Exec(p) \/ UpdaterDies(p) \/ Start(p) \/ \E v \in Version : Report(p, v)
    BY <1>1, <1>2, ProcessPlaces DEF UpdateInv
  <1>3. CASE \E t \in Task, p \in Updater : AskApply(t, p) \/ AskRollback(t, p)
    BY <1>1, <1>3, RequestPlaces DEF UpdateInv
  <1>4. ASSUME NEW t \in Task, TaskStep(t) PROVE UpdateInv'
    <2>1. CASE CheckFirst(t) \/ LearnFirst(t) \/ ClaimUpdater(t)
      BY <1>1, <2>1, RequestPlaces DEF UpdateInv
    <2>2. CASE Stage(t) \/ Hash(t) \/ Unlink(t) \/ Link(t) \/ InstallStaged(t)
      BY <1>1, <2>2, StagePlaces, HashPlaces, UnlinkPlaces, LinkPlaces, InstallStagedPlaces
    <2>3. CASE Verify(t) \/ SetAside(t) \/ Restore(t) \/ KeepReplaced(t)
      BY <1>1, <2>3, VerifyPlaces, SetAsidePlaces, RestorePlaces, KeepReplacedPlaces
    <2>4. CASE RecordApplied(t) \/ TaskFails(t)
      BY <1>1, <2>4, EndsPlace
    <2> QED
      BY <1>4, <2>1, <2>2, <2>3, <2>4 DEF TaskStep
  <1> QED
    BY <1>2, <1>3, <1>4 DEF UpdateNext

\* What the invariant says of a rollback's rename and of an install's end.
LEMMA RestoresRecorded ==
  ASSUME UpdateInv, NEW t \in Task, step[t] = "restore" PROVE prev = state.sha
  BY DEF UpdateInv, Placed

LEMMA RecordsReversible ==
  ASSUME UpdateInv, NEW t \in Task, step[t] = "record", RecordApplied(t)
  PROVE  prev = leaving[t] /\ prev = state'.sha /\ exe = wanted[t]
  <1>1. prev = leaving[t] /\ exe = wanted[t]
    BY DEF UpdateInv, Placed
  <1>2. state'.sha = leaving[t]
    BY DEF RecordApplied, Recorded
  <1> QED
    BY <1>1, <1>2

\* A set of numbers that is not empty has a least one.
LEMMA Least ==
  ASSUME NEW T \in SUBSET Nat, T # {}
  PROVE  \E x \in T : \A y \in T : x <= y
  <1> DEFINE R == OpToRel(<, Nat)
  <1>1. \E x \in T : \A y \in T : <<y, x>> \notin R
    BY NatLessThanWellFounded, WFMin
  <1>2. \A x, y \in Nat : y < x => <<y, x>> \in R
    BY DEF OpToRel
  <1> HIDE DEF R
  <1>3. PICK x \in T : \A y \in T : <<y, x>> \notin R
    BY <1>1
  <1>4. ASSUME NEW y \in T PROVE x <= y
    <2>1. x \in Nat /\ y \in Nat
      OBVIOUS
    <2>2. ~(y < x)
      BY <1>2, <1>3, <2>1
    <2> QED
      BY <2>1, <2>2
  <1> QED
    BY <1>4

-----------------------------------------------------------------------------
(* The scheduler of Pulse work.                                            *)

SchedulerInv ==
  /\ loop \in {"take", "select", "stopped"} /\ due \subseteq Periodic /\ marked \subseteq Periodic
  /\ push \in [running : BOOLEAN, queued : BOOLEAN]
  /\ forced \in Target \cup {0} /\ queued \subseteq Target
  /\ commands \in Seq(Target \cup {Completion}) /\ Len(commands) <= MaxQueue
  /\ \A e \in ended : e.rows \in BOOLEAN
  /\ unsent \in BOOLEAN /\ arrivals \in 0..MaxArrival

LEMMA SchedulerBounds == MaxTarget \in Nat /\ MaxQueue \in Nat /\ MaxArrival \in Nat /\ Target \subseteq Nat
  BY SchedulerAssumption DEF Target

LEMMA SchedulerInvBegins == SchedulerInit => SchedulerInv
  <1> SUFFICES ASSUME SchedulerInit PROVE SchedulerInv
    OBVIOUS
  <1>1. push \in [running : BOOLEAN, queued : BOOLEAN]
    BY DEF SchedulerInit
  <1>2. commands \in Seq(Target \cup {Completion}) /\ Len(commands) <= MaxQueue
    BY SchedulerBounds DEF SchedulerInit
  <1>3. /\ loop = "take" /\ due = Periodic /\ marked = {} /\ forced = 0 /\ queued = {} /\ ended = {}
        /\ unsent = FALSE /\ arrivals = 0 /\ 0 \in 0..MaxArrival
    BY SchedulerBounds DEF SchedulerInit
  <1> QED
    BY <1>1, <1>2, <1>3 DEF SchedulerInv

LEMMA SchedulerTypes == SchedulerInv => SchedulerTypeOK
  BY DEF SchedulerInv, SchedulerTypeOK

LEMMA Triggers ==
  ASSUME NEW p \in [running : BOOLEAN, queued : BOOLEAN]
  PROVE  CompletionTriggered(p) \in [running : BOOLEAN, queued : BOOLEAN]
  BY DEF CompletionTriggered

LEMMA SchedulerStepKeeps == ASSUME SchedulerInv, SchedulerNext \/ UNCHANGED schedulerVars PROVE SchedulerInv'
  <1> USE SchedulerBounds DEF SchedulerInv
  <1>1. CASE TakeDue
    <2>1. queued # {} => First(queued) \in queued
      <3>1. ASSUME queued # {} PROVE \E t \in queued : \A u \in queued : t <= u
        BY <3>1, Least
      <3> QED
        BY <3>1 DEF First
    <2>2. Started \subseteq due
      BY DEF Started
    <2>3. /\ loop' = "select" /\ marked' = marked \cup Started /\ due' = due \ Started
          /\ push' = push \/ push' = [running |-> TRUE, queued |-> FALSE]
          /\ \/ forced' = forced /\ queued' = queued
             \/ queued # {} /\ forced' = First(queued) /\ queued' = queued \ {First(queued)}
          /\ unsent' \in BOOLEAN /\ UNCHANGED <<commands, ended, arrivals>>
      BY <1>1 DEF TakeDue, ForceReady
    <2>4. push' \in [running : BOOLEAN, queued : BOOLEAN]
      <3>1. [running |-> TRUE, queued |-> FALSE] \in [running : BOOLEAN, queued : BOOLEAN]
        OBVIOUS
      <3> QED
        BY <2>3, <3>1
    <2>5. forced' \in Target \cup {0} /\ queued' \subseteq Target
      BY <2>1, <2>3
    <2> QED
      BY <2>2, <2>3, <2>4, <2>5
  <1>2. CASE Sleeps
    BY <1>2 DEF Sleeps
  <1>3. CASE Command
    <2>1. /\ Tail(commands) \in Seq(Target \cup {Completion}) /\ Len(Tail(commands)) <= MaxQueue
          /\ Head(commands) \in Target \cup {Completion}
      BY <1>3 DEF Command
    <2>2. /\ loop' = "take" /\ commands' = Tail(commands) /\ UNCHANGED <<due, marked, forced, ended, unsent, arrivals>>
          /\ push' = push \/ push' = CompletionTriggered(push)
          /\ queued' = queued \/ (Head(commands) # Completion /\ queued' = queued \cup {Head(commands)})
      BY <1>3 DEF Command
    <2>3. push' \in [running : BOOLEAN, queued : BOOLEAN]
      BY <2>2, Triggers
    <2> QED
      BY <2>1, <2>2, <2>3
  <1>4. CASE Joined
    <2>1. PICK e \in ended :
            /\ ended' = ended \ {e}
            /\ marked' = IF e.job[1] = "periodic" THEN marked \ {e.job[2]} ELSE marked
            /\ forced' = IF e.job[1] = "force" THEN 0 ELSE forced
            /\ LET p == IF e.job = PushJob THEN [push EXCEPT !.running = FALSE] ELSE push IN
                 push' = IF e.rows THEN CompletionTriggered(p) ELSE p
            /\ unsent' = (unsent \/ e.rows)
      BY <1>4 DEF Joined
    <2>2. [push EXCEPT !.running = FALSE] \in [running : BOOLEAN, queued : BOOLEAN]
      OBVIOUS
    <2>3. push' \in [running : BOOLEAN, queued : BOOLEAN]
      BY <2>1, <2>2, Triggers
    <2>4. loop' = "take" /\ UNCHANGED <<due, queued, commands, arrivals>>
      BY <1>4 DEF Joined
    <2> QED
      BY <2>1, <2>3, <2>4
  <1>5. CASE StopScheduler
    BY <1>5 DEF StopScheduler
  <1>6. CASE JobStep
    <2>1. ASSUME NEW job, NEW rows \in BOOLEAN, ended' = ended \cup {[job |-> job, rows |-> rows]}
          PROVE  \A e \in ended' : e.rows \in BOOLEAN
      <3>1. [job |-> job, rows |-> rows].rows = rows
        OBVIOUS
      <3> QED
        BY <2>1, <3>1
    <2>2. UNCHANGED <<loop, due, marked, push, forced, queued, commands, unsent, arrivals>>
      BY <1>6 DEF JobStep, ForcedEnds, PushEnds, CollectionEnds
    <2>3. \E job : \E rows \in BOOLEAN : ended' = ended \cup {[job |-> job, rows |-> rows]}
      <3>1. CASE ForcedEnds
        BY <3>1 DEF ForcedEnds
      <3>2. CASE PushEnds
        BY <3>2 DEF PushEnds
      <3>3. ASSUME NEW j \in Periodic, CollectionEnds(j)
            PROVE  \E job : \E rows \in BOOLEAN : ended' = ended \cup {[job |-> job, rows |-> rows]}
        BY <3>3 DEF CollectionEnds
      <3> QED
        BY <1>6, <3>1, <3>2, <3>3 DEF JobStep
    <2>4. \A e \in ended' : e.rows \in BOOLEAN
      BY <2>1, <2>3
    <2> QED
      BY <2>2, <2>4
  <1>7. ASSUME NEW j \in Periodic, ComesDue(j) PROVE SchedulerInv'
    BY <1>7 DEF ComesDue, Arrives
  <1>8. ASSUME NEW c \in Target \cup {Completion}, Notify(c) PROVE SchedulerInv'
    <2>1. Append(commands, c) \in Seq(Target \cup {Completion}) /\ Len(Append(commands, c)) = Len(commands) + 1
      OBVIOUS
    <2>2. Len(commands) \in Nat
      OBVIOUS
    <2>3. Len(commands') <= MaxQueue
      BY <1>8, <2>1, <2>2 DEF Notify
    <2> QED
      BY <1>8, <2>1, <2>3 DEF Notify, Arrives
  <1>9. CASE UNCHANGED schedulerVars
    BY <1>9 DEF schedulerVars
  <1> QED
    BY <1>1, <1>2, <1>3, <1>4, <1>5, <1>6, <1>7, <1>8, <1>9 DEF SchedulerNext, SchedulerStep

-----------------------------------------------------------------------------
(* The credential of a Claude profile.                                     *)

Pair == 0..MaxPair
Entry == [authoritative : Pair, active : Pair]
Poll == [at : {"idle", "sent", "refresh", "locked", "granted"}, active : Pair, rejected : Pair, got : Pair,
         tried : BOOLEAN]

TokensShape ==
  /\ policy \in {"persist", "never"}
  /\ provider \in [pair : 1..MaxPair, accepts : BOOLEAN]
  /\ expired \in 0..provider.pair /\ credential \in 1..provider.pair
  /\ holder \in Collector \cup {0}
  /\ poll \in [Collector -> Poll] /\ kept \in [Collector -> Entry]
  /\ outcome \in [Collector -> {"none", "ok", "failed"}]
  /\ lost \in BOOLEAN /\ spentAgain \in BOOLEAN

\* Whoever is about to spend the file's token, or has just done so, holds the
\* lock; what it was granted is the newest pair there is.
TokensInv ==
  /\ TokensShape /\ SpentOnce
  /\ \A c \in Collector : poll[c].at \in {"locked", "granted"} => holder = c
  /\ \A c \in Collector : poll[c].at = "granted" => poll[c].got = provider.pair

LEMMA TokensInvBegins == TokensInit => TokensInv
  <1> SUFFICES ASSUME TokensInit PROVE TokensInv
    OBVIOUS
  <1> USE TokensAssumption DEF TokensInit
  <1>1. /\ Rest \in Poll /\ Rest.at = "idle" /\ NoEntry \in Entry
    BY DEF Rest, Poll, NoEntry, Entry, Pair
  <1>2. provider \in [pair : 1..MaxPair, accepts : BOOLEAN] /\ provider.pair = 1
    OBVIOUS
  <1>3. /\ poll \in [Collector -> Poll] /\ kept \in [Collector -> Entry]
        /\ outcome \in [Collector -> {"none", "ok", "failed"}]
    BY <1>1
  <1>4. expired \in 0..provider.pair /\ credential \in 1..provider.pair /\ holder \in Collector \cup {0}
    BY <1>2
  <1>5. TokensShape
    BY <1>2, <1>3, <1>4 DEF TokensShape
  <1> QED
    BY <1>1, <1>2, <1>5 DEF TokensInv, SpentOnce

LEMMA TokensTypes == TokensInv => TokensTypeOK /\ SpentOnce
  BY DEF TokensInv, TokensShape, TokensTypeOK, Poll, Entry, Pair

\* The pairs in use are pairs.
LEMMA PairsAre ==
  ASSUME TokensInv
  PROVE  /\ MaxPair \in Nat /\ provider.pair \in 1..MaxPair /\ provider.pair \in Pair /\ credential \in Pair
         /\ expired \in Pair /\ provider.accepts \in BOOLEAN
         /\ Rest \in Poll /\ Rest.at = "idle" /\ NoEntry \in Entry
  BY TokensAssumption DEF TokensInv, TokensShape, Rest, Poll, NoEntry, Entry, Pair

\* A step that concerns one collector, which neither leaves nor takes a grant.
LEMMA OneCollector ==
  ASSUME TokensInv, NEW c \in Collector, NEW to \in Poll, poll[c].at # "granted", to.at # "granted",
         poll' = [poll EXCEPT ![c] = to], kept' \in [Collector -> Entry],
         outcome' \in [Collector -> {"none", "ok", "failed"}],
         \/ holder' = holder /\ (to.at = "locked" => holder = c)
         \/ holder = c /\ holder' = 0 /\ to.at # "locked"
         \/ holder = 0 /\ holder' = c,
         spentAgain' = spentAgain,
         UNCHANGED <<policy, provider, expired, credential, lost>>
  PROVE  TokensInv'
  <1>1. poll' \in [Collector -> Poll] /\ poll'[c] = to /\ \A d \in Collector \ {c} : poll'[d] = poll[d]
    BY DEF TokensInv, TokensShape
  <1>2. TokensShape'
    BY <1>1 DEF TokensInv, TokensShape
  <1>3. \A d \in Collector : poll'[d].at = "granted" <=> poll[d].at = "granted"
    BY <1>1
  <1>4. SpentOnce'
    BY <1>3 DEF TokensInv, SpentOnce
  <1>5. ASSUME NEW d \in Collector, poll'[d].at \in {"locked", "granted"} PROVE holder' = d
    <2>1. CASE d = c
      BY <1>1, <1>5, <2>1
    <2>2. CASE d # c
      <3>1. holder = d
        BY <1>1, <1>5, <2>2 DEF TokensInv
      <3> QED
        BY <2>2, <3>1, TokensAssumption
    <2> QED
      BY <2>1, <2>2
  <1>6. \A d \in Collector : poll'[d].at = "granted" => poll'[d].got = provider'.pair
    BY <1>1 DEF TokensInv
  <1> QED
    BY <1>2, <1>4, <1>5, <1>6 DEF TokensInv

LEMMA ProviderKeeps == ASSUME TokensInv, ExpirePair \/ SessionRotates PROVE TokensInv'
  <1>1. CASE ExpirePair
    <2>1. /\ provider' = [provider EXCEPT !.accepts = FALSE] /\ (expired' = provider.pair \/ expired' = expired)
          /\ UNCHANGED <<policy, credential, holder, poll, kept, outcome, lost, spentAgain>>
      BY <1>1 DEF ExpirePair
    <2>2. provider'.pair = provider.pair /\ provider' \in [pair : 1..MaxPair, accepts : BOOLEAN]
      BY <2>1 DEF TokensInv, TokensShape
    <2>3. expired' \in 0..provider.pair
      BY <2>1, PairsAre DEF TokensInv, TokensShape
    <2> QED
      BY <2>1, <2>2, <2>3 DEF TokensInv, TokensShape, SpentOnce
  <1>2. CASE SessionRotates
    <2>1. /\ holder = 0 /\ provider.pair < MaxPair /\ provider' = [pair |-> provider.pair + 1, accepts |-> TRUE]
          /\ credential' = provider.pair + 1 /\ lost' = FALSE
          /\ UNCHANGED <<policy, expired, holder, poll, kept, outcome, spentAgain>>
      BY <1>2 DEF SessionRotates
    <2>2. /\ provider'.pair = provider.pair + 1 /\ provider' \in [pair : 1..MaxPair, accepts : BOOLEAN]
          /\ expired' \in 0..provider'.pair /\ credential' \in 1..provider'.pair
      BY <2>1, PairsAre DEF TokensInv, TokensShape
    <2>3. \A c \in Collector : poll[c].at \notin {"locked", "granted"}
      BY <2>1, TokensAssumption DEF TokensInv
    <2> QED
      BY <2>1, <2>2, <2>3 DEF TokensInv, TokensShape, SpentOnce
  <1> QED
    BY <1>1, <1>2

LEMMA PollKeeps ==
  ASSUME TokensInv, NEW c \in Collector,
         \/ StartPoll(c) \/ HandleResponse(c) \/ RequestFails(c) \/ Acquire(c) \/ AcquireTimesOut(c)
         \/ Adopt(c) \/ NotDurable(c) \/ CollectorDies(c)
  PROVE  TokensInv'
  <1>1. /\ poll[c] \in Poll /\ kept[c] \in Entry /\ kept \in [Collector -> Entry]
        /\ outcome \in [Collector -> {"none", "ok", "failed"}]
        /\ poll[c].at \in {"locked", "granted"} => holder = c
    BY DEF TokensInv, TokensShape
  <1>2. CASE StartPoll(c)
    <2> DEFINE e == Prepared(kept[c], credential)
               to == [Rest EXCEPT !.at = "sent", !.active = e.active, !.rejected = e.authoritative]
    <2>1. e \in Entry
      BY <1>1, PairsAre DEF Prepared, Entry
    <2>2. to \in Poll /\ to.at = "sent"
      <3>1. e.active \in Pair /\ e.authoritative \in Pair
        BY <2>1 DEF Entry
      <3> HIDE DEF e
      <3> QED
        BY <3>1, PairsAre DEF Rest, Poll
    <2>3. /\ poll[c].at = "idle" /\ poll' = [poll EXCEPT ![c] = to] /\ kept' = [kept EXCEPT ![c] = e]
          /\ UNCHANGED <<policy, provider, expired, credential, holder, outcome, lost, spentAgain>>
      BY <1>2 DEF StartPoll
    <2>4. kept' \in [Collector -> Entry]
      BY <1>1, <2>1, <2>3
    <2> HIDE DEF to, e
    <2> QED
      BY <1>1, <2>2, <2>3, <2>4, OneCollector
  <1>3. CASE HandleResponse(c)
    <2> DEFINE to == [poll[c] EXCEPT !.at = "refresh", !.tried = TRUE]
    <2>1. to \in Poll /\ to.at = "refresh"
      BY <1>1 DEF Poll
    <2>2. /\ poll[c].at = "sent"
          /\ UNCHANGED <<policy, provider, expired, credential, holder, kept, lost, spentAgain>>
          /\ poll' = [poll EXCEPT ![c] = Rest] \/ poll' = [poll EXCEPT ![c] = to]
          /\ outcome' \in [Collector -> {"none", "ok", "failed"}]
      BY <1>1, <1>3 DEF HandleResponse, End
    <2> HIDE DEF to
    <2>3. CASE poll' = [poll EXCEPT ![c] = Rest]
      BY <1>1, <2>2, <2>3, PairsAre, OneCollector
    <2>4. CASE poll' = [poll EXCEPT ![c] = to]
      BY <1>1, <2>1, <2>2, <2>4, OneCollector
    <2> QED
      BY <2>2, <2>3, <2>4
  <1>4. CASE RequestFails(c) \/ AcquireTimesOut(c)
    <2>1. /\ poll[c].at \in {"sent", "refresh"} /\ poll' = [poll EXCEPT ![c] = Rest]
          /\ UNCHANGED <<policy, provider, expired, credential, holder, kept, lost, spentAgain>>
          /\ outcome' \in [Collector -> {"none", "ok", "failed"}]
      BY <1>1, <1>4 DEF RequestFails, AcquireTimesOut, End
    <2> QED
      BY <1>1, <2>1, PairsAre, OneCollector
  <1>5. CASE Acquire(c)
    <2> DEFINE to == [poll[c] EXCEPT !.at = "locked"]
    <2>1. to \in Poll /\ to.at = "locked"
      BY <1>1 DEF Poll
    <2>2. /\ poll[c].at = "refresh" /\ poll' = [poll EXCEPT ![c] = to] /\ holder = 0 /\ holder' = c
          /\ UNCHANGED <<policy, provider, expired, credential, kept, outcome, lost, spentAgain>>
      BY <1>5 DEF Acquire
    <2> HIDE DEF to
    <2> QED
      BY <1>1, <2>1, <2>2, OneCollector
  <1>6. CASE Adopt(c)
    <2> DEFINE to == [poll[c] EXCEPT !.at = "sent", !.active = credential]
               e == [authoritative |-> credential, active |-> credential]
    <2>1. to \in Poll /\ to.at = "sent" /\ e \in Entry
      BY <1>1, PairsAre DEF Poll, Entry
    <2>2. /\ poll[c].at = "locked" /\ poll' = [poll EXCEPT ![c] = to] /\ holder' = 0
          /\ kept' = [kept EXCEPT ![c] = e]
          /\ UNCHANGED <<policy, provider, expired, credential, outcome, lost, spentAgain>>
      BY <1>6 DEF Adopt, Resume
    <2>3. kept' \in [Collector -> Entry]
      BY <1>1, <2>1, <2>2
    <2> HIDE DEF to, e
    <2> QED
      BY <1>1, <2>1, <2>2, <2>3, OneCollector
  <1>7. CASE NotDurable(c)
    <2>1. /\ poll[c].at = "locked" /\ poll' = [poll EXCEPT ![c] = Rest] /\ holder' = 0
          /\ UNCHANGED <<policy, provider, expired, credential, kept, lost, spentAgain>>
          /\ outcome' \in [Collector -> {"none", "ok", "failed"}]
      BY <1>1, <1>7 DEF NotDurable, End
    <2> QED
      BY <1>1, <2>1, PairsAre, OneCollector
  <1>8. CASE CollectorDies(c)
    <2>1. /\ poll[c].at # "granted" /\ poll' = [poll EXCEPT ![c] = Rest]
          /\ holder' = (IF holder = c THEN 0 ELSE holder) /\ kept' = [kept EXCEPT ![c] = NoEntry]
          /\ UNCHANGED <<policy, provider, expired, credential, lost, spentAgain>>
          /\ outcome' \in [Collector -> {"none", "ok", "failed"}]
      BY <1>1, <1>8 DEF CollectorDies, End
    <2>2. kept' \in [Collector -> Entry]
      BY <1>1, <2>1, PairsAre
    <2> QED
      BY <1>1, <2>1, <2>2, PairsAre, OneCollector
  <1> QED
    BY <1>2, <1>3, <1>4, <1>5, <1>6, <1>7, <1>8

\* Nobody else is behind the lock of c.
LEMMA Alone ==
  ASSUME TokensInv, NEW c \in Collector, holder = c
  PROVE  \A d \in Collector \ {c} : poll[d].at \notin {"locked", "granted"}
  BY DEF TokensInv

LEMMA GrantKeeps == ASSUME TokensInv, NEW c \in Collector, Grant(c) PROVE TokensInv'
  <1>1. /\ poll[c].at = "locked" /\ UNCHANGED <<policy, expired, credential, kept, lost>> /\ poll[c] \in Poll
        /\ holder = c
    BY DEF Grant, TokensInv, TokensShape
  <1>2. CASE credential = provider.pair
    <2> DEFINE to == [poll[c] EXCEPT !.at = "granted", !.got = provider.pair + 1]
    <2>1. /\ provider.pair < MaxPair /\ provider' = [pair |-> provider.pair + 1, accepts |-> TRUE]
          /\ poll' = [poll EXCEPT ![c] = to] /\ UNCHANGED <<holder, outcome, spentAgain>>
      BY <1>2 DEF Grant
    <2>2. /\ provider'.pair = provider.pair + 1 /\ provider' \in [pair : 1..MaxPair, accepts : BOOLEAN]
          /\ expired' \in 0..provider'.pair /\ credential' \in 1..provider'.pair
      BY <1>1, <2>1, PairsAre DEF TokensInv, TokensShape
    <2>3. to \in Poll /\ to.at = "granted" /\ to.got = provider.pair + 1
      <3>1. provider.pair + 1 \in Pair
        BY <2>1, PairsAre DEF Pair
      <3> QED
        BY <1>1, <3>1 DEF Poll
    <2> HIDE DEF to
    <2>4. poll' \in [Collector -> Poll] /\ poll'[c] = to /\ \A d \in Collector \ {c} : poll'[d] = poll[d]
      BY <2>1, <2>3 DEF TokensInv, TokensShape
    <2>5. TokensShape'
      BY <1>1, <2>1, <2>2, <2>4 DEF TokensInv, TokensShape
    <2>6. SpentOnce'
      BY <2>1, <2>3, <2>4 DEF TokensInv, SpentOnce
    <2> QED
      BY <1>1, <2>1, <2>2, <2>3, <2>4, <2>5, <2>6, Alone DEF TokensInv
  <1>3. CASE credential # provider.pair
    <2>1. /\ poll' = [poll EXCEPT ![c] = Rest] /\ holder' = 0 /\ provider' = provider
          /\ outcome' \in [Collector -> {"none", "ok", "failed"}]
          /\ spentAgain' = (spentAgain \/ ~lost)
      BY <1>3 DEF Grant, End, TokensInv, TokensShape
    <2>2. lost
      BY <1>1, <1>3, Alone DEF TokensInv, SpentOnce
    <2>3. spentAgain' = spentAgain
      BY <2>1, <2>2 DEF TokensInv, TokensShape
    <2>4. kept' \in [Collector -> Entry]
      BY <1>1 DEF TokensInv, TokensShape
    <2> QED
      BY <1>1, <2>1, <2>3, <2>4, PairsAre, OneCollector
  <1> QED
    BY <1>2, <1>3

LEMMA GrantedKeeps ==
  ASSUME TokensInv, NEW c \in Collector, GrantLost(c) \/ PersistPair(c) \/ PersistFails(c)
  PROVE  TokensInv'
  <1>1. /\ poll[c].at = "granted" /\ poll[c] \in Poll /\ holder = c /\ poll[c].got = provider.pair
        /\ UNCHANGED <<policy, provider, expired, spentAgain>> /\ holder' = 0
        /\ kept \in [Collector -> Entry] /\ outcome \in [Collector -> {"none", "ok", "failed"}]
    BY DEF GrantLost, PersistPair, PersistFails, TokensInv, TokensShape, End, Resume
  <1> DEFINE to == [poll[c] EXCEPT !.at = "sent", !.active = provider.pair]
             e == [authoritative |-> provider.pair, active |-> provider.pair]
  <1>2. to \in Poll /\ to.at = "sent" /\ e \in Entry
    BY <1>1, PairsAre DEF Poll, Entry
  <1>3. \E next \in Poll : next.at # "granted" /\ next.at # "locked" /\ poll' = [poll EXCEPT ![c] = next]
    <2>1. poll' = [poll EXCEPT ![c] = Rest] \/ poll' = [poll EXCEPT ![c] = to]
      BY <1>1 DEF GrantLost, PersistPair, PersistFails, End, Resume
    <2> HIDE DEF to
    <2> QED
      BY <1>2, <2>1, PairsAre
  <1>4. kept' \in [Collector -> Entry]
    <2>1. kept' = kept \/ kept' = [kept EXCEPT ![c] = NoEntry] \/ kept' = [kept EXCEPT ![c] = e]
      BY <1>1 DEF GrantLost, PersistPair, PersistFails, End, Resume
    <2> HIDE DEF e
    <2> QED
      BY <1>1, <1>2, <2>1, PairsAre
  <1>5. outcome' \in [Collector -> {"none", "ok", "failed"}]
    BY <1>1 DEF GrantLost, PersistPair, PersistFails, End, Resume
  <1>6. \/ lost' = TRUE /\ credential' = credential
        \/ lost' = lost /\ credential' = provider.pair
    BY <1>1 DEF GrantLost, PersistPair, PersistFails
  <1>7. credential' \in 1..provider'.pair /\ lost' \in BOOLEAN
    <2>1. provider' = provider /\ credential \in 1..provider.pair /\ provider.pair \in 1..provider.pair /\ lost \in BOOLEAN
      BY <1>1, PairsAre DEF TokensInv, TokensShape
    <2> QED
      BY <1>6, <2>1
  <1> HIDE DEF to, e
  <1>8. /\ poll' \in [Collector -> Poll] /\ poll'[c].at \notin {"locked", "granted"}
        /\ \A d \in Collector \ {c} : poll'[d] = poll[d]
    BY <1>3 DEF TokensInv, TokensShape
  <1>9. TokensShape'
    BY <1>1, <1>4, <1>5, <1>7, <1>8 DEF TokensInv, TokensShape
  <1>10. SpentOnce'
    BY <1>1, <1>6 DEF TokensInv, SpentOnce
  <1>11. \A d \in Collector : poll'[d].at \notin {"locked", "granted"}
    BY <1>1, <1>8, Alone
  <1> QED
    BY <1>9, <1>10, <1>11 DEF TokensInv

LEMMA TokensStepKeeps == ASSUME TokensInv, TokensNext \/ UNCHANGED tokenVars PROVE TokensInv'
  <1>1. CASE UNCHANGED tokenVars
    BY <1>1 DEF tokenVars, TokensInv, TokensShape, SpentOnce
  <1> QED
    BY <1>1, ProviderKeeps, PollKeeps, GrantKeeps, GrantedKeeps DEF TokensNext, CollectorStep

-----------------------------------------------------------------------------
(* The three together.                                                     *)

ComponentsInv == ClaimInv /\ SchedulerInv /\ TokensInv

LEMMA ComponentsBegin == UpdatesInit => ComponentsInv
  BY ClaimInvBegins, SchedulerInvBegins, TokensInvBegins DEF UpdatesInit, ComponentsInv

\* A step of the whole is a step of every part, or leaves it alone.
LEMMA PartsStep ==
  [UpdatesNext]_updatesVars =>
    [UpdateNext]_updateVars /\ [SchedulerNext]_schedulerVars /\ [TokensNext]_tokenVars
  BY DEF UpdatesNext, updatesVars

LEMMA ComponentsStep == ComponentsInv /\ [UpdatesNext]_updatesVars => ComponentsInv'
  BY PartsStep, ClaimStepKeeps, SchedulerStepKeeps, TokensStepKeeps DEF ComponentsInv

(* Whatever the file system and however many processes share an            *)
(* executable: no process has two installs or rollbacks beyond the claim   *)
(* at a time (apply), and no collector spends a refresh token twice, but   *)
(* for the excuses of SpentOnce.  Of the files, it says the types only.    *)
THEOREM ClaimsStaySingle ==
  UpdatesSpec => [](UpdateTypeOK /\ SchedulerTypeOK /\ TokensTypeOK /\ OneInstall /\ SpentOnce)
  <1>1. ComponentsInv => UpdateTypeOK /\ SchedulerTypeOK /\ TokensTypeOK /\ OneInstall /\ SpentOnce
    BY SchedulerTypes, TokensTypes DEF ComponentsInv, ClaimInv, TaskShape
  <1> QED
    BY <1>1, ComponentsBegin, ComponentsStep, PTL DEF UpdatesSpec

UpdatesInv == UpdateInv /\ SchedulerInv /\ TokensInv

LEMMA UpdatesInvHolds == ASSUME OneUpdater PROVE UpdatesSpec => []UpdatesInv
  <1>1. UpdatesInit => UpdatesInv
    BY UpdateInvBegins, SchedulerInvBegins, TokensInvBegins DEF UpdatesInit, UpdatesInv
  <1>2. UpdatesInv /\ [UpdatesNext]_updatesVars => UpdatesInv'
    BY PartsStep, UpdateStepKeeps, SchedulerStepKeeps, TokensStepKeeps DEF UpdatesInv
  <1> QED
    BY <1>1, <1>2, PTL DEF UpdatesSpec

(* The run's invariant, for one process at the executable and a file       *)
(* system with hard links: at every moment there is an executable to start *)
(* (swap_into_place), whatever crashes and failed renames do.              *)
THEOREM UpdatesStaySafe ==
  ASSUME HardLinks, OneUpdater
  PROVE  UpdatesSpec => []UpdatesSafe
  <1>1. UpdatesInv => UpdatesSafe
    BY SchedulerTypes, TokensTypes
    DEF UpdatesInv, UpdateInv, ClaimInv, TaskShape, UpdatesSafe, InstallSafe, ExecutableStays
  <1> QED
    BY <1>1, UpdatesInvHolds, PTL

(* With or without hard links, a rollback restores the file the record     *)
(* names, and an install that reports its end can be rolled back           *)
(* (install_rollback, record_applied).                                     *)
THEOREM RecordsStayTrue ==
  ASSUME OneUpdater
  PROVE  UpdatesSpec => RecordsAreTrue
  <1>1. UpdatesInv /\ [UpdatesNext]_updatesVars =>
          [\A t \in Task : step[t] = "restore" /\ Restore(t) => prev = state.sha]_updateVars
    BY RestoresRecorded DEF UpdatesInv
  <1>2. UpdatesInv /\ [UpdatesNext]_updatesVars =>
          [\A t \in Task : step[t] = "record" /\ RecordApplied(t) =>
             prev = leaving[t] /\ prev = state'.sha /\ exe = wanted[t]]_updateVars
    BY RecordsReversible DEF UpdatesInv
  <1> QED
    BY <1>1, <1>2, UpdatesInvHolds, PTL DEF UpdatesSpec, RecordsAreTrue, RollbackIsRecorded, AppliedIsReversible
=============================================================================
