--------------------------- MODULE LaunchesProofs ---------------------------
(***************************************************************************)
(* Proofs about the mutations of a pane and the polls of auto-compact, for *)
(* every number of processes, requests and logs, and about the leases of a *)
(* resumed conversation, for every set of processes, launches and kill     *)
(* requests; both for every bound.                                         *)
(***************************************************************************)
EXTENDS AutoCompact, ResumeLease, FiniteSetTheorems, TLAPS

USE PaneBounds, PaneNone, PaneActors, LogAssumption, CompactBounds

-----------------------------------------------------------------------------
(* The inductive invariant, in two halves: what concerns the pane and the  *)
(* requests, and what concerns the polls.                                  *)

\* A request that is going on is known.
OpenShape == \A r \in Open : req[r] \in Request

\* Behind its wait a request holds the pane's lock.
Working == {r \in Req : rpc[r] \in {"read", "advance", "deliver", "paste", "pause", "submit"}}
WorkHoldsLock == \A r \in Working : holder = r

\* Whoever has acted, has acted under the sequence the pane has now or had.
ActedBefore == \A e \in acted : e.inst <= inst /\ (e.inst = inst => e.seq <= seq)

\* What an actor finds acted under the present sequence was its own doing.
OwnSequence(a) == \A e \in acted : e.inst = inst /\ e.seq = seq => e.by = a

SequenceInv ==
  /\ ActedBefore
  /\ \A r \in Req : rpc[r] = "advance" => \A e \in acted : e.inst = inst => e.seq < next[r]
  /\ \A r \in Req : rpc[r] \in {"deliver", "paste", "pause", "submit"} => OwnSequence(r)
  /\ SequenceNames

\* The process of r has not begun a mutation since r arrived, but for the last n.
Undisturbed(r, n) == \A k \in (since[r] + 1)..(Len(begun) - n) : begun[k] # req[r].proc

\* A gate counts on while a request of its process is open, and it stands at the
\* request's token only if nothing was begun; with the lock nothing can begin.
GateInv ==
  /\ \A r \in Req : rpc[r] \in {"wait", "read", "advance"} =>
       /\ gate[req[r].proc] >= req[r].token
       /\ gate[req[r].proc] = req[r].token => Undisturbed(r, 0)
  /\ \A r \in Req : rpc[r] \in {"read", "advance"} /\ req[r].kind = "resume" => Undisturbed(r, 0)
  /\ ResumeIsOneShot

\* Between a validation and the command it guards only a server restart comes,
\* which takes the buffers and leaves the others to raced.  No switch is bound.
Validated ==
  \A r \in Req :
    /\ rpc[r] = "paste" => req[r].instance \in {None, inst} \/ (r \notin buffers /\ req[r].kind # "switch")
    /\ rpc[r] = "submit" => req[r].instance \in {None, inst} \/ r \in raced
    /\ rpc[r] \notin {"new", "done"} /\ req[r].kind = "switch" => req[r].instance = None

\* What the composer holds was left by requests that have ended, but for the last
\* text, which may be that of the request under way.
OwnTextLast ==
  /\ \A k \in 1..Len(composer) : composer[k] \in Req
  /\ \A k \in 1..(Len(composer) - 1) : rpc[composer[k]] = "done"
  /\ composer # <<>> => rpc[composer[Len(composer)]] \in {"done", "pause", "submit"}
  /\ \A r \in Req : rpc[r] \in {"pause", "submit"} => composer = <<>> \/ composer[Len(composer)] = r

PaneInv ==
  PaneTypeOK /\ OpenShape /\ WorkHoldsLock /\ SequenceInv /\ Validated /\ BoundToInstance
  /\ GateInv /\ OwnTextLast

-----------------------------------------------------------------------------
(* The steps of PaneMutations.                                             *)

\* What ends a request, and what its end leaves of the others.
Ending(r) ==
  \/ Reject(r) \/ Submit(r) \/ Key(r) \/ Respawn(r) \/ Kill(r) \/ Fail(r)
  \/ Paste(r) /\ req[r].kind = "draft"

Ended(r) ==
  /\ rpc' = [rpc EXCEPT ![r] = "done"] /\ holder' = None
  /\ gate' \in [Proc -> Nat]
  /\ req' \in [Req -> Request \cup {None}] /\ next' \in [Req -> Nat] /\ since' \in [Req -> Nat]
  /\ \A s \in Req \ {r} : req'[s] = req[s] /\ next'[s] = next[s] /\ since'[s] = since[s]
  /\ \A s \in Open \ {r} : gate'[req[s].proc] = gate[req[s].proc]

LEMMA FinishEnds ==
  ASSUME PaneTypeOK, OpenShape, NEW r \in Req, Finish(r)
  PROVE  Ended(r)
  <1>1. gate' \in [Proc -> Nat]
    BY DEF Finish, PaneTypeOK
  <1>2. \A s \in Open \ {r} : gate'[req[s].proc] = gate[req[s].proc]
    BY DEF Finish, OpenOf, OpenShape, Request, PaneTypeOK
  <1> QED
    BY <1>1, <1>2 DEF Ended, Finish, Forget, PaneTypeOK

\* The lock is free or its own, and its effect is an effect of its delivery.
LEMMA EndingFacts ==
  ASSUME PaneTypeOK, OpenShape, WorkHoldsLock, NEW r \in Req, Ending(r)
  PROVE  /\ Ended(r) /\ r \in Open /\ holder \in {None, r}
         /\ UNCHANGED <<inst, seq, snap, boundVars, begun, raced>> /\ buffers' \subseteq buffers
         /\ acted' = acted \/ ((\E act \in Act : Effects(r, act)) /\ rpc[r] \in {"deliver", "paste", "submit"})
         /\ composer' \in {composer, <<>>, Append(composer, r)}
         /\ alive' \in BOOLEAN /\ resumable' \in BOOLEAN
  <1>1. Finish(r)
    BY DEF Ending, Reject, Submit, Key, Respawn, Kill, Fail, Paste
  <1>2. Ended(r)
    BY <1>1, FinishEnds
  <1>3. r \in Open /\ ((rpc[r] = "wait" /\ holder = None) \/ r \in Working)
    BY DEF Ending, Reject, Submit, Key, Respawn, Kill, Fail, Paste, Open, Working
  <1>4. holder \in {None, r}
    BY <1>3 DEF WorkHoldsLock
  <1>5. /\ UNCHANGED <<inst, seq, snap, boundVars, begun, raced>> /\ buffers' \subseteq buffers
        /\ acted' = acted \/ ((\E act \in Act : Effects(r, act)) /\ rpc[r] \in {"deliver", "paste", "submit"})
        /\ composer' \in {composer, <<>>, Append(composer, r)}
        /\ alive' \in BOOLEAN /\ resumable' \in BOOLEAN
    BY DEF Ending, Reject, Submit, Key, Respawn, Kill, Fail, Paste, paneVars, histVars, PaneTypeOK, Act
  <1> QED
    BY <1>2, <1>3, <1>4, <1>5

\* The steps of a request that do not end it.
LEMMA StepKinds ==
  ASSUME PaneNext
  PROVE  \/ \E r \in Req :
              Lock(r) \/ ReadSequence(r) \/ Advance(r) \/ Validate(r) \/ Ending(r) \/ (Paste(r) /\ req[r].kind # "draft")
         \/ \E r \in Req, i \in Proc, kind \in Kind : Arrive(r, i, kind)
         \/ \E i \in Proc : Refresh(i) \/ Crash(i)
         \/ AgentTurn \/ ServerRestart
  <1>1. \A r \in Req : RequestStep(r) =>
          \/ Lock(r) \/ ReadSequence(r) \/ Advance(r) \/ Validate(r) \/ Ending(r)
          \/ (Paste(r) /\ req[r].kind # "draft")
    BY DEF RequestStep, Ending
  <1> DEFINE Kinds(r) ==
        Lock(r) \/ ReadSequence(r) \/ Advance(r) \/ Validate(r) \/ Ending(r) \/ (Paste(r) /\ req[r].kind # "draft")
  <1>2. CASE \E r \in Req : RequestStep(r)
    <2>1. PICK r \in Req : RequestStep(r)
      BY <1>2
    <2>2. Kinds(r)
      BY <1>1, <2>1
    <2>3. \E s \in Req : Kinds(s)
      <3> HIDE DEF Kinds
      <3> QED
        BY <2>2
    <2> QED
      BY <2>3
  <1>3. CASE \E r \in Req, i \in Proc, kind \in Kind : Arrive(r, i, kind)
    BY <1>3
  <1>4. CASE (\E i \in Proc : Refresh(i) \/ Crash(i)) \/ AgentTurn \/ ServerRestart
    BY <1>4
  <1> QED
    BY <1>2, <1>3, <1>4, Zenon DEF PaneNext

LEMMA EffectType ==
  ASSUME PaneTypeOK, OpenShape, NEW r \in Open, NEW act \in Act, Effects(r, act)
  PROVE  acted' \in SUBSET Effect
  <1> DEFINE e == [inst |-> inst, seq |-> seq, by |-> r, act |-> act, for |-> req[r].instance]
  <1>1. req[r] \in Request
    BY DEF OpenShape
  <1>2. e \in Effect
    BY <1>1 DEF Effect, Request, Actor, PaneTypeOK, Open
  <1> QED
    BY <1>2 DEF Effects, Acts, PaneTypeOK

LEMMA PaneTypeStep ==
  ASSUME PaneTypeOK, OpenShape, WorkHoldsLock, PaneNext
  PROVE  PaneTypeOK'
  <1>1. ASSUME NEW r \in Req, Lock(r) PROVE PaneTypeOK'
    <2>1. holder' \in Actor \cup {None} /\ rpc' \in [Req -> RPC]
      BY <1>1 DEF Lock, PaneTypeOK, Actor, RPC
    <2> QED
      BY <1>1, <2>1 DEF Lock, PaneTypeOK, paneVars, procVars, boundVars, histVars
  <1>2. ASSUME NEW r \in Req, ReadSequence(r) PROVE PaneTypeOK'
    BY <1>2 DEF ReadSequence, PaneTypeOK, RPC, paneVars, procVars, reqVars, boundVars, histVars
  <1>3. ASSUME NEW r \in Req, Advance(r) PROVE PaneTypeOK'
    <2>1. req[r].proc \in Proc
      BY <1>3 DEF Advance, OpenShape, Open, Request
    <2>2. gate' \in [Proc -> Nat]
      BY <1>3, <2>1 DEF Advance, PaneTypeOK
    <2>3. begun' \in Seq(Proc)
      BY <1>3, <2>1 DEF Advance, PaneTypeOK
    <2> QED
      BY <1>3, <2>2, <2>3 DEF Advance, PaneTypeOK, RPC, procVars, boundVars
  <1>4. ASSUME NEW r \in Req, Paste(r), req[r].kind # "draft" PROVE PaneTypeOK'
    <2>1. r \in Open /\ Effects(r, "paste")
      BY <1>4 DEF Paste, Open
    <2>2. acted' \in SUBSET Effect
      BY <2>1, EffectType DEF Act
    <2>3. composer' \in Seq(Actor)
      BY <1>4 DEF Paste, PaneTypeOK, Actor
    <2> QED
      BY <1>4, <2>2, <2>3 DEF Paste, PaneTypeOK, RPC, boundVars
  <1>5. ASSUME NEW r \in Req, Ending(r) PROVE PaneTypeOK'
    <2>1. /\ Ended(r) /\ r \in Open /\ UNCHANGED <<inst, seq, snap, boundVars, begun, raced>>
          /\ buffers' \subseteq buffers
      BY <1>5, EndingFacts
    <2>2. acted' \in SUBSET Effect
      <3>1. acted' = acted \/ \E act \in Act : Effects(r, act)
        BY <1>5, EndingFacts
      <3> QED
        BY <2>1, <3>1, EffectType DEF PaneTypeOK
    <2>3. composer' \in Seq(Actor)
      <3>1. composer' \in {composer, <<>>, Append(composer, r)}
        BY <1>5, EndingFacts
      <3>2. composer \in Seq(Actor) /\ r \in Actor
        BY DEF PaneTypeOK, Actor
      <3>3. <<>> \in Seq(Actor) /\ Append(composer, r) \in Seq(Actor)
        BY <3>2
      <3> QED
        BY <3>1, <3>2, <3>3
    <2>4. alive' \in BOOLEAN /\ resumable' \in BOOLEAN
      BY <1>5, EndingFacts
    <2>5. rpc' \in [Req -> RPC] /\ holder' \in Actor \cup {None}
      BY <2>1 DEF Ended, PaneTypeOK, RPC
    <2> QED
      BY <2>1, <2>2, <2>3, <2>4, <2>5 DEF Ended, PaneTypeOK, boundVars
  <1>6. ASSUME NEW r \in Req, NEW i \in Proc, NEW kind \in Kind, Arrive(r, i, kind) PROVE PaneTypeOK'
    <2>1. PICK bound \in BOOLEAN : req' = [req EXCEPT ![r] =
            [proc |-> i, kind |-> kind, token |-> gate[i],
             instance |-> IF bound THEN snap[i] ELSE None]]
      BY <1>6 DEF Arrive
    <2>2. req' \in [Req -> Request \cup {None}]
      <3>1. [proc |-> i, kind |-> kind, token |-> gate[i],
             instance |-> IF bound THEN snap[i] ELSE None] \in Request
        BY <1>6 DEF Request, PaneTypeOK
      <3> QED
        BY <2>1, <3>1 DEF PaneTypeOK
    <2>3. Len(begun) \in Nat
      BY DEF PaneTypeOK
    <2>4. since' \in [Req -> Nat]
      BY <1>6, <2>3 DEF Arrive, PaneTypeOK
    <2> QED
      BY <1>6, <2>2, <2>4 DEF Arrive, PaneTypeOK, RPC, paneVars, procVars, boundVars, histVars
  <1>7. ASSUME NEW i \in Proc, Refresh(i) PROVE PaneTypeOK'
    BY <1>7 DEF Refresh, PaneTypeOK, RPC, paneVars, procVars, reqVars, boundVars, histVars
  <1>8. ASSUME NEW i \in Proc, Crash(i) PROVE PaneTypeOK'
    <2>1. /\ rpc' \in [Req -> RPC] /\ req' \in [Req -> Request \cup {None}]
          /\ next' \in [Req -> Nat] /\ since' \in [Req -> Nat]
      BY <1>8 DEF Crash, Forget, PaneTypeOK, RPC
    <2>2. gate' \in [Proc -> Nat] /\ snap' \in [Proc -> Nat \cup {None}]
      BY <1>8 DEF Crash, PaneTypeOK
    <2>3. holder' \in Actor \cup {None} /\ crashes' \in Nat
      BY <1>8 DEF Crash, Unlocked, PaneTypeOK
    <2> QED
      BY <1>8, <2>1, <2>2, <2>3 DEF Crash, PaneTypeOK, paneVars, histVars
  <1>9. ASSUME AgentTurn PROVE PaneTypeOK'
    <2>1. composer' \in Seq(Actor)
      <3>1. composer \in Seq(Actor) /\ <<>> \in Seq(Actor)
        BY DEF PaneTypeOK
      <3> QED
        BY <1>9, <3>1 DEF AgentTurn
    <2> QED
      BY <1>9, <2>1 DEF AgentTurn, PaneTypeOK, procVars, reqVars, boundVars, histVars
  <1>10. ASSUME ServerRestart PROVE PaneTypeOK'
    BY <1>10 DEF ServerRestart, PaneTypeOK, RPC, paneVars, procVars, reqVars, boundVars, histVars
  <1>11. ASSUME NEW r \in Req, Validate(r) PROVE PaneTypeOK'
    <2>1. buffers' \in SUBSET Req /\ rpc' \in [Req -> RPC]
      BY <1>11 DEF Validate, PaneTypeOK, RPC
    <2> QED
      BY <1>11, <2>1 DEF Validate, PaneTypeOK, procVars, boundVars, histVars
  <1> QED
    BY StepKinds, <1>1, <1>2, <1>3, <1>4, <1>5, <1>6, <1>7, <1>8, <1>9, <1>10, <1>11

LEMMA WorkStep ==
  ASSUME PaneTypeOK, OpenShape, WorkHoldsLock, PaneNext
  PROVE  OpenShape' /\ WorkHoldsLock'
  <1>1. ASSUME NEW r \in Req, Lock(r) PROVE OpenShape' /\ WorkHoldsLock'
    BY <1>1 DEF Lock, PaneTypeOK, OpenShape, Open, WorkHoldsLock, Working, RPC, paneVars, procVars, reqVars, boundVars, histVars
  <1>2. ASSUME NEW r \in Req, ReadSequence(r) PROVE OpenShape' /\ WorkHoldsLock'
    BY <1>2 DEF ReadSequence, PaneTypeOK, OpenShape, Open, WorkHoldsLock, Working, RPC, paneVars, procVars, reqVars, boundVars, histVars
  <1>3. ASSUME NEW r \in Req, Advance(r) PROVE OpenShape' /\ WorkHoldsLock'
    BY <1>3 DEF Advance, PaneTypeOK, OpenShape, Open, WorkHoldsLock, Working, RPC, paneVars, procVars, reqVars, boundVars, histVars
  <1>4. ASSUME NEW r \in Req, Paste(r), req[r].kind # "draft" PROVE OpenShape' /\ WorkHoldsLock'
    BY <1>4 DEF Paste, PaneTypeOK, OpenShape, Open, WorkHoldsLock, Working, RPC, paneVars, procVars, reqVars, boundVars, histVars
  <1>5. ASSUME NEW r \in Req, Ending(r) PROVE OpenShape' /\ WorkHoldsLock'
    <2>1. Ended(r) /\ holder \in {None, r}
      BY <1>5, EndingFacts
    <2>2. \A s \in Req \ {r} : s \notin Working
      BY <2>1 DEF WorkHoldsLock, Working, PaneTypeOK
    <2> QED
      BY <2>1, <2>2 DEF Ended, OpenShape, Open, WorkHoldsLock, Working, PaneTypeOK
  <1>6. ASSUME NEW r \in Req, NEW i \in Proc, NEW kind \in Kind, Arrive(r, i, kind) PROVE OpenShape' /\ WorkHoldsLock'
    <2>1. req'[r] \in Request /\ \A s \in Req \ {r} : req'[s] = req[s]
      BY <1>6 DEF Arrive, Request, PaneTypeOK
    <2> QED
      BY <1>6, <2>1 DEF Arrive, OpenShape, Open, WorkHoldsLock, Working, PaneTypeOK
  <1>7. ASSUME NEW i \in Proc, Refresh(i) PROVE OpenShape' /\ WorkHoldsLock'
    BY <1>7 DEF Refresh, PaneTypeOK, OpenShape, Open, WorkHoldsLock, Working, RPC, paneVars, procVars, reqVars, boundVars, histVars
  <1>8. ASSUME NEW i \in Proc, Crash(i) PROVE OpenShape' /\ WorkHoldsLock'
    <2>1. \A s \in Req : rpc'[s] # "done" => rpc'[s] = rpc[s] /\ req'[s] = req[s] /\ s \notin OpenOf(i)
      BY <1>8 DEF Crash, Forget, PaneTypeOK
    <2>2. \A s \in Req : holder = s /\ s \notin OpenOf(i) => holder' = s
      BY <1>8 DEF Crash, Unlocked
    <2> QED
      BY <2>1, <2>2 DEF OpenShape, Open, WorkHoldsLock, Working
  <1>9. ASSUME AgentTurn PROVE OpenShape' /\ WorkHoldsLock'
    BY <1>9 DEF AgentTurn, PaneTypeOK, OpenShape, Open, WorkHoldsLock, Working, RPC, paneVars, procVars, reqVars, boundVars, histVars
  <1>10. ASSUME ServerRestart PROVE OpenShape' /\ WorkHoldsLock'
    BY <1>10 DEF ServerRestart, PaneTypeOK, OpenShape, Open, WorkHoldsLock, Working, RPC, paneVars, procVars, reqVars, boundVars, histVars
  <1>11. ASSUME NEW r \in Req, Validate(r) PROVE OpenShape' /\ WorkHoldsLock'
    BY <1>11 DEF Validate, PaneTypeOK, OpenShape, Open, WorkHoldsLock, Working, RPC, procVars, boundVars, histVars
  <1> QED
    BY StepKinds, <1>1, <1>2, <1>3, <1>4, <1>5, <1>6, <1>7, <1>8, <1>9, <1>10, <1>11

\* An effect under its actor's own sequence keeps the sequence's meaning.
LEMMA ActingKeeps ==
  ASSUME PaneTypeOK, ActedBefore, SequenceNames, NEW a, NEW k, NEW n,
         OwnSequence(a), Acts(a, k, n), UNCHANGED <<inst, seq>>
  PROVE  ActedBefore' /\ SequenceNames' /\ OwnSequence(a)'
  BY DEF PaneTypeOK, ActedBefore, SequenceNames, OwnSequence, Acts

LEMMA SequenceStep ==
  ASSUME PaneTypeOK, OpenShape, WorkHoldsLock, SequenceInv, PaneNext
  PROVE  SequenceInv'
  <1>1. ASSUME NEW r \in Req, Lock(r) PROVE SequenceInv'
    BY <1>1 DEF Lock, PaneTypeOK, SequenceInv, ActedBefore, OwnSequence, SequenceNames, paneVars, procVars, reqVars, boundVars, histVars
  <1>2. ASSUME NEW r \in Req, ReadSequence(r) PROVE SequenceInv'
    <2>1. \A s \in Req : rpc'[s] \in {"deliver", "paste", "pause", "submit"} => rpc[s] = rpc'[s]
      BY <1>2 DEF ReadSequence, PaneTypeOK
    <2>2. \A s \in Req : rpc'[s] = "advance" => s = r \/ (rpc[s] = "advance" /\ next'[s] = next[s])
      BY <1>2 DEF ReadSequence, PaneTypeOK
    <2>3. next'[r] = seq + 1 /\ UNCHANGED <<inst, seq, acted>>
      BY <1>2 DEF ReadSequence, PaneTypeOK, paneVars, histVars
    <2>4. \A e \in acted : e.inst = inst => e.seq < next'[r]
      BY <2>3 DEF SequenceInv, ActedBefore, PaneTypeOK, Effect
    <2> QED
      BY <2>1, <2>2, <2>3, <2>4 DEF SequenceInv, ActedBefore, OwnSequence, SequenceNames
  <1>3. ASSUME NEW r \in Req, Advance(r) PROVE SequenceInv'
    <2>1. \A s \in Req \ {r} : s \notin Working /\ s \notin Working'
      BY <1>3 DEF Advance, WorkHoldsLock, Working, PaneTypeOK
    <2>2. rpc'[r] = "deliver" /\ seq' = next[r] /\ UNCHANGED <<inst, acted>>
      BY <1>3 DEF Advance, PaneTypeOK
    <2>3. \A e \in acted : e.inst = inst => e.seq < next[r]
      BY <1>3 DEF Advance, SequenceInv
    <2>4. next[r] \in Nat /\ \A e \in acted : e.seq \in Nat
      BY DEF PaneTypeOK, Effect
    <2> QED
      BY <2>1, <2>2, <2>3, <2>4 DEF SequenceInv, ActedBefore, OwnSequence, SequenceNames, Working
  <1>4. ASSUME NEW r \in Req, Paste(r), req[r].kind # "draft" PROVE SequenceInv'
    <2>1. Acts(r, "paste", req[r].instance) /\ UNCHANGED <<inst, seq>> /\ OwnSequence(r)
      BY <1>4 DEF Paste, Effects, SequenceInv
    <2>2. ActedBefore' /\ SequenceNames' /\ OwnSequence(r)'
      BY <2>1, ActingKeeps DEF SequenceInv
    <2>3. \A s \in Req \ {r} : s \notin Working /\ rpc'[s] = rpc[s]
      BY <1>4 DEF Paste, WorkHoldsLock, Working, PaneTypeOK
    <2>4. rpc'[r] = "pause"
      BY <1>4 DEF Paste, PaneTypeOK
    <2> QED
      BY <2>2, <2>3, <2>4 DEF SequenceInv, Working
  <1>5. ASSUME NEW r \in Req, Ending(r) PROVE SequenceInv'
    <2>1. Ended(r) /\ holder \in {None, r} /\ UNCHANGED <<inst, seq>>
      BY <1>5, EndingFacts
    <2>2. acted' = acted \/ ((\E act \in Act : Effects(r, act)) /\ rpc[r] \in {"deliver", "paste", "submit"})
      BY <1>5, EndingFacts
    <2>3. ActedBefore' /\ SequenceNames'
      <3>1. CASE acted' = acted
        BY <2>1, <3>1 DEF SequenceInv, ActedBefore, SequenceNames
      <3>2. CASE (\E act \in Act : Effects(r, act)) /\ rpc[r] \in {"deliver", "paste", "submit"}
        BY <2>1, <3>2, ActingKeeps DEF SequenceInv, Effects
      <3> QED
        BY <2>2, <3>1, <3>2
    <2>4. \A s \in Req : s \notin Working'
      BY <2>1 DEF Ended, WorkHoldsLock, Working, PaneTypeOK
    <2> QED
      BY <2>3, <2>4 DEF SequenceInv, Working
  <1>6. ASSUME NEW r \in Req, NEW i \in Proc, NEW kind \in Kind, Arrive(r, i, kind) PROVE SequenceInv'
    BY <1>6 DEF Arrive, PaneTypeOK, SequenceInv, ActedBefore, OwnSequence, SequenceNames, Effect, paneVars, procVars, reqVars, boundVars, histVars
  <1>7. ASSUME NEW i \in Proc, Refresh(i) PROVE SequenceInv'
    BY <1>7 DEF Refresh, PaneTypeOK, SequenceInv, ActedBefore, OwnSequence, SequenceNames, Effect, paneVars, procVars, reqVars, boundVars, histVars
  <1>8. ASSUME NEW i \in Proc, Crash(i) PROVE SequenceInv'
    <2>1. \A s \in Req : rpc'[s] # "done" => rpc'[s] = rpc[s] /\ next'[s] = next[s]
      BY <1>8 DEF Crash, Forget, PaneTypeOK
    <2>2. UNCHANGED <<inst, seq, acted>>
      BY <1>8 DEF Crash, paneVars, histVars
    <2> QED
      BY <2>1, <2>2 DEF SequenceInv, ActedBefore, OwnSequence, SequenceNames
  <1>9. ASSUME AgentTurn PROVE SequenceInv'
    BY <1>9 DEF AgentTurn, PaneTypeOK, SequenceInv, ActedBefore, OwnSequence, SequenceNames, Effect, paneVars, procVars, reqVars, boundVars, histVars
  <1>10. ASSUME ServerRestart PROVE SequenceInv'
    BY <1>10 DEF ServerRestart, PaneTypeOK, SequenceInv, ActedBefore, OwnSequence, SequenceNames, Effect, paneVars, procVars, reqVars, boundVars, histVars
  <1>11. ASSUME NEW r \in Req, Validate(r) PROVE SequenceInv'
    <2>1. \A s \in Req : rpc'[s] = rpc[s] \/ (s = r /\ rpc[s] \in {"deliver", "pause"} /\ rpc'[s] # "advance")
      BY <1>11 DEF Validate, PaneTypeOK
    <2>2. UNCHANGED <<inst, seq, acted, next>>
      BY <1>11 DEF Validate, histVars
    <2> QED
      BY <2>1, <2>2 DEF SequenceInv, ActedBefore, OwnSequence, SequenceNames
  <1> QED
    BY StepKinds, <1>1, <1>2, <1>3, <1>4, <1>5, <1>6, <1>7, <1>8, <1>9, <1>10, <1>11

\* A step that keeps the pane, its buffers and what the requests are.
LEMMA BoundKept ==
  ASSUME Validated, BoundToInstance, UNCHANGED <<inst, acted>>, raced \subseteq raced', buffers' \subseteq buffers,
         \A s \in Req : rpc'[s] \notin {"new", "done"} =>
           /\ rpc[s] \notin {"new", "done"} /\ req'[s] = req[s]
           /\ rpc'[s] \in {"paste", "submit"} => rpc[s] = rpc'[s]
  PROVE  Validated' /\ BoundToInstance'
  BY DEF Validated, BoundToInstance

LEMMA BoundStep ==
  ASSUME PaneTypeOK, OpenShape, WorkHoldsLock, Validated, BoundToInstance, PaneNext
  PROVE  Validated' /\ BoundToInstance'
  <1>1. ASSUME NEW r \in Req, Lock(r) PROVE Validated' /\ BoundToInstance'
    BY <1>1, BoundKept DEF Lock, PaneTypeOK, paneVars, histVars
  <1>2. ASSUME NEW r \in Req, ReadSequence(r) PROVE Validated' /\ BoundToInstance'
    BY <1>2, BoundKept DEF ReadSequence, PaneTypeOK, paneVars, histVars
  <1>3. ASSUME NEW r \in Req, Advance(r) PROVE Validated' /\ BoundToInstance'
    BY <1>3, BoundKept DEF Advance, PaneTypeOK
  <1>4. ASSUME NEW r \in Req, Paste(r), req[r].kind # "draft" PROVE Validated' /\ BoundToInstance'
    <2>1. req[r].instance \in {None, inst}
      BY <1>4 DEF Paste, Validated
    <2>2. BoundToInstance'
      BY <1>4, <2>1 DEF Paste, Effects, Acts, BoundToInstance
    <2>3. /\ \A s \in Req : s # r => rpc'[s] = rpc[s]
          /\ rpc[r] = "paste" /\ rpc'[r] = "pause" /\ UNCHANGED <<inst, req, raced>> /\ buffers' \subseteq buffers
      BY <1>4 DEF Paste, PaneTypeOK
    <2> QED
      BY <2>2, <2>3 DEF Validated
  <1>5. ASSUME NEW r \in Req, Ending(r) PROVE Validated' /\ BoundToInstance'
    <2>1. /\ \A s \in Req : s # r => rpc'[s] = rpc[s] /\ req'[s] = req[s]
          /\ rpc'[r] = "done"
      BY <1>5, EndingFacts DEF Ended, PaneTypeOK
    <2>2. UNCHANGED <<inst, raced>> /\ buffers' \subseteq buffers
      BY <1>5, EndingFacts
    <2>3. Validated'
      BY <2>1, <2>2 DEF Validated
    <2>4. BoundToInstance'
      <3>1. CASE Submit(r)
        BY <3>1 DEF Submit, Effects, Acts, Validated, BoundToInstance
      <3>2. CASE Paste(r)
        BY <3>2 DEF Paste, Effects, Acts, Validated, BoundToInstance
      <3>3. CASE Key(r) \/ Respawn(r) \/ Kill(r)
        BY <3>3 DEF Key, Respawn, Kill, Effects, Acts, BoundToInstance
      <3>4. CASE Reject(r) \/ Fail(r)
        BY <3>4 DEF Reject, Fail, histVars, BoundToInstance
      <3> QED
        BY <1>5, <3>1, <3>2, <3>3, <3>4 DEF Ending
    <2> QED
      BY <2>3, <2>4
  <1>6. ASSUME NEW r \in Req, NEW i \in Proc, NEW kind \in Kind, Arrive(r, i, kind)
        PROVE Validated' /\ BoundToInstance'
    <2>1. rpc'[r] = "wait" /\ (req'[r].kind = "switch" => req'[r].instance = None)
      <3>1. PICK bound \in BOOLEAN :
              /\ bound => kind \in {"message", "draft", "key"}
              /\ req' = [req EXCEPT ![r] = [proc |-> i, kind |-> kind, token |-> gate[i],
                                            instance |-> IF bound THEN snap[i] ELSE None]]
        BY <1>6 DEF Arrive
      <3>2. req'[r] = [proc |-> i, kind |-> kind, token |-> gate[i],
                       instance |-> IF bound THEN snap[i] ELSE None]
        BY <3>1 DEF PaneTypeOK
      <3> QED
        BY <1>6, <3>1, <3>2 DEF Arrive, PaneTypeOK
    <2>2. \A s \in Req : s # r => rpc'[s] = rpc[s] /\ req'[s] = req[s]
      BY <1>6 DEF Arrive, PaneTypeOK
    <2>3. UNCHANGED <<inst, raced, buffers, acted>>
      BY <1>6 DEF Arrive, paneVars, histVars
    <2> QED
      BY <2>1, <2>2, <2>3 DEF Validated, BoundToInstance
  <1>7. ASSUME NEW i \in Proc, Refresh(i) PROVE Validated' /\ BoundToInstance'
    BY <1>7, BoundKept DEF Refresh, paneVars, reqVars, histVars
  <1>8. ASSUME NEW i \in Proc, Crash(i) PROVE Validated' /\ BoundToInstance'
    <2>1. \A s \in Req : rpc'[s] # "done" => rpc'[s] = rpc[s] /\ req'[s] = req[s]
      BY <1>8 DEF Crash, Forget, PaneTypeOK
    <2>2. UNCHANGED <<inst, raced, acted>> /\ buffers' \subseteq buffers
      BY <1>8 DEF Crash, histVars
    <2> QED
      BY <2>1, <2>2, BoundKept
  <1>9. ASSUME AgentTurn PROVE Validated' /\ BoundToInstance'
    BY <1>9, BoundKept DEF AgentTurn, reqVars, histVars
  <1>10. ASSUME ServerRestart PROVE Validated' /\ BoundToInstance'
    <2>1. buffers' = {} /\ UNCHANGED <<rpc, req, acted>> /\ raced' = raced \cup {r \in Req : rpc[r] = "submit"}
      BY <1>10 DEF ServerRestart, reqVars
    <2> QED
      BY <2>1 DEF Validated, BoundToInstance
  <1>11. ASSUME NEW r \in Req, Validate(r) PROVE Validated' /\ BoundToInstance'
    <2>1. /\ \A s \in Req : s # r => rpc'[s] = rpc[s]
          /\ rpc[r] \in {"deliver", "pause"} /\ rpc'[r] \in {"paste", "submit"}
          /\ UNCHANGED <<inst, req, raced, acted>> /\ \A s \in buffers' : s \in buffers \/ s = r
      BY <1>11 DEF Validate, PaneTypeOK, histVars
    <2>2. req[r].instance \in {None, inst}
      BY <1>11 DEF Validate, InstanceOK
    <2> QED
      BY <2>1, <2>2 DEF Validated, BoundToInstance
  <1> QED
    BY StepKinds, <1>1, <1>2, <1>3, <1>4, <1>5, <1>6, <1>7, <1>8, <1>9, <1>10, <1>11

LEMMA GateStep ==
  ASSUME PaneTypeOK, OpenShape, WorkHoldsLock, GateInv, PaneNext
  PROVE  GateInv'
  <1>1. ASSUME NEW r \in Req, Lock(r) PROVE GateInv'
    <2>1. \A s \in Req : rpc'[s] = rpc[s] \/ (s = r /\ rpc[s] = "wait" /\ rpc'[s] = "read")
      BY <1>1 DEF Lock, PaneTypeOK
    <2>2. UNCHANGED <<gate, req, since, begun>>
      BY <1>1 DEF Lock, procVars, histVars
    <2>3. req[r].kind = "resume" => gate[req[r].proc] = req[r].token
      BY <1>1 DEF Lock, Admitted, Current
    <2> QED
      BY <2>1, <2>2, <2>3 DEF GateInv, Undisturbed, ResumeIsOneShot
  <1>2. ASSUME NEW r \in Req, ReadSequence(r) PROVE GateInv'
    <2>1. \A s \in Req : rpc'[s] = rpc[s] \/ (s = r /\ rpc[s] = "read" /\ rpc'[s] = "advance")
      BY <1>2 DEF ReadSequence, PaneTypeOK
    <2>2. UNCHANGED <<gate, req, since, begun>>
      BY <1>2 DEF ReadSequence, procVars, histVars
    <2> QED
      BY <2>1, <2>2 DEF GateInv, Undisturbed, ResumeIsOneShot
  <1>3. ASSUME NEW r \in Req, Advance(r) PROVE GateInv'
    <2> DEFINE i == req[r].proc
    <2>1. i \in Proc /\ \A s \in Open : req[s].proc \in Proc /\ req[s].token \in Nat
      BY <1>3 DEF Advance, OpenShape, Open, Request
    <2>2. /\ begun \in Seq(Proc) /\ Len(begun') = Len(begun) + 1 /\ begun'[Len(begun) + 1] = i
          /\ Len(begun) \in Nat /\ \A k \in 1..Len(begun) : begun'[k] = begun[k]
      BY <1>3, <2>1 DEF Advance, PaneTypeOK
    <2>3. /\ \A s \in Req : s # r => s \notin Working /\ rpc'[s] = rpc[s]
          /\ rpc[r] = "advance" /\ rpc'[r] = "deliver" /\ UNCHANGED <<req, since>>
      BY <1>3 DEF Advance, WorkHoldsLock, Working, PaneTypeOK
    <2>4. /\ \A j \in Proc : gate'[j] = IF j = i THEN gate[j] + 1 ELSE gate[j]
          /\ \A s \in Req : since[s] \in Nat
          /\ \A j \in Proc : gate[j] \in Nat
      BY <1>3, <2>1 DEF Advance, PaneTypeOK
    <2> HIDE DEF i
    <2>5. \A s \in Req : rpc'[s] = "wait" =>
            /\ gate'[req'[s].proc] >= req'[s].token
            /\ gate'[req'[s].proc] = req'[s].token => Undisturbed(s, 0)'
      <3> SUFFICES ASSUME NEW s \in Req, rpc'[s] = "wait"
                   PROVE  /\ gate'[req[s].proc] >= req[s].token
                          /\ gate'[req[s].proc] = req[s].token => Undisturbed(s, 0)'
        BY <2>3
      <3>1. rpc[s] = "wait" /\ s \in Open
        BY <2>3 DEF Open
      <3>2. /\ gate[req[s].proc] >= req[s].token
            /\ gate[req[s].proc] = req[s].token => Undisturbed(s, 0)
        BY <3>1 DEF GateInv
      <3>3. CASE req[s].proc = i
        BY <2>1, <2>4, <3>1, <3>2, <3>3
      <3>4. CASE req[s].proc # i
        BY <2>1, <2>2, <2>3, <2>4, <3>1, <3>2, <3>4 DEF Undisturbed
      <3> QED
        BY <3>3, <3>4
    <2>6. req[r].kind = "resume" => Undisturbed(r, 1)'
      <3>1. req[r].kind = "resume" => Undisturbed(r, 0)
        BY <2>3 DEF GateInv
      <3> QED
        BY <2>2, <2>3, <2>4, <3>1 DEF Undisturbed
    <2>7. ResumeIsOneShot'
      BY <2>3, <2>6 DEF ResumeIsOneShot, Undisturbed, Working
    <2> QED
      BY <2>3, <2>5, <2>7 DEF GateInv, Working
  <1>4. ASSUME NEW r \in Req, Paste(r), req[r].kind # "draft" PROVE GateInv'
    <2>1. \A s \in Req : rpc'[s] = rpc[s] \/ rpc'[s] = "pause"
      BY <1>4 DEF Paste, PaneTypeOK
    <2>2. UNCHANGED <<gate, req, since, begun>>
      BY <1>4 DEF Paste
    <2> QED
      BY <2>1, <2>2 DEF GateInv, Undisturbed, ResumeIsOneShot
  <1>5. ASSUME NEW r \in Req, Ending(r) PROVE GateInv'
    <2>1. Ended(r) /\ holder \in {None, r} /\ UNCHANGED begun
      BY <1>5, EndingFacts
    <2>2. \A s \in Req : rpc'[s] # "done" => s # r /\ rpc'[s] = rpc[s]
      BY <2>1 DEF Ended, PaneTypeOK
    <2>3. \A s \in Req : s # r => req'[s] = req[s] /\ since'[s] = since[s]
      BY <2>1 DEF Ended
    <2>4. \A s \in Open : s # r => gate'[req[s].proc] = gate[req[s].proc]
      BY <2>1 DEF Ended
    <2> QED
      BY <2>1, <2>2, <2>3, <2>4 DEF GateInv, Undisturbed, ResumeIsOneShot, Open
  <1>6. ASSUME NEW r \in Req, NEW i \in Proc, NEW kind \in Kind, Arrive(r, i, kind) PROVE GateInv'
    <2>1. req'[r].proc = i /\ req'[r].token = gate[i] /\ since'[r] = Len(begun)
      BY <1>6 DEF Arrive, PaneTypeOK
    <2>2. \A s \in Req : s # r => req'[s] = req[s] /\ since'[s] = since[s] /\ rpc'[s] = rpc[s]
      BY <1>6 DEF Arrive, PaneTypeOK
    <2>3. rpc'[r] = "wait" /\ UNCHANGED <<gate, begun>> /\ Len(begun) \in Nat /\ gate[i] \in Nat
      BY <1>6 DEF Arrive, procVars, histVars, PaneTypeOK
    <2> QED
      BY <2>1, <2>2, <2>3 DEF GateInv, Undisturbed, ResumeIsOneShot
  <1>7. ASSUME NEW i \in Proc, Refresh(i) PROVE GateInv'
    BY <1>7 DEF Refresh, PaneTypeOK, GateInv, Undisturbed, ResumeIsOneShot, paneVars, procVars, reqVars, boundVars, histVars
  <1>8. ASSUME NEW i \in Proc, Crash(i) PROVE GateInv'
    <2>1. \A s \in Req : rpc'[s] # "done" =>
            rpc'[s] = rpc[s] /\ req'[s] = req[s] /\ since'[s] = since[s] /\ s \notin OpenOf(i)
      BY <1>8 DEF Crash, Forget, PaneTypeOK
    <2>2. \A j \in Proc : j # i => gate'[j] = gate[j]
      BY <1>8 DEF Crash, PaneTypeOK
    <2>3. \A s \in Open : s \notin OpenOf(i) => gate'[req[s].proc] = gate[req[s].proc]
      BY <2>2 DEF OpenOf, OpenShape, Request
    <2>4. UNCHANGED begun
      BY <1>8 DEF Crash, histVars
    <2> QED
      BY <2>1, <2>3, <2>4 DEF GateInv, Undisturbed, ResumeIsOneShot, Open
  <1>9. ASSUME AgentTurn PROVE GateInv'
    BY <1>9 DEF AgentTurn, PaneTypeOK, GateInv, Undisturbed, ResumeIsOneShot, paneVars, procVars, reqVars, boundVars, histVars
  <1>10. ASSUME ServerRestart PROVE GateInv'
    BY <1>10 DEF ServerRestart, PaneTypeOK, GateInv, Undisturbed, ResumeIsOneShot, paneVars, procVars, reqVars, boundVars, histVars
  <1>11. ASSUME NEW r \in Req, Validate(r) PROVE GateInv'
    <2>1. \A s \in Req : rpc'[s] = rpc[s] \/ rpc'[s] \in {"paste", "submit"}
      BY <1>11 DEF Validate, PaneTypeOK
    <2>2. UNCHANGED <<gate, req, since, begun>>
      BY <1>11 DEF Validate, procVars, histVars
    <2> QED
      BY <2>1, <2>2 DEF GateInv, Undisturbed, ResumeIsOneShot
  <1> QED
    BY StepKinds, <1>1, <1>2, <1>3, <1>4, <1>5, <1>6, <1>7, <1>8, <1>9, <1>10, <1>11

\* A step that pastes nothing and ends no request but to "done".
LEMMA OwnTextKept ==
  ASSUME PaneTypeOK, OwnTextLast, composer' \in {composer, <<>>},
         \A s \in Req : rpc'[s] \in {"pause", "submit"} => rpc[s] \in {"pause", "submit"},
         \A s \in Req : rpc[s] = "done" => rpc'[s] = "done",
         \A s \in Req : rpc[s] \in {"pause", "submit"} => rpc'[s] \in {"done", "pause", "submit"}
  PROVE  OwnTextLast'
  <1>1. composer \in Seq(Actor) /\ Len(composer) \in Nat
    BY DEF PaneTypeOK
  <1>2. CASE composer' = <<>>
    BY <1>2 DEF OwnTextLast
  <1>3. CASE composer' = composer /\ composer # <<>>
    <2>1. Len(composer) \in 1..Len(composer)
      BY <1>1, <1>3
    <2>2. composer[Len(composer)] \in Req
      BY <2>1 DEF OwnTextLast
    <2>3. \A k \in 1..(Len(composer) - 1) : k \in 1..Len(composer)
      BY <1>1
    <2> QED
      BY <1>3, <2>2, <2>3 DEF OwnTextLast
  <1> QED
    BY <1>2, <1>3

\* The text of the lock's holder comes last.
LEMMA OwnTextPasted ==
  ASSUME PaneTypeOK, OwnTextLast, WorkHoldsLock, NEW r \in Req, Paste(r),
         \A s \in Req \ {r} : rpc'[s] = rpc[s], rpc'[r] \in {"pause", "done"}
  PROVE  OwnTextLast'
  <1>1. /\ composer' = Append(composer, r) /\ composer \in Seq(Actor) /\ Len(composer) \in Nat
        /\ rpc[r] = "paste" /\ holder = r
    BY DEF Paste, PaneTypeOK, WorkHoldsLock, Working
  <1>2. \A s \in Req : rpc[s] \notin {"pause", "submit"}
    BY <1>1 DEF WorkHoldsLock, Working
  <1>3. /\ Len(composer') = Len(composer) + 1 /\ composer'[Len(composer) + 1] = r
        /\ \A k \in 1..Len(composer) : composer'[k] = composer[k]
    BY <1>1 DEF Actor
  <1>4. \A k \in 1..Len(composer) : composer[k] \in Req /\ rpc[composer[k]] = "done"
    <2> SUFFICES ASSUME NEW k \in 1..Len(composer) PROVE composer[k] \in Req /\ rpc[composer[k]] = "done"
      OBVIOUS
    <2>1. k = Len(composer) \/ k \in 1..(Len(composer) - 1)
      BY <1>1
    <2>2. composer[k] \in Req /\ composer # <<>>
      BY <1>1 DEF OwnTextLast
    <2> QED
      BY <1>2, <2>1, <2>2 DEF OwnTextLast
  <1>5. \A k \in 1..(Len(composer') - 1) : k \in 1..Len(composer) /\ composer'[k] # r
    BY <1>1, <1>3, <1>4
  <1>6. \A k \in 1..Len(composer') : k \in 1..Len(composer) \/ k = Len(composer) + 1
    BY <1>1, <1>3
  <1> QED
    BY <1>2, <1>3, <1>4, <1>5, <1>6 DEF OwnTextLast

LEMMA OwnTextStep ==
  ASSUME PaneTypeOK, OpenShape, WorkHoldsLock, OwnTextLast, PaneNext
  PROVE  OwnTextLast'
  <1>1. ASSUME NEW r \in Req, Lock(r) PROVE OwnTextLast'
    BY <1>1, OwnTextKept DEF Lock, PaneTypeOK, paneVars
  <1>2. ASSUME NEW r \in Req, ReadSequence(r) PROVE OwnTextLast'
    BY <1>2, OwnTextKept DEF ReadSequence, PaneTypeOK, paneVars
  <1>3. ASSUME NEW r \in Req, Advance(r) PROVE OwnTextLast'
    BY <1>3, OwnTextKept DEF Advance, PaneTypeOK
  <1>4. ASSUME NEW r \in Req, Paste(r), req[r].kind # "draft" PROVE OwnTextLast'
    <2>1. rpc' = [rpc EXCEPT ![r] = "pause"]
      BY <1>4 DEF Paste
    <2> QED
      BY <1>4, <2>1, OwnTextPasted DEF PaneTypeOK
  <1>5. ASSUME NEW r \in Req, Ending(r) PROVE OwnTextLast'
    <2>1. rpc' = [rpc EXCEPT ![r] = "done"]
      BY <1>5, EndingFacts DEF Ended
    <2>2. CASE Paste(r)
      BY <2>1, <2>2, OwnTextPasted DEF PaneTypeOK
    <2>3. CASE ~Paste(r)
      <3>1. composer' \in {composer, <<>>}
        BY <1>5, <2>3 DEF Ending, Reject, Submit, Key, Respawn, Kill, Fail, paneVars
      <3> QED
        BY <2>1, <3>1, OwnTextKept DEF PaneTypeOK
    <2> QED
      BY <2>2, <2>3
  <1>6. ASSUME NEW r \in Req, NEW i \in Proc, NEW kind \in Kind, Arrive(r, i, kind) PROVE OwnTextLast'
    BY <1>6, OwnTextKept DEF Arrive, PaneTypeOK, paneVars
  <1>7. ASSUME NEW i \in Proc, Refresh(i) PROVE OwnTextLast'
    BY <1>7, OwnTextKept DEF Refresh, paneVars, reqVars
  <1>8. ASSUME NEW i \in Proc, Crash(i) PROVE OwnTextLast'
    <2>1. \A s \in Req : rpc'[s] = rpc[s] \/ rpc'[s] = "done"
      BY <1>8 DEF Crash, PaneTypeOK
    <2> QED
      BY <1>8, <2>1, OwnTextKept DEF Crash
  <1>9. ASSUME AgentTurn PROVE OwnTextLast'
    BY <1>9, OwnTextKept DEF AgentTurn, reqVars
  <1>10. ASSUME ServerRestart PROVE OwnTextLast'
    BY <1>10, OwnTextKept DEF ServerRestart, reqVars
  <1>11. ASSUME NEW r \in Req, Validate(r) PROVE OwnTextLast'
    BY <1>11, OwnTextKept DEF Validate, PaneTypeOK
  <1> QED
    BY StepKinds, <1>1, <1>2, <1>3, <1>4, <1>5, <1>6, <1>7, <1>8, <1>9, <1>10, <1>11

LEMMA PaneStep == PaneInv /\ PaneNext => PaneInv'
  BY PaneTypeStep, WorkStep, SequenceStep, BoundStep, GateStep, OwnTextStep DEF PaneInv

-----------------------------------------------------------------------------
(* The polls.                                                              *)

\* A poll that has decided holds the lock over an empty composer; what it acted
\* under the present sequence was its own doing.
PollHoldsLock ==
  \A i \in Proc : cpc[i] # "rest" => holder = i /\ target[i] \in Log /\ composer = <<>>

PollSequence == \A i \in Proc : cpc[i] = "deliver" => OwnSequence(i)

\* As long as the server lives: a claim stays until its poll is over; what was
\* sent above the threshold is still claimed, so no poll decides for it.
ClaimStays == \A i \in Proc : cpc[i] \in {"advance", "deliver"} => acMarker = target[i]
SentIsClaimed == log \in sent => acMarker = log \/ ~high[log]
NotSentYet == \A i \in Proc : cpc[i] # "rest" => target[i] \notin sent /\ log \notin sent

CompactInv ==
  /\ PaneInv /\ TypeOK /\ PollHoldsLock /\ PollSequence
  /\ restarts = 0 => ClaimStays /\ SentIsClaimed /\ NotSentYet

LEMMA CompactInitInv == Init => CompactInv
  <1> SUFFICES ASSUME Init PROVE CompactInv
    OBVIOUS
  <1>1. PaneTypeOK
    BY DEF Init, PaneInit, PaneTypeOK, RPC, Actor
  <1>2. OpenShape /\ WorkHoldsLock /\ SequenceInv /\ Validated /\ BoundToInstance /\ GateInv /\ OwnTextLast
    BY DEF Init, Validated, PaneInit, OpenShape, Open, WorkHoldsLock, Working, SequenceInv, ActedBefore,
       SequenceNames, BoundToInstance, GateInv, ResumeIsOneShot, OwnTextLast
  <1>3. TypeOK
    BY <1>1 DEF Init, TypeOK, CPC
  <1> QED
    BY <1>1, <1>2, <1>3 DEF Init, CompactInv, PaneInv, PollHoldsLock, PollSequence, ClaimStays,
       SentIsClaimed, NotSentYet

LEMMA ServerSteps ==
  ASSUME PaneNext
  PROVE  UNCHANGED <<inst, restarts>> \/ (inst' = inst + 1 /\ restarts' = restarts + 1)
  BY DEF PaneNext, RequestStep, Lock, Reject, ReadSequence, Advance, Validate, Paste, Submit, Key, Respawn,
     Kill, Fail, Arrive, Refresh, Crash, AgentTurn, ServerRestart, paneVars, boundVars

\* The lock stays, the composer does not grow, nothing acts.
HeldStill(i) ==
  /\ holder' = i /\ composer' \in {composer, <<>>} /\ acted' = acted
  /\ inst' # inst \/ seq' = seq

\* What a step of PaneMutations does to a poll: it goes on only with its lock.
LEMMA MutationStep ==
  ASSUME CompactInv, Mutation
  PROVE  CompactInv'
  <1>1. PaneInv'
    BY PaneStep DEF CompactInv, Mutation
  <1>2. TypeOK'
    BY <1>1 DEF CompactInv, PaneInv, TypeOK, Mutation, CPC
  <1>3. \A i \in Proc : cpc'[i] # "rest" =>
          /\ cpc[i] = cpc'[i] /\ target'[i] = target[i] /\ target[i] \in Log
          /\ holder = i /\ composer = <<>>
    BY DEF CompactInv, Mutation, PollHoldsLock
  <1>4. ASSUME NEW i \in Proc, holder = i, cpc'[i] # "rest"
        PROVE  HeldStill(i)
    <2>1. holder' # None
      BY <1>4 DEF Mutation
    <2>2. \A r \in Req : r \notin Working /\ r # i
      BY <1>4 DEF CompactInv, PaneInv, WorkHoldsLock, Working
    <2>3. ASSUME NEW r \in Req, Ending(r) PROVE FALSE
      BY <1>4, <2>2, <2>3, EndingFacts DEF CompactInv, PaneInv
    <2>4. ASSUME NEW r \in Req,
                 Lock(r) \/ ReadSequence(r) \/ Advance(r) \/ Validate(r) \/ Ending(r) \/ (Paste(r) /\ req[r].kind # "draft")
          PROVE FALSE
      BY <1>4, <2>2, <2>3, <2>4 DEF Lock, ReadSequence, Advance, Validate, Paste, Working
    <2>5. ASSUME NEW r \in Req, NEW j \in Proc, NEW kind \in Kind, Arrive(r, j, kind)
          PROVE  HeldStill(i)
      BY <1>4, <2>5 DEF HeldStill, Arrive, paneVars, histVars
    <2>6. ASSUME NEW j \in Proc, Refresh(j) \/ Crash(j) PROVE HeldStill(i)
      BY <1>4, <2>1, <2>6 DEF HeldStill, Refresh, Crash, Unlocked, paneVars, histVars
    <2>7. ASSUME AgentTurn \/ ServerRestart PROVE HeldStill(i)
      BY <1>4, <2>7 DEF HeldStill, AgentTurn, ServerRestart, paneVars, histVars, CompactInv, PaneInv, PaneTypeOK
    <2> QED
      BY <2>4, <2>5, <2>6, <2>7, StepKinds DEF Mutation
  <1>5. PollHoldsLock'
    BY <1>3, <1>4 DEF HeldStill, PollHoldsLock
  <1>6. \/ UNCHANGED <<inst, restarts, log, acMarker, sent, high>>
        \/ inst' = inst + 1 /\ restarts' = restarts + 1
    BY ServerSteps DEF Mutation, CompactInv, PaneInv, PaneTypeOK
  <1>7. PollSequence'
    <2> SUFFICES ASSUME NEW i \in Proc, cpc'[i] = "deliver" PROVE OwnSequence(i)'
      BY DEF PollSequence
    <2>1. OwnSequence(i) /\ acted' = acted /\ (inst' # inst \/ seq' = seq)
      BY <1>3, <1>4 DEF HeldStill, CompactInv, PollSequence
    <2>2. CASE inst' = inst
      BY <2>1, <2>2 DEF OwnSequence
    <2>3. CASE inst' = inst + 1
      BY <2>1, <2>3 DEF OwnSequence, CompactInv, PaneInv, SequenceInv, ActedBefore, PaneTypeOK, Effect
    <2> QED
      BY <1>6, <2>2, <2>3
  <1>8. restarts' = 0 => ClaimStays' /\ SentIsClaimed' /\ NotSentYet'
    <2> SUFFICES ASSUME restarts' = 0 PROVE ClaimStays' /\ SentIsClaimed' /\ NotSentYet'
      OBVIOUS
    <2>1. UNCHANGED <<restarts, log, acMarker, sent, high>>
      BY <1>6 DEF CompactInv, PaneInv, PaneTypeOK
    <2> QED
      BY <1>3, <2>1 DEF CompactInv, ClaimStays, SentIsClaimed, NotSentYet
  <1> QED
    BY <1>1, <1>2, <1>5, <1>7, <1>8 DEF CompactInv

\* The agent's own steps.
LEMMA PaneRests == PaneInv /\ UNCHANGED mutationVars => PaneInv'
  BY DEF PaneInv, mutationVars, paneVars, procVars, reqVars, boundVars, histVars, PaneTypeOK,
     OpenShape, Open, WorkHoldsLock, Working, SequenceInv, ActedBefore, OwnSequence, SequenceNames,
     Validated, BoundToInstance, GateInv, Undisturbed, ResumeIsOneShot, OwnTextLast

LEMMA AgentStep ==
  ASSUME CompactInv, Usage \/ Boundary \/ Quieten \/ Converse \/ UNCHANGED vars
  PROVE  CompactInv'
  <1>1. PaneInv'
    BY PaneRests DEF CompactInv, Usage, Boundary, Quieten, Converse, vars
  <1>2. /\ UNCHANGED <<mutationVars, acMarker, pollVars>> /\ UNCHANGED <<acted, inst, seq, restarts, holder, composer>>
    BY DEF Usage, Boundary, Quieten, Converse, vars, compactVars, mutationVars, paneVars, boundVars, histVars
  <1>3. TypeOK'
    <2>1. PaneTypeOK' /\ TypeOK
      BY <1>1 DEF CompactInv, PaneInv
    <2>2. CASE Usage
      <3>1. high' \in [Log -> BOOLEAN] /\ pending' \in [Log -> BOOLEAN] /\ sent' \in SUBSET Log
        BY <2>1, <2>2 DEF Usage, TypeOK
      <3>2. quiet' \in BOOLEAN /\ turns' \in Nat /\ UNCHANGED <<log, acMarker, cpc, target, faults>>
        <4>1. turns' \in Nat
          BY <2>1, <2>2 DEF Usage, Turn, TypeOK
        <4> QED
          BY <2>1, <2>2, <4>1 DEF Usage, TypeOK, pollVars
      <3> QED
        BY <2>1, <3>1, <3>2 DEF TypeOK
    <2>3. CASE Boundary
      BY <2>1, <2>3 DEF Boundary, TypeOK, pollVars
    <2>4. CASE Quieten
      BY <2>1, <2>4 DEF Quieten, TypeOK, pollVars
    <2>5. CASE Converse
      <3>1. log' \in Log /\ quiet' \in BOOLEAN /\ turns' \in Nat /\ sent' \in SUBSET Log
        <4>1. turns' \in Nat
          BY <2>1, <2>5 DEF Converse, Turn, TypeOK
        <4> QED
          BY <2>1, <2>5, <4>1 DEF Converse, TypeOK
      <3>2. UNCHANGED <<high, pending, acMarker, cpc, target, faults>>
        BY <2>5 DEF Converse, pollVars
      <3> QED
        BY <2>1, <3>1, <3>2 DEF TypeOK
    <2>6. CASE UNCHANGED vars
      BY <2>1, <2>6 DEF vars, compactVars, logVars, pollVars, TypeOK
    <2> QED
      BY <2>2, <2>3, <2>4, <2>5, <2>6
  <1>4. PollHoldsLock' /\ PollSequence' /\ (ClaimStays => ClaimStays')
    BY <1>2 DEF CompactInv, pollVars, PollHoldsLock, PollSequence, OwnSequence, ClaimStays
  <1>5. SentIsClaimed /\ NotSentYet => SentIsClaimed' /\ NotSentYet'
    <2> SUFFICES ASSUME SentIsClaimed, NotSentYet PROVE SentIsClaimed' /\ NotSentYet'
      OBVIOUS
    <2>1. CASE Usage
      BY <1>2, <2>1 DEF Usage, pollVars, SentIsClaimed, NotSentYet, CompactInv, TypeOK
    <2>2. CASE Converse
      BY <2>2 DEF Converse, SentIsClaimed, NotSentYet
    <2>3. CASE UNCHANGED <<log, high, sent>>
      BY <1>2, <2>3 DEF pollVars, SentIsClaimed, NotSentYet
    <2> QED
      BY <2>1, <2>2, <2>3 DEF Boundary, Quieten, vars, compactVars, logVars
  <1> QED
    BY <1>1, <1>2, <1>3, <1>4, <1>5 DEF CompactInv

\* Steps while no request works.
LEMMA IdleStep ==
  ASSUME PaneInv, Working = {}, UNCHANGED <<inst, alive, buffers, snap, reqVars, boundVars, raced>>,
         composer' \in {composer, <<>>}, resumable' \in BOOLEAN, seq' \in Nat,
         holder' \in Actor \cup {None}, gate' \in [Proc -> Nat],
         begun' \in Seq(Proc), acted' \in SUBSET Effect,
         ActedBefore', SequenceNames', BoundToInstance',
         \A r \in Req : rpc[r] = "wait" =>
           /\ gate'[req[r].proc] >= req[r].token
           /\ gate'[req[r].proc] = req[r].token => Undisturbed(r, 0)'
  PROVE  PaneInv'
  <1>1. UNCHANGED <<rpc, req, next, since>> /\ UNCHANGED <<restarts, crashes>>
    BY DEF reqVars, boundVars
  <1>2. PaneTypeOK'
    <2>1. composer' \in Seq(Actor)
      <3>1. composer \in Seq(Actor) /\ <<>> \in Seq(Actor)
        BY DEF PaneInv, PaneTypeOK
      <3> QED
        BY <3>1
    <2> QED
      BY <1>1, <2>1 DEF PaneInv, PaneTypeOK
  <1>3. \A r \in Req : rpc'[r] \notin {"read", "advance", "deliver", "paste", "pause", "submit"}
    BY <1>1 DEF Working
  <1>4. OpenShape' /\ WorkHoldsLock'
    BY <1>1, <1>3 DEF PaneInv, OpenShape, Open, WorkHoldsLock, Working
  <1>5. SequenceInv' /\ Validated' /\ OwnTextLast'
    <2>1. SequenceInv' /\ Validated'
      BY <1>1, <1>3 DEF SequenceInv, Validated, PaneInv
    <2> QED
      BY <1>1, <2>1, OwnTextKept DEF PaneInv
  <1>6. GateInv'
    BY <1>1, <1>3 DEF GateInv, ResumeIsOneShot
  <1> QED
    BY <1>2, <1>4, <1>5, <1>6 DEF PaneInv

\* The gate of a poll that leaves.
LEMMA LeaveGate ==
  ASSUME PaneInv, NEW i \in Proc, Leave(i), UNCHANGED <<begun, reqVars>>
  PROVE  /\ gate' \in [Proc -> Nat]
         /\ \A r \in Req : rpc[r] = "wait" =>
              /\ gate'[req[r].proc] >= req[r].token
              /\ gate'[req[r].proc] = req[r].token => Undisturbed(r, 0)'
  <1>1. gate' \in [Proc -> Nat]
    BY DEF Leave, PaneInv, PaneTypeOK
  <1>2. \A r \in Open : gate'[req[r].proc] = gate[req[r].proc]
    BY DEF Leave, OpenOf, PaneInv, PaneTypeOK, OpenShape, Request
  <1>3. UNCHANGED <<req, since, begun>>
    BY DEF reqVars
  <1>4. \A r \in Req : rpc[r] = "wait" =>
          /\ gate[req[r].proc] >= req[r].token
          /\ gate[req[r].proc] = req[r].token => Undisturbed(r, 0)
    BY DEF PaneInv, GateInv
  <1> QED
    BY <1>1, <1>2, <1>3, <1>4 DEF Open, Undisturbed

LEMMA PollPaneStep ==
  ASSUME CompactInv, NEW i \in Proc, Poll(i)
  PROVE  PaneInv'
  <1>1. CASE Clear(i) \/ Claim(i)
    BY <1>1, PaneRests DEF CompactInv, Clear, Claim
  <1>2. ASSUME cpc[i] # "rest" \/ holder = None PROVE Working = {}
    BY <1>2 DEF CompactInv, PollHoldsLock, PaneInv, WorkHoldsLock, Working
  <1>3. CASE Decide(i)
    <2>1. Working = {}
      BY <1>2, <1>3 DEF Decide
    <2>2. holder' \in Actor \cup {None}
      BY <1>3 DEF Decide, Actor
    <2>3. /\ UNCHANGED <<inst, alive, buffers, snap, reqVars, boundVars, raced>>
          /\ UNCHANGED <<composer, resumable, seq, gate, begun, acted, rpc, req, since>>
      BY <1>3 DEF Decide, paneVars, procVars, histVars, reqVars
    <2>4. PaneTypeOK /\ ActedBefore /\ SequenceNames /\ BoundToInstance /\ GateInv
      BY DEF CompactInv, PaneInv, SequenceInv
    <2>5. ActedBefore' /\ SequenceNames' /\ BoundToInstance'
      BY <2>3, <2>4 DEF ActedBefore, SequenceNames, BoundToInstance
    <2>6. \A r \in Req : rpc[r] = "wait" =>
            /\ gate'[req[r].proc] >= req[r].token
            /\ gate'[req[r].proc] = req[r].token => Undisturbed(r, 0)'
      BY <2>3, <2>4 DEF GateInv, Undisturbed
    <2> HIDE <1>3
    <2> QED
      BY <2>1, <2>2, <2>3, <2>4, <2>5, <2>6, IdleStep DEF CompactInv, PaneTypeOK
  <1>4. CASE CompactAdvance(i)
    <2>1. Working = {}
      BY <1>2, <1>4 DEF CompactAdvance
    <2>2. /\ UNCHANGED <<inst, alive, buffers, snap, reqVars, boundVars, raced>>
          /\ UNCHANGED <<composer, resumable, holder, acted, rpc, req, since>>
          /\ seq' = seq + 1 /\ gate' = [gate EXCEPT ![i] = @ + 1] /\ begun' = Append(begun, i)
      BY <1>4 DEF CompactAdvance, reqVars
    <2>3. PaneTypeOK /\ ActedBefore /\ SequenceNames /\ BoundToInstance /\ GateInv /\ OpenShape
      BY DEF CompactInv, PaneInv, SequenceInv
    <2>4. ActedBefore' /\ SequenceNames' /\ BoundToInstance'
      BY <2>2, <2>3 DEF ActedBefore, SequenceNames, BoundToInstance, PaneTypeOK, Effect
    <2>5. gate' \in [Proc -> Nat] /\ begun' \in Seq(Proc) /\ seq' \in Nat
      BY <2>2, <2>3 DEF PaneTypeOK
    <2>6. /\ Len(begun) \in Nat /\ Len(begun') = Len(begun) + 1 /\ begun'[Len(begun) + 1] = i
          /\ \A k \in 1..Len(begun) : begun'[k] = begun[k]
      BY <2>2, <2>3 DEF PaneTypeOK
    <2>7. /\ \A j \in Proc : gate'[j] = IF j = i THEN gate[j] + 1 ELSE gate[j]
          /\ \A s \in Req : since[s] \in Nat
          /\ \A j \in Proc : gate[j] \in Nat
      BY <2>2, <2>3 DEF PaneTypeOK
    <2>8. ASSUME NEW s \in Req, rpc[s] = "wait"
          PROVE  /\ gate'[req[s].proc] >= req[s].token
                 /\ gate'[req[s].proc] = req[s].token => Undisturbed(s, 0)'
      <3>1. req[s].proc \in Proc /\ req[s].token \in Nat
        BY <2>3, <2>8 DEF OpenShape, Open, Request
      <3>2. /\ gate[req[s].proc] >= req[s].token
            /\ gate[req[s].proc] = req[s].token => Undisturbed(s, 0)
        BY <2>3, <2>8 DEF GateInv
      <3>3. CASE req[s].proc = i
        BY <2>7, <3>1, <3>2, <3>3
      <3>4. CASE req[s].proc # i
        BY <2>2, <2>6, <2>7, <3>1, <3>2, <3>4 DEF Undisturbed
      <3> QED
        BY <3>3, <3>4
    <2> QED
      BY <2>1, <2>2, <2>3, <2>4, <2>5, <2>8, IdleStep DEF CompactInv, PaneTypeOK
  <1>5. CASE Deliver(i)
    <2>1. Working = {} /\ OwnSequence(i) /\ Leave(i) /\ holder' = None
      BY <1>2, <1>5 DEF Deliver, Leave, CompactInv, PollSequence
    <2>2. /\ UNCHANGED <<inst, alive, buffers, snap, reqVars, boundVars, raced>> /\ UNCHANGED <<seq, begun, rpc, req, since>>
      BY <1>5 DEF Deliver, reqVars
    <2>3. PaneTypeOK /\ ActedBefore /\ SequenceNames /\ BoundToInstance /\ PaneInv
      BY DEF CompactInv, PaneInv, SequenceInv
    <2>4. acted' = acted \/ Acts(i, "compact", None)
      BY <1>5 DEF Deliver, Delivered
    <2>5. ActedBefore' /\ SequenceNames'
      <3>1. CASE acted' = acted
        BY <2>2, <2>3, <3>1 DEF ActedBefore, SequenceNames
      <3>2. CASE Acts(i, "compact", None)
        BY <2>1, <2>2, <2>3, <3>2, ActingKeeps
      <3> QED
        BY <2>4, <3>1, <3>2
    <2>6. BoundToInstance' /\ acted' \in SUBSET Effect
      <3>1. [inst |-> inst, seq |-> seq, by |-> i, act |-> "compact", for |-> None] \in Effect
        BY <2>3 DEF PaneTypeOK, Effect, Actor, Act
      <3> QED
        BY <2>2, <2>3, <2>4, <3>1 DEF Acts, BoundToInstance, PaneTypeOK
    <2>7. composer' \in {composer, <<>>} /\ resumable' \in BOOLEAN
      BY <1>5, <2>3 DEF Deliver, Delivered, PaneTypeOK
    <2> QED
      BY <2>1, <2>2, <2>3, <2>5, <2>6, <2>7, IdleStep, LeaveGate DEF PaneTypeOK
  <1>6. CASE GiveUp(i)
    <2>1. Working = {} /\ Leave(i) /\ holder' = None
      BY <1>2, <1>6 DEF GiveUp, Leave
    <2>2. /\ UNCHANGED <<inst, alive, buffers, snap, reqVars, boundVars, raced>>
          /\ UNCHANGED <<seq, begun, composer, resumable, acted>>
      BY <1>6 DEF GiveUp, paneVars, histVars
    <2>3. PaneTypeOK /\ ActedBefore /\ SequenceNames /\ BoundToInstance /\ PaneInv
      BY DEF CompactInv, PaneInv, SequenceInv
    <2>4. ActedBefore' /\ SequenceNames' /\ BoundToInstance'
      BY <2>2, <2>3 DEF ActedBefore, SequenceNames, BoundToInstance
    <2> QED
      BY <2>1, <2>2, <2>3, <2>4, IdleStep, LeaveGate DEF PaneTypeOK
  <1> QED
    BY <1>1, <1>3, <1>4, <1>5, <1>6 DEF Poll

LEMMA PollStep ==
  ASSUME CompactInv, NEW i \in Proc, Poll(i)
  PROVE  CompactInv'
  <1>1. PaneInv'
    BY PollPaneStep
  <1>2. /\ TypeOK /\ PollHoldsLock /\ PollSequence /\ ActedBefore /\ PaneTypeOK
        /\ restarts = 0 => ClaimStays /\ SentIsClaimed /\ NotSentYet
    BY DEF CompactInv, PaneInv, SequenceInv
  \* What a poll leaves to the others, who all rest.
  <1>3. /\ UNCHANGED <<restarts, high, pending, log, turns, inst>>
        /\ \A j \in Proc : j # i => cpc[j] = "rest" /\ cpc'[j] = cpc[j] /\ target'[j] = target[j]
    BY <1>2 DEF TypeOK, PollHoldsLock, Poll, Clear, Decide, Claim, CompactAdvance, Deliver, GiveUp, Leave,
       pollVars, logVars, mutationVars, paneVars, boundVars
  <1>4. CASE Clear(i)
    <2>1. holder = None /\ ~high[log] /\ acMarker' = None
          /\ UNCHANGED <<cpc, target, holder, sent, quiet, faults, acted, composer, seq>>
      BY <1>4 DEF Clear, ClearsMarker, mutationVars, paneVars, histVars, logVars, pollVars
    <2>2. \A j \in Proc : cpc[j] = "rest"
      BY <1>2, <2>1 DEF PollHoldsLock
    <2>3. TypeOK' /\ PollHoldsLock' /\ PollSequence' /\ ClaimStays' /\ SentIsClaimed' /\ NotSentYet'
      BY <1>1, <1>2, <1>3, <2>1, <2>2 DEF PaneInv, TypeOK, PollHoldsLock, PollSequence, ClaimStays, SentIsClaimed, NotSentYet
    <2> QED
      BY <1>1, <2>3 DEF CompactInv
  <1>5. CASE Decide(i)
    <2>1. /\ cpc' = [cpc EXCEPT ![i] = "claim"] /\ target' = [target EXCEPT ![i] = log] /\ holder' = i
          /\ acMarker # log /\ high[log] /\ composer = <<>>
          /\ UNCHANGED <<acMarker, sent, quiet, faults, acted, composer, seq>>
      BY <1>5 DEF Decide, Compacts, Qualifies, paneVars, histVars, logVars
    <2>2. cpc'[i] = "claim" /\ target'[i] = log /\ log \in Log
      BY <1>2, <2>1 DEF TypeOK
    <2>3. cpc' \in [Proc -> CPC] /\ target' \in [Proc -> Log \cup {None}]
      BY <1>2, <2>1, <2>2 DEF TypeOK, CPC
    <2>4. TypeOK' /\ PollHoldsLock' /\ PollSequence' /\ ClaimStays'
      BY <1>1, <1>2, <1>3, <2>1, <2>2, <2>3 DEF PaneInv, TypeOK, PollHoldsLock, PollSequence, ClaimStays
    <2>5. restarts = 0 => SentIsClaimed' /\ NotSentYet'
      BY <1>2, <1>3, <2>1, <2>2 DEF SentIsClaimed, NotSentYet
    <2> QED
      BY <1>1, <1>3, <2>4, <2>5 DEF CompactInv
  <1>6. CASE Claim(i)
    <2>1. /\ cpc[i] = "claim" /\ acMarker' = target[i] /\ cpc' = [cpc EXCEPT ![i] = "advance"]
          /\ UNCHANGED <<target, holder, sent, quiet, faults, acted, composer, seq>>
      BY <1>6 DEF Claim, mutationVars, paneVars, histVars, logVars
    <2>2. cpc'[i] = "advance" /\ holder = i /\ target[i] \in Log /\ composer = <<>> /\ cpc' \in [Proc -> CPC]
      BY <1>2, <2>1 DEF TypeOK, CPC, PollHoldsLock
    <2>3. TypeOK' /\ PollHoldsLock' /\ PollSequence' /\ ClaimStays'
      BY <1>1, <1>2, <1>3, <2>1, <2>2 DEF PaneInv, TypeOK, PollHoldsLock, PollSequence, ClaimStays
    <2>4. restarts = 0 => SentIsClaimed' /\ NotSentYet'
      BY <1>2, <1>3, <2>1, <2>2 DEF SentIsClaimed, NotSentYet
    <2> QED
      BY <1>1, <1>3, <2>3, <2>4 DEF CompactInv
  <1>7. CASE CompactAdvance(i)
    <2>1. /\ cpc[i] = "advance" /\ cpc' = [cpc EXCEPT ![i] = "deliver"] /\ seq' = seq + 1
          /\ UNCHANGED <<target, holder, acMarker, sent, quiet, faults, acted, composer>>
      BY <1>7 DEF CompactAdvance, logVars
    <2>2. cpc'[i] = "deliver" /\ holder = i /\ target[i] \in Log /\ composer = <<>> /\ cpc' \in [Proc -> CPC]
      BY <1>2, <2>1 DEF TypeOK, CPC, PollHoldsLock
    \* Nobody has acted under the new sequence.
    <2>3. OwnSequence(i)'
      <3> SUFFICES ASSUME NEW e \in acted, e.inst = inst, e.seq = seq + 1 PROVE FALSE
        BY <1>3, <2>1 DEF OwnSequence
      <3>1. e.seq <= seq
        BY <1>2 DEF ActedBefore
      <3> QED
        BY <1>2, <3>1 DEF PaneTypeOK
    <2>4. PollSequence'
      BY <1>3, <2>3 DEF PollSequence
    <2>5. TypeOK' /\ PollHoldsLock'
      BY <1>1, <1>2, <1>3, <2>1, <2>2 DEF PaneInv, TypeOK, PollHoldsLock
    <2>6. restarts = 0 => ClaimStays' /\ SentIsClaimed' /\ NotSentYet'
      BY <1>2, <1>3, <2>1, <2>2 DEF ClaimStays, SentIsClaimed, NotSentYet
    <2> QED
      BY <1>1, <1>3, <2>4, <2>5, <2>6 DEF CompactInv
  <1>8. CASE Deliver(i) \/ GiveUp(i)
    <2>1. /\ cpc[i] # "rest" /\ cpc' = [cpc EXCEPT ![i] = "rest"] /\ target' = [target EXCEPT ![i] = None]
          /\ acMarker' = acMarker
      BY <1>8 DEF Deliver, GiveUp, Leave
    <2>2. /\ sent' = sent \/ (cpc[i] = "deliver" /\ sent' = sent \cup {target[i]})
          /\ faults' \in Nat /\ quiet' \in BOOLEAN
      <3>1. faults' = faults \/ faults' = faults + 1
        BY <1>8 DEF Deliver, GiveUp
      <3>2. faults' \in Nat
        BY <1>2, <3>1 DEF TypeOK
      <3>3. quiet' = quiet \/ quiet' = FALSE
        BY <1>8 DEF Deliver, Delivered, GiveUp, logVars
      <3>4. sent' = sent \/ (cpc[i] = "deliver" /\ sent' = sent \cup {target[i]})
        BY <1>8 DEF Deliver, Delivered, GiveUp
      <3> QED
        BY <1>2, <3>2, <3>3, <3>4 DEF TypeOK
    <2>3. \A j \in Proc : cpc'[j] = "rest"
      BY <1>2, <1>3, <2>1 DEF TypeOK
    <2>4. cpc' \in [Proc -> CPC] /\ target' \in [Proc -> Log \cup {None}] /\ target[i] \in Log
      BY <1>2, <2>1 DEF TypeOK, CPC, PollHoldsLock
    <2>5. TypeOK'
      BY <1>1, <1>2, <1>3, <2>1, <2>2, <2>4 DEF PaneInv, TypeOK
    <2>6. PollHoldsLock' /\ PollSequence' /\ ClaimStays' /\ NotSentYet'
      BY <2>3 DEF PollHoldsLock, PollSequence, ClaimStays, NotSentYet
    \* What has just been sent is what the poll had claimed.
    <2>7. restarts = 0 => SentIsClaimed'
      BY <1>2, <1>3, <2>1, <2>2 DEF ClaimStays, SentIsClaimed, NotSentYet
    <2> QED
      BY <1>1, <1>3, <2>5, <2>6, <2>7 DEF CompactInv
  <1> QED
    BY <1>4, <1>5, <1>6, <1>7, <1>8 DEF Poll

LEMMA CompactStep == CompactInv /\ [Next]_vars => CompactInv'
  BY MutationStep, AgentStep, PollStep DEF Next

LEMMA CompactInvHolds == Spec => []CompactInv
  <1> QED
    BY CompactInitInv, CompactStep, PTL DEF Spec

-----------------------------------------------------------------------------
(* The theorems.                                                           *)

(* A bound message is pasted into no other pane instance, and its Enter    *)
(* reaches another only if the server restarted between the second         *)
(* validation and the key; a sequence value names one mutation, and a      *)
(* resume fires once (send_text_checked, begin_pane_mutation,              *)
(* PaneMutationState).                                                     *)
THEOREM PaneStaysSafe == Spec => []PaneSafe
  <1>1. CompactInv => PaneSafe
    BY DEF CompactInv, PaneInv, SequenceInv, GateInv, PaneSafe
  <1> QED
    BY <1>1, CompactInvHolds, PTL

(* What Enter submits is the sender's own text, last, after texts that     *)
(* ended requests left in the composer; /compact goes to an empty composer *)
(* (send_text_checked, deliver_auto_compact).                              *)
THEOREM LeftoversOnlyJoin == Spec => OnlyLeftoversJoin
  <1>1. CompactInv /\ [Next]_vars =>
          [\A r \in Req : rpc[r] = "submit" /\ Submit(r) /\ composer # <<>> =>
             /\ composer[Len(composer)] = r
             /\ \A k \in 1..(Len(composer) - 1) :
                  composer[k] \in Req /\ rpc[composer[k]] = "done"]_mutationVars
    <2>1. CompactInv => \A k \in 1..(Len(composer) - 1) : k \in 1..Len(composer)
      BY DEF CompactInv, PaneInv, PaneTypeOK
    <2> QED
      BY <2>1 DEF CompactInv, PaneInv, OwnTextLast
  <1>2. CompactInv /\ [Next]_vars =>
          [\A i \in Proc : cpc[i] = "deliver" /\ cpc'[i] = "rest" => composer = <<>>]_vars
    BY DEF CompactInv, PollHoldsLock
  <1> QED
    BY <1>1, <1>2, CompactInvHolds, PTL DEF Spec, OnlyLeftoversJoin, SubmitsOwnText, CompactAlone

(* As long as the tmux server lives, /compact is not sent again for a log  *)
(* that has stayed above the threshold (auto_compact_once_blocking).       *)
THEOREM CompactsOnce == Spec => CompactedOnce
  <1>1. CompactInv /\ [Next]_vars =>
          [restarts = 0 => \A i \in Proc : cpc[i] = "deliver" /\ acted' # acted =>
             target[i] \notin sent]_vars
    BY DEF CompactInv, NotSentYet
  <1> QED
    BY <1>1, CompactInvHolds, PTL DEF Spec, CompactedOnce

-----------------------------------------------------------------------------
(* The leases of resumed conversations.                                    *)

USE LeaseActors, LeaseBounds DEF LookUp, Launching

-----------------------------------------------------------------------------
(* The inductive invariant.                                                *)

\* Between its reservation and its end a launch belongs to a process; from the
\* handover on it has its guard, before and after it has none.
LaunchShape ==
  \A r \in Launch :
    /\ lpc[r] \in {"new", "done"} => ~guarded[r]
    /\ lpc[r] \in {"held"} \cup Launching => guarded[r]
    /\ lpc[r] # "new" => proc[r] \in Web

\* The task of a lookup holds the lock file exactly while it looks up.
TaskHoldsFile == \A r \in Launch : lpc[r] = "check" <=> leaseFile = r

\* Without kills, a guard is the only one of its process and stands for the
\* reservation; behind the lookup a launch keeps the lock file for its process,
\* and no other pane carries the lease.
Exclusive ==
  NoKill =>
    /\ \A r \in Launch : guarded[r] => inFlight[proc[r]]
    /\ \A r, s \in Launch : guarded[r] /\ guarded[s] /\ proc[r] = proc[s] => r = s
    /\ \A r \in Launch : lpc[r] \in {"held"} \cup Launching =>
         leaseFile = proc[r] /\ Leased \subseteq {r}
    /\ \A r, s \in Leased : r = s

LeaseInv == LeaseTypeOK /\ LaunchShape /\ TaskHoldsFile /\ NoLeak /\ Exclusive

-----------------------------------------------------------------------------
(* The initial state and the steps.                                        *)

LEMMA LeaseInitInv == LeaseInit => LeaseInv
  BY DEF LeaseInit, LeaseInv, LeaseTypeOK, LaunchShape, TaskHoldsFile, NoLeak, Exclusive,
     Leased, LeasePC, PaneState

LEMMA ReleaseType ==
  ASSUME LeaseTypeOK, NEW i, Release(i)
  PROVE  /\ inFlight' \in [Web -> BOOLEAN] /\ active' \in [Web -> BOOLEAN]
         /\ leaseFile' \in Web \cup Launch \cup {Nobody}
  BY DEF LeaseTypeOK, Release

LEMMA DropGuardType ==
  ASSUME LeaseTypeOK, NEW r, DropGuard(r)
  PROVE  /\ inFlight' \in [Web -> BOOLEAN] /\ active' \in [Web -> BOOLEAN]
         /\ leaseFile' \in Web \cup Launch \cup {Nobody}
  BY ReleaseType DEF LeaseTypeOK, DropGuard, stateVars

LEMMA ActivateType ==
  ASSUME LeaseTypeOK, NEW i, NEW r, Activate(i, r)
  PROVE  /\ inFlight' \in [Web -> BOOLEAN] /\ active' \in [Web -> BOOLEAN]
         /\ leaseFile' \in Web \cup Launch \cup {Nobody}
  BY DEF LeaseTypeOK, Activate

LEMMA EndType ==
  ASSUME LeaseTypeOK, NEW r, End(r)
  PROVE  lpc' \in [Launch -> LeasePC] /\ guarded' \in [Launch -> BOOLEAN]
  BY DEF LeaseTypeOK, End, LeasePC

LEMMA LeaseTypeStep ==
  ASSUME LeaseTypeOK, LaunchShape, [LeaseNext]_leaseVars
  PROVE  LeaseTypeOK'
  <1>1. ASSUME NEW r \in Launch, LockFile(r) PROVE LeaseTypeOK'
    BY <1>1, DropGuardType, EndType DEF LockFile, LeaseTypeOK, LeasePC, stateVars, viewVars, killVars
  <1>2. ASSUME NEW r \in Launch, Check(r) PROVE LeaseTypeOK'
    <2>1. proc[r] \in Web /\ leaseFaults' \in Nat
      BY <1>2 DEF Check, LeaseFault, LeaseTypeOK, LaunchShape
    <2>2. lpc' \in [Launch -> LeasePC] /\ guarded' \in [Launch -> BOOLEAN]
      BY <1>2, EndType DEF Check, LeaseTypeOK, LeasePC
    <2>3. /\ inFlight' \in [Web -> BOOLEAN] /\ active' \in [Web -> BOOLEAN]
          /\ leaseFile' \in Web \cup Launch \cup {Nobody}
      BY <1>2, <2>1, ActivateType DEF Check, LeaseTypeOK, stateVars
    <2> QED
      BY <1>2, <2>1, <2>2, <2>3 DEF Check, LeaseTypeOK, viewVars, killVars
  <1>3. ASSUME NEW r \in Launch, Abandoned(r) PROVE LeaseTypeOK'
    BY <1>3 DEF Abandoned, End, LeaseTypeOK, LaunchShape, LeasePC, PaneState, Leased, Running, stateVars, viewVars, launchVars, killVars
  <1>4. ASSUME NEW r \in Launch, Begin(r) PROVE LeaseTypeOK'
    BY <1>4, DropGuardType, EndType DEF Begin, LeaseTypeOK, LeasePC, stateVars, viewVars, killVars
  <1>5. ASSUME NEW r \in Launch, Create(r) PROVE LeaseTypeOK'
    BY <1>5 DEF Create, TmuxStep, LeaseTypeOK, LaunchShape, LeasePC, PaneState, Leased, Running, stateVars, viewVars, launchVars, killVars
  <1>6. ASSUME NEW r \in Launch, PublishLease(r) PROVE LeaseTypeOK'
    BY <1>6 DEF PublishLease, TmuxStep, LeaseTypeOK, LaunchShape, LeasePC, PaneState, Leased, Running, stateVars, viewVars, launchVars, killVars
  <1>7. ASSUME NEW r \in Launch, RunAgent(r) PROVE LeaseTypeOK'
    BY <1>7 DEF RunAgent, TmuxStep, LeaseTypeOK, LaunchShape, LeasePC, PaneState, Leased, Running, stateVars, viewVars, launchVars, killVars
  <1>8. ASSUME NEW r \in Launch, Launched(r) PROVE LeaseTypeOK'
    BY <1>8 DEF Launched, Activate, End, LeaseTypeOK, LaunchShape, LeasePC, PaneState, Leased, Running, stateVars, viewVars, launchVars, killVars
  <1>9. ASSUME NEW r \in Launch, LaunchFails(r) PROVE LeaseTypeOK'
    <2>1. leaseFaults' \in Nat /\ pane' \in [Launch -> PaneState]
      BY <1>9 DEF LaunchFails, LeaseFault, LeaseTypeOK, PaneState
    <2> QED
      BY <1>9, <2>1, DropGuardType, EndType DEF LaunchFails, LeaseTypeOK, viewVars, killVars
  <1>10. ASSUME NEW r \in Launch, CancelLaunch(r) PROVE LeaseTypeOK'
    BY <1>10 DEF CancelLaunch, Release, LeaseTypeOK, LaunchShape, LeasePC, PaneState, Leased, Running, stateVars, viewVars, launchVars, killVars
  <1>11. ASSUME NEW r \in Launch, PaneEnds(r) PROVE LeaseTypeOK'
    BY <1>11 DEF PaneEnds, LeaseTypeOK, LaunchShape, LeasePC, PaneState, Leased, Running, stateVars, viewVars, launchVars, killVars
  <1>12. ASSUME NEW r \in Launch, NEW i \in Web, Reserve(r, i) PROVE LeaseTypeOK'
    <2>1. lpc' \in [Launch -> LeasePC] /\ proc' \in [Launch -> Web \cup {Nobody}]
      BY <1>12 DEF Reserve, LeaseTypeOK, LeasePC
    <2>2. inFlight' \in [Web -> BOOLEAN] /\ guarded' \in [Launch -> BOOLEAN]
      BY <1>12 DEF Reserve, LeaseTypeOK
    <2> QED
      BY <1>12, <2>1, <2>2 DEF Reserve, LeaseTypeOK, viewVars, killVars
  <1>13. ASSUME NEW i \in Web, Scan(i) PROVE LeaseTypeOK'
    BY <1>13 DEF Scan, LeaseTypeOK, LaunchShape, LeasePC, PaneState, Leased, Running, stateVars, viewVars, launchVars, killVars
  <1>14. ASSUME NEW i \in Web, Observe(i) PROVE LeaseTypeOK'
    BY <1>14 DEF Observe, LeaseTypeOK, LaunchShape, LeasePC, PaneState, Leased, Running, stateVars, viewVars, launchVars, killVars
  <1>15. ASSUME NEW i \in Web, WebDies(i) PROVE LeaseTypeOK'
    BY <1>15 DEF WebDies, LeaseTypeOK, LaunchShape, LeasePC, PaneState, Leased, Running, stateVars, viewVars, launchVars, killVars
  <1>16. ASSUME NEW k \in Killer, NEW i \in Web, Resolve(k, i) PROVE LeaseTypeOK'
    BY <1>16 DEF Resolve, LeaseTypeOK, LaunchShape, LeasePC, PaneState, Leased, Running, stateVars, viewVars, launchVars, killVars
  <1>17. ASSUME NEW k \in Killer, KillPane(k) PROVE LeaseTypeOK'
    BY <1>17 DEF KillPane, Release, LeaseTypeOK, LaunchShape, LeasePC, PaneState, Leased, Running, stateVars, viewVars, launchVars, killVars
  <1>18. ASSUME NEW k \in Killer, KillReleases(k) PROVE LeaseTypeOK'
    BY <1>18 DEF KillReleases, Release, LeaseTypeOK, LaunchShape, LeasePC, PaneState, Leased, Running, stateVars, viewVars, launchVars, killVars
  <1>19. CASE UNCHANGED leaseVars
    BY <1>19 DEF leaseVars, LeaseTypeOK, LaunchShape, LeasePC, PaneState, Leased, Running, stateVars, viewVars, launchVars, killVars
  <1> QED
    BY <1>1, <1>2, <1>3, <1>4, <1>5, <1>6, <1>7, <1>8, <1>9, <1>10, <1>11, <1>12, <1>13, <1>14, <1>15, <1>16, <1>17, <1>18, <1>19 DEF LeaseNext, LaunchStep

LEMMA ShapeStep ==
  ASSUME LeaseTypeOK, LaunchShape, TaskHoldsFile, [LeaseNext]_leaseVars
  PROVE  LaunchShape' /\ TaskHoldsFile'
  <1>1. ASSUME NEW r \in Launch, LockFile(r) PROVE LaunchShape' /\ TaskHoldsFile'
    BY <1>1 DEF LockFile, DropGuard, Release, End, LeaseTypeOK, LaunchShape, TaskHoldsFile, stateVars, viewVars, launchVars, killVars
  <1>2. ASSUME NEW r \in Launch, Check(r) PROVE LaunchShape' /\ TaskHoldsFile'
    BY <1>2 DEF Check, Activate, End, LeaseFault, LeaseTypeOK, LaunchShape, TaskHoldsFile, stateVars, viewVars, launchVars, killVars
  <1>3. ASSUME NEW r \in Launch, Abandoned(r) PROVE LaunchShape' /\ TaskHoldsFile'
    BY <1>3 DEF Abandoned, End, LeaseTypeOK, LaunchShape, TaskHoldsFile, stateVars, viewVars, launchVars, killVars
  <1>4. ASSUME NEW r \in Launch, Begin(r) PROVE LaunchShape' /\ TaskHoldsFile'
    BY <1>4 DEF Begin, DropGuard, Release, End, LeaseTypeOK, LaunchShape, TaskHoldsFile, stateVars, viewVars, launchVars, killVars
  <1>5. ASSUME NEW r \in Launch, Create(r) PROVE LaunchShape' /\ TaskHoldsFile'
    BY <1>5 DEF Create, TmuxStep, LeaseTypeOK, LaunchShape, TaskHoldsFile, stateVars, viewVars, launchVars, killVars
  <1>6. ASSUME NEW r \in Launch, PublishLease(r) PROVE LaunchShape' /\ TaskHoldsFile'
    BY <1>6 DEF PublishLease, TmuxStep, LeaseTypeOK, LaunchShape, TaskHoldsFile, stateVars, viewVars, launchVars, killVars
  <1>7. ASSUME NEW r \in Launch, RunAgent(r) PROVE LaunchShape' /\ TaskHoldsFile'
    BY <1>7 DEF RunAgent, TmuxStep, LeaseTypeOK, LaunchShape, TaskHoldsFile, stateVars, viewVars, launchVars, killVars
  <1>8. ASSUME NEW r \in Launch, Launched(r) PROVE LaunchShape' /\ TaskHoldsFile'
    BY <1>8 DEF Launched, Activate, End, LeaseTypeOK, LaunchShape, TaskHoldsFile, stateVars, viewVars, launchVars, killVars
  <1>9. ASSUME NEW r \in Launch, LaunchFails(r) PROVE LaunchShape' /\ TaskHoldsFile'
    BY <1>9 DEF LaunchFails, LeaseFault, DropGuard, Release, End, LeaseTypeOK, LaunchShape, TaskHoldsFile, stateVars, viewVars, launchVars, killVars
  <1>10. ASSUME NEW r \in Launch, CancelLaunch(r) PROVE LaunchShape' /\ TaskHoldsFile'
    BY <1>10 DEF CancelLaunch, Release, LeaseTypeOK, LaunchShape, TaskHoldsFile, stateVars, viewVars, launchVars, killVars
  <1>11. ASSUME NEW r \in Launch, PaneEnds(r) PROVE LaunchShape' /\ TaskHoldsFile'
    BY <1>11 DEF PaneEnds, LeaseTypeOK, LaunchShape, TaskHoldsFile, stateVars, viewVars, launchVars, killVars
  <1>12. ASSUME NEW r \in Launch, NEW i \in Web, Reserve(r, i) PROVE LaunchShape' /\ TaskHoldsFile'
    BY <1>12 DEF Reserve, LeaseTypeOK, LaunchShape, TaskHoldsFile, stateVars, viewVars, launchVars, killVars
  <1>13. ASSUME NEW i \in Web, Scan(i) PROVE LaunchShape' /\ TaskHoldsFile'
    BY <1>13 DEF Scan, LeaseTypeOK, LaunchShape, TaskHoldsFile, stateVars, viewVars, launchVars, killVars
  <1>14. ASSUME NEW i \in Web, Observe(i) PROVE LaunchShape' /\ TaskHoldsFile'
    BY <1>14 DEF Observe, LeaseTypeOK, LaunchShape, TaskHoldsFile, stateVars, viewVars, launchVars, killVars
  <1>15. ASSUME NEW i \in Web, WebDies(i) PROVE LaunchShape' /\ TaskHoldsFile'
    BY <1>15, ZenonT(40) DEF WebDies, LeaseTypeOK, LaunchShape, TaskHoldsFile, stateVars, viewVars, launchVars, killVars
  <1>16. ASSUME NEW k \in Killer, NEW i \in Web, Resolve(k, i) PROVE LaunchShape' /\ TaskHoldsFile'
    BY <1>16 DEF Resolve, LeaseTypeOK, LaunchShape, TaskHoldsFile, stateVars, viewVars, launchVars, killVars
  <1>17. ASSUME NEW k \in Killer, KillPane(k) PROVE LaunchShape' /\ TaskHoldsFile'
    BY <1>17 DEF KillPane, Release, LeaseTypeOK, LaunchShape, TaskHoldsFile, stateVars, viewVars, launchVars, killVars
  <1>18. ASSUME NEW k \in Killer, KillReleases(k) PROVE LaunchShape' /\ TaskHoldsFile'
    BY <1>18 DEF KillReleases, Release, LeaseTypeOK, LaunchShape, TaskHoldsFile, stateVars, viewVars, launchVars, killVars
  <1>19. CASE UNCHANGED leaseVars
    BY <1>19 DEF leaseVars, LeaseTypeOK, LaunchShape, TaskHoldsFile, stateVars, viewVars, launchVars, killVars
  <1> QED
    BY <1>1, <1>2, <1>3, <1>4, <1>5, <1>6, <1>7, <1>8, <1>9, <1>10, <1>11, <1>12, <1>13, <1>14, <1>15, <1>16, <1>17, <1>18, <1>19 DEF LeaseNext, LaunchStep

LEMMA NoLeakStep ==
  ASSUME LeaseTypeOK, LaunchShape, TaskHoldsFile, NoLeak, [LeaseNext]_leaseVars
  PROVE  NoLeak'
  <1>1. ASSUME NEW r \in Launch, LockFile(r) PROVE NoLeak'
    BY <1>1 DEF LockFile, DropGuard, Release, End, LeaseTypeOK, LaunchShape, TaskHoldsFile, NoLeak, stateVars, viewVars, launchVars, killVars
  <1>2. ASSUME NEW r \in Launch, Check(r) PROVE NoLeak'
    BY <1>2 DEF Check, Activate, End, LeaseFault, LeaseTypeOK, LaunchShape, TaskHoldsFile, NoLeak, stateVars, viewVars, launchVars, killVars
  <1>3. ASSUME NEW r \in Launch, Abandoned(r) PROVE NoLeak'
    BY <1>3 DEF Abandoned, End, LeaseTypeOK, LaunchShape, TaskHoldsFile, NoLeak, stateVars, viewVars, launchVars, killVars
  <1>4. ASSUME NEW r \in Launch, Begin(r) PROVE NoLeak'
    BY <1>4, SMTT(30) DEF Begin, DropGuard, Release, End, LeaseTypeOK, LaunchShape, TaskHoldsFile, NoLeak, stateVars, viewVars, launchVars, killVars
  <1>5. ASSUME NEW r \in Launch, Create(r) PROVE NoLeak'
    BY <1>5 DEF Create, TmuxStep, LeaseTypeOK, LaunchShape, TaskHoldsFile, NoLeak, stateVars, viewVars, launchVars, killVars
  <1>6. ASSUME NEW r \in Launch, PublishLease(r) PROVE NoLeak'
    BY <1>6 DEF PublishLease, TmuxStep, LeaseTypeOK, LaunchShape, TaskHoldsFile, NoLeak, stateVars, viewVars, launchVars, killVars
  <1>7. ASSUME NEW r \in Launch, RunAgent(r) PROVE NoLeak'
    BY <1>7 DEF RunAgent, TmuxStep, LeaseTypeOK, LaunchShape, TaskHoldsFile, NoLeak, stateVars, viewVars, launchVars, killVars
  <1>8. ASSUME NEW r \in Launch, Launched(r) PROVE NoLeak'
    BY <1>8 DEF Launched, Activate, End, LeaseTypeOK, LaunchShape, TaskHoldsFile, NoLeak, stateVars, viewVars, launchVars, killVars
  <1>9. ASSUME NEW r \in Launch, LaunchFails(r) PROVE NoLeak'
    BY <1>9 DEF LaunchFails, LeaseFault, DropGuard, Release, End, LeaseTypeOK, LaunchShape, TaskHoldsFile, NoLeak, stateVars, viewVars, launchVars, killVars
  <1>10. ASSUME NEW r \in Launch, CancelLaunch(r) PROVE NoLeak'
    BY <1>10 DEF CancelLaunch, Release, LeaseTypeOK, LaunchShape, TaskHoldsFile, NoLeak, stateVars, viewVars, launchVars, killVars
  <1>11. ASSUME NEW r \in Launch, PaneEnds(r) PROVE NoLeak'
    BY <1>11 DEF PaneEnds, LeaseTypeOK, LaunchShape, TaskHoldsFile, NoLeak, stateVars, viewVars, launchVars, killVars
  <1>12. ASSUME NEW r \in Launch, NEW i \in Web, Reserve(r, i) PROVE NoLeak'
    BY <1>12 DEF Reserve, LeaseTypeOK, LaunchShape, TaskHoldsFile, NoLeak, stateVars, viewVars, launchVars, killVars
  <1>13. ASSUME NEW i \in Web, Scan(i) PROVE NoLeak'
    BY <1>13 DEF Scan, LeaseTypeOK, LaunchShape, TaskHoldsFile, NoLeak, stateVars, viewVars, launchVars, killVars
  <1>14. ASSUME NEW i \in Web, Observe(i) PROVE NoLeak'
    BY <1>14 DEF Observe, LeaseTypeOK, LaunchShape, TaskHoldsFile, NoLeak, stateVars, viewVars, launchVars, killVars
  <1>15. ASSUME NEW i \in Web, WebDies(i) PROVE NoLeak'
    BY <1>15 DEF WebDies, LeaseTypeOK, LaunchShape, TaskHoldsFile, NoLeak, stateVars, viewVars, launchVars, killVars
  <1>16. ASSUME NEW k \in Killer, NEW i \in Web, Resolve(k, i) PROVE NoLeak'
    BY <1>16 DEF Resolve, LeaseTypeOK, LaunchShape, TaskHoldsFile, NoLeak, stateVars, viewVars, launchVars, killVars
  <1>17. ASSUME NEW k \in Killer, KillPane(k) PROVE NoLeak'
    BY <1>17 DEF KillPane, Release, LeaseTypeOK, LaunchShape, TaskHoldsFile, NoLeak, stateVars, viewVars, launchVars, killVars
  <1>18. ASSUME NEW k \in Killer, KillReleases(k) PROVE NoLeak'
    BY <1>18 DEF KillReleases, Release, LeaseTypeOK, LaunchShape, TaskHoldsFile, NoLeak, stateVars, viewVars, launchVars, killVars
  <1>19. CASE UNCHANGED leaseVars
    BY <1>19 DEF leaseVars, LeaseTypeOK, LaunchShape, TaskHoldsFile, NoLeak, stateVars, viewVars, launchVars, killVars
  <1> QED
    BY <1>1, <1>2, <1>3, <1>4, <1>5, <1>6, <1>7, <1>8, <1>9, <1>10, <1>11, <1>12, <1>13, <1>14, <1>15, <1>16, <1>17, <1>18, <1>19 DEF LeaseNext, LaunchStep

LEMMA ExclusiveStep ==
  ASSUME LeaseInv, [LeaseNext]_leaseVars
  PROVE  Exclusive'
  <1>1. ASSUME NEW r \in Launch, LockFile(r) PROVE Exclusive'
    <2>1. UNCHANGED <<pane, proc, kpc>> /\ lpc[r] = "lock"
      BY <1>1 DEF LockFile, killVars
    <2>2. CASE leaseFile = Nobody /\ leaseFile' = r /\ lpc' = [lpc EXCEPT ![r] = "check"]
               /\ UNCHANGED <<stateVars, guarded>>
      BY <2>1, <2>2 DEF LeaseInv, LeaseTypeOK, LaunchShape, TaskHoldsFile, NoKill, Leased, Exclusive, stateVars
    <2>3. CASE guarded[r] /\ Release(proc[r]) /\ End(r)
      BY <2>1, <2>3 DEF Release, End, LeaseInv, LeaseTypeOK, LaunchShape, TaskHoldsFile, NoKill, Leased, Exclusive
    <2>4. CASE ~guarded[r] /\ UNCHANGED <<stateVars, leaseFile>> /\ End(r)
      BY <2>1, <2>4 DEF End, LeaseInv, LeaseTypeOK, LaunchShape, TaskHoldsFile, NoKill, Leased, Exclusive, stateVars
    <2> QED
      BY <1>1, <2>2, <2>3, <2>4 DEF LockFile, DropGuard
  <1>2. ASSUME NEW r \in Launch, Check(r) PROVE Exclusive'
    BY <1>2 DEF Check, Activate, End, LeaseFault, LeaseInv, LeaseTypeOK, LaunchShape, TaskHoldsFile, NoKill, Leased, Exclusive, stateVars, viewVars, launchVars, killVars
  <1>3. ASSUME NEW r \in Launch, Abandoned(r) PROVE Exclusive'
    BY <1>3 DEF Abandoned, End, LeaseInv, LeaseTypeOK, LaunchShape, TaskHoldsFile, NoKill, Leased, Exclusive, stateVars, viewVars, launchVars, killVars
  <1>4. ASSUME NEW r \in Launch, Begin(r) PROVE Exclusive'
    BY <1>4, SMTT(30) DEF Begin, DropGuard, Release, End, LeaseInv, LeaseTypeOK, LaunchShape, TaskHoldsFile, NoKill, Leased, Exclusive, stateVars, viewVars, launchVars, killVars
  <1>5. ASSUME NEW r \in Launch, Create(r) PROVE Exclusive'
    BY <1>5 DEF Create, TmuxStep, LeaseInv, LeaseTypeOK, LaunchShape, TaskHoldsFile, NoKill, Leased, Exclusive, stateVars, viewVars, launchVars, killVars
  <1>6. ASSUME NEW r \in Launch, PublishLease(r) PROVE Exclusive'
    BY <1>6 DEF PublishLease, TmuxStep, LeaseInv, LeaseTypeOK, LaunchShape, TaskHoldsFile, NoKill, Leased, Exclusive, stateVars, viewVars, launchVars, killVars
  <1>7. ASSUME NEW r \in Launch, RunAgent(r) PROVE Exclusive'
    BY <1>7 DEF RunAgent, TmuxStep, LeaseInv, LeaseTypeOK, LaunchShape, TaskHoldsFile, NoKill, Leased, Exclusive, stateVars, viewVars, launchVars, killVars
  <1>8. ASSUME NEW r \in Launch, Launched(r) PROVE Exclusive'
    BY <1>8 DEF Launched, Activate, End, LeaseInv, LeaseTypeOK, LaunchShape, TaskHoldsFile, NoKill, Leased, Exclusive, stateVars, viewVars, launchVars, killVars
  <1>9. ASSUME NEW r \in Launch, LaunchFails(r) PROVE Exclusive'
    BY <1>9 DEF LaunchFails, LeaseFault, DropGuard, Release, End, LeaseInv, LeaseTypeOK, LaunchShape, TaskHoldsFile, NoKill, Leased, Exclusive, stateVars, viewVars, launchVars, killVars
  <1>10. ASSUME NEW r \in Launch, CancelLaunch(r) PROVE Exclusive'
    BY <1>10 DEF CancelLaunch, Release, LeaseInv, LeaseTypeOK, LaunchShape, TaskHoldsFile, NoKill, Leased, Exclusive, stateVars, viewVars, launchVars, killVars
  <1>11. ASSUME NEW r \in Launch, PaneEnds(r) PROVE Exclusive'
    BY <1>11 DEF PaneEnds, LeaseInv, LeaseTypeOK, LaunchShape, TaskHoldsFile, NoKill, Leased, Exclusive, stateVars, viewVars, launchVars, killVars
  <1>12. ASSUME NEW r \in Launch, NEW i \in Web, Reserve(r, i) PROVE Exclusive'
    BY <1>12 DEF Reserve, LeaseInv, LeaseTypeOK, LaunchShape, TaskHoldsFile, NoKill, Leased, Exclusive, stateVars, viewVars, launchVars, killVars
  <1>13. ASSUME NEW i \in Web, Scan(i) PROVE Exclusive'
    BY <1>13 DEF Scan, LeaseInv, LeaseTypeOK, LaunchShape, TaskHoldsFile, NoKill, Leased, Exclusive, stateVars, viewVars, launchVars, killVars
  <1>14. ASSUME NEW i \in Web, Observe(i) PROVE Exclusive'
    BY <1>14 DEF Observe, LeaseInv, LeaseTypeOK, LaunchShape, TaskHoldsFile, NoKill, Leased, Exclusive, stateVars, viewVars, launchVars, killVars
  <1>15. ASSUME NEW i \in Web, WebDies(i) PROVE Exclusive'
    <2>1. /\ inFlight' = [inFlight EXCEPT ![i] = FALSE] /\ UNCHANGED <<pane, proc>>
          /\ \A r \in Launch : /\ lpc'[r] = IF proc[r] = i THEN "done" ELSE lpc[r]
                              /\ guarded'[r] = (guarded[r] /\ proc[r] # i)
          /\ leaseFile' \in {leaseFile, Nobody}
          /\ leaseFile' # leaseFile => leaseFile = i \/ \E r \in Launch : proc[r] = i /\ leaseFile = r
      BY <1>15 DEF WebDies
    <2>2. NoKill' => NoKill
      BY <1>15 DEF WebDies, NoKill, LeaseInv, LeaseTypeOK
    <2>3. Leased' = Leased
      BY <2>1 DEF Leased
    <2> SUFFICES ASSUME NoKill' PROVE Exclusive!2'
      BY DEF Exclusive
    <2>4. Exclusive!2
      BY <2>2 DEF LeaseInv, Exclusive
    <2>5. \A r \in Launch : lpc'[r] \in {"held"} \cup Launching => leaseFile' = proc'[r] /\ Leased' \subseteq {r}
      BY <2>1, <2>3, <2>4 DEF LeaseInv, LaunchShape, LeaseTypeOK
    <2>6. \A r \in Launch : guarded'[r] => inFlight'[proc'[r]]
      BY <2>1, <2>4 DEF LeaseInv, LaunchShape, LeaseTypeOK
    <2> QED
      BY <2>1, <2>3, <2>4, <2>5, <2>6
  <1>16. ASSUME NEW k \in Killer, NEW i \in Web, Resolve(k, i) PROVE Exclusive'
    BY <1>16 DEF Resolve, LeaseInv, LeaseTypeOK, LaunchShape, TaskHoldsFile, NoKill, Leased, Exclusive, stateVars, viewVars, launchVars, killVars
  <1>17. ASSUME NEW k \in Killer, KillPane(k) PROVE Exclusive'
    BY <1>17 DEF KillPane, Release, LeaseInv, LeaseTypeOK, LaunchShape, TaskHoldsFile, NoKill, Leased, Exclusive, stateVars, viewVars, launchVars, killVars
  <1>18. ASSUME NEW k \in Killer, KillReleases(k) PROVE Exclusive'
    BY <1>18 DEF KillReleases, Release, LeaseInv, LeaseTypeOK, LaunchShape, TaskHoldsFile, NoKill, Leased, Exclusive, stateVars, viewVars, launchVars, killVars
  <1>19. CASE UNCHANGED leaseVars
    BY <1>19 DEF leaseVars, LeaseInv, LeaseTypeOK, LaunchShape, TaskHoldsFile, NoKill, Leased, Exclusive, stateVars, viewVars, launchVars, killVars
  <1> QED
    BY <1>1, <1>2, <1>3, <1>4, <1>5, <1>6, <1>7, <1>8, <1>9, <1>10, <1>11, <1>12, <1>13, <1>14, <1>15, <1>16, <1>17, <1>18, <1>19 DEF LeaseNext, LaunchStep

-----------------------------------------------------------------------------
(* The theorems.                                                           *)

LEMMA OneOfEqual ==
  ASSUME NEW S, \A x, y \in S : x = y
  PROVE  Cardinality(S) <= 1
  <1>1. CASE S = {}
    BY <1>1, FS_EmptySet
  <1>2. CASE S # {}
    <2>1. PICK x \in S : S = {x}
      BY <1>2
    <2>2. Cardinality({x}) = 1
      BY FS_Singleton
    <2> QED
      BY <2>1, <2>2
  <1> QED
    BY <1>1, <1>2

LEMMA LeaseInvHolds == LeaseSpec => []LeaseInv
  <1>1. LeaseInv /\ [LeaseNext]_leaseVars => LeaseInv'
    BY LeaseTypeStep, ShapeStep, NoLeakStep, ExclusiveStep DEF LeaseInv
  <1> QED
    BY LeaseInitInv, <1>1, PTL DEF LeaseSpec

(* The reservations, the lock file and the lease on the pane keep a saved  *)
(* conversation in one pane while nobody kills, the lock file is held      *)
(* until the lease is on the pane, and nothing is left behind              *)
(* (acquire_resume_lease, ResumeLeaseGuard): for every number of processes,*)
(* launches, kill requests, crashes and failures.                          *)
THEOREM LaunchesAreSafe == LeaseSpec => []LeaseSafe
  <1>1. ASSUME LeaseInv PROVE LeaseSafe
    <2>1. OneConversationUnlessKilled
      <3> SUFFICES ASSUME NoKill PROVE \A r, s \in Running : r = s
        BY OneOfEqual DEF OneConversationUnlessKilled, OneConversation
      <3> QED
        BY <1>1 DEF LeaseInv, Exclusive, Leased, Running
    <2>2. LockHeldUntilDurable
      BY <1>1 DEF LeaseInv, Exclusive, LockHeldUntilDurable
    <2> QED
      BY <1>1, <2>1, <2>2 DEF LeaseInv, LeaseSafe
  <1> QED
    BY LeaseInvHolds, <1>1, PTL
=============================================================================
