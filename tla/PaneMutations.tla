---------------------------- MODULE PaneMutations ----------------------------
(***************************************************************************)
(* How one tmux pane is mutated (control.rs, tmux.rs, attachment.rs).      *)
(*                                                                         *)
(* Every request - message, image, model switch, key, interrupt, explicit  *)
(* resume, kill - is a blocking task: it queues on the pane's lock file,   *)
(* checks what may have changed while it waited, advances the pane's       *)
(* durable mutation sequence, and drives tmux in one or more commands.  It *)
(* runs to its end whatever becomes of its client.  Requests of one        *)
(* process also share a gate whose generation tells a queued resume that   *)
(* the pane was changed meanwhile.  Panes share nothing, so one is enough. *)
(*                                                                         *)
(* Abstractions.  A text is its request; the composer holds the texts      *)
(* pasted and not yet submitted.  Loading a paste buffer and validating    *)
(* the instance after it are a step: what falls between them fails.  The   *)
(* lock file and the gate's mutex are taken in this order by everyone, so  *)
(* they are one lock.                                                      *)
(***************************************************************************)
EXTENDS Integers, Sequences, FiniteSets

CONSTANTS
  Proc,        \* web processes of one owner: the old and the new service
  Req,         \* requests; each is made at most once
  None,        \* Option::None, and the holder of a free lock
  MaxRestart,  \* bound on tmux server restarts that hand out the pane id again
  MaxCrash     \* bound on crashes of a web process

ASSUME PaneBounds == MaxRestart \in Nat /\ MaxCrash \in Nat
ASSUME PaneNone == None \notin Req \cup Proc \cup Nat
ASSUME PaneActors == Req \cap Proc = {}

\* What a request asks; a draft is a message that is not submitted.
Kind == {"message", "draft", "switch", "key", "resume", "kill"}
Texts == {"message", "draft", "switch"}
RPC == {"new", "wait", "read", "advance", "deliver", "paste", "pause", "submit", "done"}

VARIABLES
  inst,      \* @atmux_identity: which pane the pane id denotes
  alive,     \* whether it exists
  resumable, \* the agent is an idle Claude with one exact saved conversation
  composer,  \* texts pasted and not submitted
  seq,       \* @atmux_mutation_sequence
  buffers,   \* requests whose paste buffer the tmux server holds
  holder,    \* who holds the pane's lock: a request, or a process's scheduler
  gate,      \* each process's PaneMutationGate.generation
  snap,      \* the instance each process's overview shows
  rpc,       \* where each request is
  req,       \* what it is
  next,      \* the sequence it read, plus one
  restarts, crashes,  \* bounded environment steps
  begun,     \* history: the processes that advanced the sequence, in order
  since,     \* history: how long begun was when each request arrived
  acted,     \* history: instance and sequence of every effect, by whom, for whom
  raced      \* history: requests about to press Enter when the server restarted

Request == [proc : Proc, kind : Kind, instance : Nat \cup {None}, token : Nat]
Actor == Req \cup Proc
Act == {"paste", "enter", "key", "resume", "kill", "compact"}
Effect == [inst : Nat, seq : Nat, by : Actor, act : Act, for : Nat \cup {None}]

paneVars == <<inst, alive, resumable, composer, seq, buffers>>
procVars == <<gate, snap>>
reqVars == <<rpc, req, next, since>>
boundVars == <<restarts, crashes>>
histVars == <<begun, acted, raced>>
mutationVars == <<paneVars, holder, procVars, reqVars, boundVars, histVars>>

PaneTypeOK ==
  /\ inst \in Nat /\ alive \in BOOLEAN /\ resumable \in BOOLEAN
  /\ composer \in Seq(Actor) /\ seq \in Nat /\ buffers \in SUBSET Req
  /\ holder \in Actor \cup {None}
  /\ gate \in [Proc -> Nat] /\ snap \in [Proc -> Nat \cup {None}]
  /\ rpc \in [Req -> RPC] /\ req \in [Req -> Request \cup {None}]
  /\ next \in [Req -> Nat]
  /\ restarts \in Nat /\ crashes \in Nat
  /\ begun \in Seq(Proc) /\ since \in [Req -> Nat]
  /\ acted \in SUBSET Effect /\ raced \in SUBSET Req

PaneInit ==
  /\ inst = 0 /\ alive = TRUE /\ resumable = TRUE
  /\ composer = <<>> /\ seq = 0 /\ buffers = {} /\ holder = None
  /\ gate = [i \in Proc |-> 0] /\ snap = [i \in Proc |-> 0]
  /\ rpc = [r \in Req |-> "new"] /\ req = [r \in Req |-> None]
  /\ next = [r \in Req |-> 0] /\ since = [r \in Req |-> 0]
  /\ restarts = 0 /\ crashes = 0
  /\ begun = <<>> /\ acted = {} /\ raced = {}

-----------------------------------------------------------------------------
(* Requests.                                                               *)

Open == {r \in Req : rpc[r] \notin {"new", "done"}}
OpenOf(i) == {r \in Open : req[r].proc = i}

(* The process found the pane in its overview, and the client's instance,  *)
(* if it named one, is the one shown there.  A resume notes the gate's     *)
(* generation before it waits.                                             *)
Arrive(r, i, kind) ==
  /\ rpc[r] = "new" /\ snap[i] # None
  /\ \E bound \in BOOLEAN :
       /\ bound => kind \in {"message", "draft", "key"}
       /\ req' = [req EXCEPT ![r] =
            [proc |-> i, kind |-> kind, token |-> gate[i],
             instance |-> IF bound THEN snap[i] ELSE None]]
  /\ rpc' = [rpc EXCEPT ![r] = "wait"]
  /\ since' = [since EXCEPT ![r] = Len(begun)]
  /\ UNCHANGED <<paneVars, holder, procVars, next, boundVars, histVars>>

\* What a request was is no longer needed when it is answered.
Forget(R) ==
  /\ req' = [r \in Req |-> IF r \in R THEN None ELSE req[r]]
  /\ next' = [r \in Req |-> IF r \in R THEN 0 ELSE next[r]]
  /\ since' = [r \in Req |-> IF r \in R THEN 0 ELSE since[r]]

\* Mutants of Finish: the gate counts its holders in the generation; the gate
\* is dropped although others of its process wait for it.
FinishCountsDown(r) ==
  LET i == req[r].proc IN
  /\ rpc' = [rpc EXCEPT ![r] = "done"]
  /\ holder' = None
  /\ gate' = [gate EXCEPT ![i] = @ - 1]
  /\ Forget({r})

FinishDropsGate(r) ==
  LET i == req[r].proc IN
  /\ rpc' = [rpc EXCEPT ![r] = "done"]
  /\ holder' = None
  /\ gate' = [gate EXCEPT ![i] = 0]
  /\ Forget({r})

(* The lock is dropped.  A gate lives as long as a request of its process  *)
(* holds it (prompt_lock keeps only Weak references).                      *)
Finish(r) ==
  LET i == req[r].proc IN
  /\ rpc' = [rpc EXCEPT ![r] = "done"]
  /\ holder' = None
  /\ gate' = [gate EXCEPT ![i] = IF OpenOf(i) = {r} THEN 0 ELSE @]
  /\ Forget({r})

\* validate_live_pane_instance
InstanceOK(r) == req[r].instance = None \/ (alive /\ req[r].instance = inst)

\* resume_request_is_current
Current(r) == gate[req[r].proc] = req[r].token

\* What a request checks when it has the lock.
Admitted(r) ==
  /\ InstanceOK(r)
  /\ req[r].kind = "resume" => Current(r) /\ alive /\ resumable

\* Mutant: the lock is not exclusive.
LockShared(r) ==
  /\ rpc[r] = "wait" /\ Admitted(r)
  /\ holder' = r
  /\ rpc' = [rpc EXCEPT ![r] = "read"]
  /\ UNCHANGED <<paneVars, procVars, req, next, since, boundVars, histVars>>

Lock(r) ==
  /\ rpc[r] = "wait" /\ holder = None /\ Admitted(r)
  /\ holder' = r
  /\ rpc' = [rpc EXCEPT ![r] = "read"]
  /\ UNCHANGED <<paneVars, procVars, req, next, since, boundVars, histVars>>

\* The lock is taken, the check fails, the lock is dropped.
Reject(r) ==
  /\ rpc[r] = "wait" /\ holder = None /\ ~Admitted(r)
  /\ Finish(r)
  /\ UNCHANGED <<paneVars, snap, boundVars, histVars>>

\* advance_pane_mutation_sequence: the option is read ...
ReadSequence(r) ==
  /\ rpc[r] = "read" /\ alive
  /\ next' = [next EXCEPT ![r] = seq + 1]
  /\ rpc' = [rpc EXCEPT ![r] = "advance"]
  /\ UNCHANGED <<paneVars, holder, procVars, req, since, boundVars, histVars>>

\* ... and set; then begin_pane_mutation marks the gate.
Advance(r) ==
  /\ rpc[r] = "advance" /\ alive
  /\ seq' = next[r]
  /\ gate' = [gate EXCEPT ![req[r].proc] = @ + 1]
  /\ begun' = Append(begun, req[r].proc)
  /\ rpc' = [rpc EXCEPT ![r] = "deliver"]
  /\ UNCHANGED <<inst, alive, resumable, composer, buffers, holder, snap, req, next,
                 since, boundVars, acted, raced>>

\* An effect of a on the pane: what it does, meant for instance n.
Acts(a, act, n) ==
  acted' = acted \cup {[inst |-> inst, seq |-> seq, by |-> a, act |-> act, for |-> n]}
Effects(r, act) == Acts(r, act, req[r].instance)

(* send_text_checked: the text is loaded into a buffer and the instance is *)
(* validated; after the paste and a pause it is validated again.  Tmux     *)
(* commands of their own, both of them.                                    *)
Validate(r) ==
  /\ rpc[r] \in {"deliver", "pause"} /\ InstanceOK(r)
  /\ \/ /\ rpc[r] = "deliver" /\ req[r].kind \in Texts /\ alive
        /\ rpc' = [rpc EXCEPT ![r] = "paste"]
        /\ buffers' = IF req[r].kind = "switch" THEN buffers ELSE buffers \cup {r}
     \/ /\ rpc[r] = "pause"
        /\ rpc' = [rpc EXCEPT ![r] = "submit"]
        /\ UNCHANGED buffers
  /\ UNCHANGED <<inst, alive, resumable, composer, seq, holder, procVars, req, next, since,
                 boundVars, histVars>>

(* paste-buffer, which fails without its buffer; a picker of switch_model  *)
(* types.  A draft ends there.                                             *)
Paste(r) ==
  /\ rpc[r] = "paste" /\ alive /\ (req[r].kind = "switch" \/ r \in buffers)
  /\ composer' = Append(composer, r)
  /\ Effects(r, "paste")
  /\ buffers' = buffers \ {r}
  /\ IF req[r].kind = "draft" THEN Finish(r)
     ELSE /\ rpc' = [rpc EXCEPT ![r] = "pause"]
          /\ UNCHANGED <<holder, gate, req, next, since>>
  /\ UNCHANGED <<inst, alive, resumable, seq, snap, boundVars, begun, raced>>

\* Mutant: no second validation.
SubmitUnchecked(r) ==
  /\ rpc[r] \in {"pause", "submit"} /\ alive
  /\ composer' = <<>> /\ resumable' = FALSE
  /\ Effects(r, "enter")
  /\ Finish(r)
  /\ UNCHANGED <<inst, alive, seq, buffers, snap, boundVars, begun, raced>>

\* send-keys Enter, to whatever has the pane id; nothing cleared the composer.
Submit(r) ==
  /\ rpc[r] = "submit" /\ alive
  /\ composer' = <<>> /\ resumable' = FALSE
  /\ Effects(r, "enter")
  /\ Finish(r)
  /\ UNCHANGED <<inst, alive, seq, buffers, snap, boundVars, begun, raced>>

\* One key, or an interrupt; the agent may clear its composer.
Key(r) ==
  /\ rpc[r] = "deliver" /\ req[r].kind = "key" /\ alive
  /\ composer' \in {composer, <<>>} /\ resumable' \in BOOLEAN
  /\ Effects(r, "key")
  /\ Finish(r)
  /\ UNCHANGED <<inst, alive, seq, buffers, snap, boundVars, begun, raced>>

\* Tmux::resume_claude: the agent is replaced in place.
Respawn(r) ==
  /\ rpc[r] = "deliver" /\ req[r].kind = "resume" /\ alive
  /\ composer' = <<>> /\ resumable' \in BOOLEAN
  /\ Effects(r, "resume")
  /\ Finish(r)
  /\ UNCHANGED <<inst, alive, seq, buffers, snap, boundVars, begun, raced>>

\* Tmux::kill
Kill(r) ==
  /\ rpc[r] = "deliver" /\ req[r].kind = "kill" /\ alive
  /\ alive' = FALSE /\ composer' = <<>> /\ resumable' = FALSE
  /\ Effects(r, "kill")
  /\ Finish(r)
  /\ UNCHANGED <<inst, seq, buffers, snap, boundVars, begun, raced>>

(* A tmux command fails, or an instance is no longer the expected one: the *)
(* error returns and drops the lock.  What was pasted stays.               *)
Fail(r) ==
  /\ rpc[r] \in {"read", "advance", "deliver", "paste", "pause", "submit"}
  /\ Finish(r)
  /\ buffers' = buffers \ {r}
  /\ UNCHANGED <<inst, alive, resumable, composer, seq, snap, boundVars, histVars>>

RequestStep(r) ==
  \/ Lock(r) \/ Reject(r) \/ ReadSequence(r) \/ Advance(r) \/ Validate(r)
  \/ Paste(r) \/ Submit(r) \/ Key(r) \/ Respawn(r) \/ Kill(r) \/ Fail(r)

-----------------------------------------------------------------------------
(* The process and the pane.                                               *)

\* ControlPlane::refresh
Refresh(i) ==
  /\ snap' = [snap EXCEPT ![i] = IF alive THEN inst ELSE None]
  /\ UNCHANGED <<paneVars, holder, gate, reqVars, boundVars, histVars>>

\* The operating system drops the lock of a holder in S.
Unlocked(S) == IF holder \in S THEN None ELSE holder

\* The process dies: its requests, its gate and its locks are gone.
Crash(i) ==
  /\ crashes < MaxCrash /\ crashes' = crashes + 1
  /\ rpc' = [r \in Req |-> IF r \in OpenOf(i) THEN "done" ELSE rpc[r]]
  /\ Forget(OpenOf(i))
  /\ holder' = Unlocked(OpenOf(i) \cup {i})
  /\ gate' = [gate EXCEPT ![i] = 0]
  /\ snap' = [snap EXCEPT ![i] = IF alive THEN inst ELSE None]
  /\ buffers' = buffers \ OpenOf(i)
  /\ UNCHANGED <<inst, alive, resumable, composer, seq, restarts, histVars>>

(* The agent works, finishes, ends up at a dialog, or is replaced by a user *)
(* attached to tmux: no lock, no sequence.                                 *)
AgentTurn ==
  /\ alive /\ resumable' \in BOOLEAN /\ composer' \in {composer, <<>>}
  /\ UNCHANGED <<inst, alive, seq, buffers, holder, procVars, reqVars, boundVars, histVars>>

\* The tmux server restarts: another pane gets the id, without options, and the
\* buffers are gone.
ServerRestart ==
  /\ restarts < MaxRestart /\ restarts' = restarts + 1
  /\ inst' = inst + 1 /\ alive' = TRUE
  /\ resumable' \in BOOLEAN /\ composer' = <<>> /\ seq' = 0 /\ buffers' = {}
  /\ raced' = raced \cup {r \in Req : rpc[r] = "submit"}
  /\ UNCHANGED <<holder, procVars, reqVars, crashes, begun, acted>>

PaneNext ==
  \/ \E r \in Req : RequestStep(r) \/ \E i \in Proc, k \in Kind : Arrive(r, i, k)
  \/ \E i \in Proc : Refresh(i) \/ Crash(i)
  \/ AgentTurn \/ ServerRestart

PaneSpec == PaneInit /\ [][PaneNext]_mutationVars

PaneFairness == \A r \in Req : WF_mutationVars(RequestStep(r))
PaneFairSpec == PaneSpec /\ PaneFairness

-----------------------------------------------------------------------------
(* Properties.                                                             *)

(* Each value of the durable sequence names one mutation: whoever reads    *)
(* the sequence under the lock and finds it unchanged later knows that     *)
(* atmux did nothing to the pane (tmux.rs, advance_pane_mutation_sequence; *)
(* what maintenance plans and claims rest on).                             *)
SequenceNames ==
  \A e, f \in acted : e.inst = f.inst /\ e.seq = f.seq => e.by = f.by

(* What Enter submits ends with the text of the request that sends it, and *)
(* what comes before was left there by requests that have ended: drafts,   *)
(* and texts whose Enter failed or whose process died.  Nothing clears     *)
(* these, they are submitted along (send_text_checked).  Never does Enter  *)
(* take a text of a request that is still under way, of this or another    *)
(* process.                                                                *)
SubmitsOwnText ==
  [][\A r \in Req : rpc[r] = "submit" /\ Submit(r) /\ composer # <<>> =>
       /\ composer[Len(composer)] = r
       /\ \A k \in 1..(Len(composer) - 1) :
            composer[k] \in Req /\ rpc[composer[k]] = "done"]_mutationVars

(* A message bound to a pane instance is pasted into no other, although it *)
(* may wait long.  Its Enter reaches another one only if the server        *)
(* restarted in the moment between the second validation and the command   *)
(* it guards, never in the pause before (send_text_for_instance).          *)
BoundToInstance ==
  \A e \in acted : e.for \notin {None, e.inst} =>
    /\ e.act # "paste"
    /\ e.act = "enter" => e.by \in raced

(* A resume acts only if its own process has not mutated the pane since    *)
(* the resume was requested (PaneMutationState, "one-shot").               *)
ResumeIsOneShot ==
  \A r \in Req : rpc[r] = "deliver" /\ req[r].kind = "resume" =>
    \A k \in (since[r] + 1)..(Len(begun) - 1) : begun[k] # req[r].proc

(* Every request is answered: no step waits on a lock nobody gives back.   *)
Answered == \A r \in Req : <>[](rpc[r] \in {"new", "done"})
=============================================================================
