----------------------------- MODULE AutoCompact -----------------------------
(***************************************************************************)
(* Automatic context compaction of one pane (auto_compact.rs, control.rs), *)
(* together with the other mutations of the pane.                          *)
(*                                                                         *)
(* Every process polls.  Under the pane's lock it scans the pane afresh,   *)
(* measures the context in the native log the agent writes, and compares   *)
(* it with the claim stored on the pane.  A claim is written before        *)
(* /compact is sent and names the log it was measured in; it is cleared    *)
(* when a later measurement is below the threshold.                        *)
(*                                                                         *)
(* Abstractions.  A measurement is above the threshold or not.  The scan,  *)
(* the measurement and the read of the claim are a step; between it and    *)
(* the delivery the agent, or a user attached to tmux, may do anything.    *)
(***************************************************************************)
EXTENDS PaneMutations

CONSTANTS
  Log,      \* native conversation logs
  Foreign,  \* a marker this build cannot parse
  MaxTurn,  \* bound on usage records and changes of conversation
  MaxFault  \* bound on failed or ambiguous tmux commands

ASSUME LogAssumption == None \notin Log /\ Foreign \notin Log \cup {None}
ASSUME CompactBounds == MaxTurn \in Nat /\ MaxFault \in Nat

VARIABLES
  log,       \* the log of the agent in the pane
  high,      \* whether each log's latest usage is above the threshold
  pending,   \* whether a compact record follows that usage (reset_pending)
  quiet,     \* the agent has waited long enough at its empty composer
  acMarker,  \* @atmux_auto_compact: the log named by the claim
  cpc,       \* where each process's poll of the pane is
  target,    \* the log it measured
  turns, faults,  \* bounded environment steps
  sent       \* history: logs /compact was sent for while above the threshold,
             \* since the pane last changed its conversation

logVars == <<log, high, pending, quiet>>
pollVars == <<cpc, target>>
compactVars == <<logVars, acMarker, pollVars, turns, faults, sent>>
vars == <<mutationVars, compactVars>>

CPC == {"rest", "claim", "advance", "deliver"}

TypeOK ==
  /\ PaneTypeOK
  /\ log \in Log /\ high \in [Log -> BOOLEAN] /\ pending \in [Log -> BOOLEAN]
  /\ quiet \in BOOLEAN
  /\ acMarker \in Log \cup {None, Foreign}
  /\ cpc \in [Proc -> CPC] /\ target \in [Proc -> Log \cup {None}]
  /\ turns \in Nat /\ faults \in Nat
  /\ sent \in SUBSET Log

\* The pane may carry a claim of a process that is gone.
Init ==
  /\ PaneInit
  /\ log \in Log /\ high = [l \in Log |-> FALSE] /\ pending = [l \in Log |-> FALSE]
  /\ quiet = FALSE /\ acMarker \in Log \cup {None, Foreign}
  /\ cpc = [i \in Proc |-> "rest"] /\ target = [i \in Proc |-> None]
  /\ turns = 0 /\ faults = 0 /\ sent = {}

-----------------------------------------------------------------------------
(* One poll of the pane.                                                   *)

\* What decide says to a quiet pane that runs log l and carries marker k.
ClearsMarker(l, k) == k \in Log /\ ~high[l]
\* Mutants: the claim is not read; any claim suppresses.
CompactsClaimed(l, k) == k # Foreign /\ high[l] /\ ~pending[l]
CompactsUnclaimed(l, k) == k = None /\ high[l] /\ ~pending[l]

Compacts(l, k) == k \notin {l, Foreign} /\ high[l] /\ ~pending[l]

\* automation_idle, the inactivity limit, one exactly mapped log.
Qualifies == alive /\ quiet /\ composer = <<>>

\* Mutant: the lock is not dropped.
LeaveLocked(i) ==
  /\ cpc' = [cpc EXCEPT ![i] = "rest"]
  /\ target' = [target EXCEPT ![i] = None]
  /\ UNCHANGED holder
  /\ gate' = [gate EXCEPT ![i] = IF OpenOf(i) = {} THEN 0 ELSE @]

\* The poll is over: the lock and, without requests, the gate are dropped.
Leave(i) ==
  /\ cpc' = [cpc EXCEPT ![i] = "rest"]
  /\ target' = [target EXCEPT ![i] = None]
  /\ holder' = None
  /\ gate' = [gate EXCEPT ![i] = IF OpenOf(i) = {} THEN 0 ELSE @]

Clear(i) ==
  /\ cpc[i] = "rest" /\ holder = None /\ Qualifies
  /\ ClearsMarker(log, acMarker)
  /\ acMarker' = None
  /\ UNCHANGED <<mutationVars, logVars, pollVars, turns, faults, sent>>

\* Mutant: the pane is not locked.
DecideUnlocked(i) ==
  /\ cpc[i] = "rest" /\ Qualifies
  /\ Compacts(log, acMarker)
  /\ holder' = i
  /\ cpc' = [cpc EXCEPT ![i] = "claim"]
  /\ target' = [target EXCEPT ![i] = log]
  /\ UNCHANGED <<paneVars, procVars, reqVars, boundVars, histVars, logVars, acMarker,
                 turns, faults, sent>>

Decide(i) ==
  /\ cpc[i] = "rest" /\ holder = None /\ Qualifies
  /\ Compacts(log, acMarker)
  /\ holder' = i
  /\ cpc' = [cpc EXCEPT ![i] = "claim"]
  /\ target' = [target EXCEPT ![i] = log]
  /\ UNCHANGED <<paneVars, procVars, reqVars, boundVars, histVars, logVars, acMarker,
                 turns, faults, sent>>

\* Mutant: the measured log is forgotten.
ClaimForgets(i) ==
  /\ cpc[i] = "claim" /\ alive
  /\ acMarker' = target[i]
  /\ cpc' = [cpc EXCEPT ![i] = "advance"]
  /\ target' = [target EXCEPT ![i] = None]
  /\ UNCHANGED <<mutationVars, logVars, turns, faults, sent>>

\* set_auto_compact_marker, before anything is sent.
Claim(i) ==
  /\ cpc[i] = "claim" /\ alive
  /\ acMarker' = target[i]
  /\ cpc' = [cpc EXCEPT ![i] = "advance"]
  /\ UNCHANGED <<mutationVars, logVars, target, turns, faults, sent>>

\* Mutants: the sequence does not advance; the gate is not marked.
CompactUnsequenced(i) ==
  /\ cpc[i] = "advance" /\ alive
  /\ gate' = [gate EXCEPT ![i] = @ + 1]
  /\ begun' = Append(begun, i)
  /\ cpc' = [cpc EXCEPT ![i] = "deliver"]
  /\ UNCHANGED <<paneVars, holder, snap, reqVars, boundVars, acted, raced, logVars,
                 acMarker, target, turns, faults, sent>>

CompactUnmarked(i) ==
  /\ cpc[i] = "advance" /\ alive
  /\ seq' = seq + 1
  /\ begun' = Append(begun, i)
  /\ cpc' = [cpc EXCEPT ![i] = "deliver"]
  /\ UNCHANGED <<inst, alive, resumable, composer, buffers, holder, procVars, reqVars,
                 boundVars, acted, raced, logVars, acMarker, target, turns, faults, sent>>

\* begin_pane_mutation
CompactAdvance(i) ==
  /\ cpc[i] = "advance" /\ alive
  /\ seq' = seq + 1
  /\ gate' = [gate EXCEPT ![i] = @ + 1]
  /\ begun' = Append(begun, i)
  /\ cpc' = [cpc EXCEPT ![i] = "deliver"]
  /\ UNCHANGED <<inst, alive, resumable, composer, buffers, holder, snap, reqVars,
                 boundVars, acted, raced, logVars, acMarker, target, turns, faults, sent>>

\* The text and Enter are one tmux command list.
Delivered(i) ==
  /\ composer' = <<>> /\ resumable' = FALSE /\ quiet' = FALSE
  /\ Acts(i, "compact", None)
  /\ sent' = sent \cup {target[i]}

(* deliver_auto_compact.  An error says nothing of whether /compact was    *)
(* sent; the claim stays either way.                                       *)
Deliver(i) ==
  /\ cpc[i] = "deliver" /\ alive
  /\ \/ Delivered(i) /\ UNCHANGED faults
     \/ /\ faults < MaxFault /\ faults' = faults + 1
        /\ Delivered(i) \/ UNCHANGED <<composer, resumable, quiet, acted, sent>>
  /\ Leave(i)
  /\ UNCHANGED <<inst, alive, seq, buffers, snap, reqVars, boundVars, begun, raced, log,
                 high, pending, acMarker, turns>>

\* The pane is gone, or a command failed; a claim that was written stays.
GiveUp(i) ==
  /\ cpc[i] # "rest"
  /\ IF alive THEN faults < MaxFault /\ faults' = faults + 1 ELSE UNCHANGED faults
  /\ Leave(i)
  /\ UNCHANGED <<paneVars, snap, reqVars, boundVars, histVars, logVars, acMarker,
                 turns, sent>>

Poll(i) ==
  \/ Clear(i) \/ Decide(i) \/ Claim(i) \/ CompactAdvance(i) \/ Deliver(i) \/ GiveUp(i)

-----------------------------------------------------------------------------
(* What the agent does.                                                    *)

Turn == turns < MaxTurn /\ turns' = turns + 1

\* A new usage record; it may also follow a compaction.
Usage ==
  /\ alive /\ Turn
  /\ \E above \in BOOLEAN :
       /\ high' = [high EXCEPT ![log] = above]
       /\ IF above /\ high[log] THEN UNCHANGED sent
          ELSE sent' = sent \ {log}
  /\ pending' = [pending EXCEPT ![log] = FALSE]
  /\ quiet' = FALSE
  /\ UNCHANGED <<mutationVars, log, acMarker, pollVars, faults>>

\* A compact record.
Boundary ==
  /\ alive /\ pending' = [pending EXCEPT ![log] = TRUE]
  /\ UNCHANGED <<mutationVars, log, high, quiet, acMarker, pollVars, turns, faults, sent>>

\* Time passes, or the agent stirs.
Quieten ==
  /\ alive /\ quiet' = ~quiet /\ (quiet' => composer = <<>>)
  /\ UNCHANGED <<mutationVars, log, high, pending, acMarker, pollVars, turns, faults,
                 sent>>

\* The user opens another conversation in the pane (/resume, /clear).
Converse ==
  /\ alive /\ Turn /\ \E l \in Log \ {log} : log' = l
  /\ quiet' = FALSE /\ sent' = {}
  /\ UNCHANGED <<mutationVars, high, pending, acMarker, pollVars, faults>>

(* A step of PaneMutations.  Polls of a process end with it; a restarted   *)
(* tmux server has lost the claim; any effect ends the quiet.              *)
Mutation ==
  /\ PaneNext
  /\ cpc' = [i \in Proc |-> IF holder = i /\ holder' = None THEN "rest" ELSE cpc[i]]
  /\ target' = [i \in Proc |-> IF cpc'[i] = "rest" THEN None ELSE target[i]]
  /\ IF inst' = inst THEN UNCHANGED <<log, acMarker, sent>>
     ELSE log' \in Log /\ acMarker' = None /\ sent' = {}
  /\ quiet' = (quiet /\ paneVars' = paneVars)
  /\ UNCHANGED <<high, pending, turns, faults>>

Next ==
  \/ Mutation \/ Usage \/ Boundary \/ Quieten \/ Converse
  \/ \E i \in Proc : Poll(i)

Spec == Init /\ [][Next]_vars

(* spawn_auto_compact polls for ever, and a request that has the lock is   *)
(* answered; a pane that is quiet is found so.                             *)
Fairness ==
  /\ \A i \in Proc : WF_vars(Poll(i))
  /\ \A r \in Req : WF_vars(Mutation /\ RequestStep(r))
FairSpec == Spec /\ Fairness

-----------------------------------------------------------------------------
(* Properties.                                                             *)

(* A bound message is pasted into no other pane instance, and its Enter    *)
(* goes to another only by a restart after the last look; a sequence value *)
(* names one mutation, and a resume fires once.                            *)
PaneSafe == TypeOK /\ BoundToInstance /\ SequenceNames /\ ResumeIsOneShot

(* /compact is not sent again for a log that has stayed above the          *)
(* threshold, as long as the pane keeps its conversation and the tmux      *)
(* server, which stores the claim, has not restarted: not by another       *)
(* process, not after a crash, not after an ambiguous delivery             *)
(* (auto_compact_once_blocking, "can never send it twice after restart").  *)
CompactedOnce ==
  [][restarts = 0 => \A i \in Proc : cpc[i] = "deliver" /\ acted' # acted =>
       target[i] \notin sent]_vars

(* /compact is sent to an empty composer, never appended to a text that a  *)
(* message of this or another process, or a crashed one, left there.       *)
CompactAlone ==
  [][\A i \in Proc : cpc[i] = "deliver" /\ cpc'[i] = "rest" => composer = <<>>]_vars

(* Enter takes no text of a request that is still under way, and /compact  *)
(* no text at all, also when a request or a crashed process left one       *)
(* behind (deliver_auto_compact, send_text_checked).                       *)
OnlyLeftoversJoin == SubmitsOwnText /\ CompactAlone

\* A pane that decide would compact, and has not claimed yet.
Eligible == Qualifies /\ acMarker # Foreign /\ high[log] /\ ~pending[log]

(* A pane that stays eligible is claimed for its own log, whatever claim   *)
(* of an earlier conversation it carries.                                  *)
EligibleIsClaimed == <>[]Eligible => <>[](acMarker = log)
=============================================================================
