----------------------------- MODULE Federation -----------------------------
(***************************************************************************)
(* One machine mirrored by a coordinator: the machine's revision and its   *)
(* event stream (web.rs), the watcher that follows the stream (remote.rs), *)
(* the coordinator's record of the machine with LAN discovery adding,      *)
(* replacing and removing it (control.rs), and an observer that polls the  *)
(* record by its revision (mcp.rs).                                        *)
(***************************************************************************)
EXTENDS Integers, Sequences, FiniteSets

CONSTANTS
  Pane,       \* the machine's own panes
  Nested,     \* panes of a machine that this machine mirrors itself
  Watcher,    \* incarnations of the watcher, 1..n
  MaxEvent,   \* bound on changes at the machine and faults together
  MaxPeerFault, \* bound on failed connections, restarts and discoveries
  MaxChan,    \* bound on events in flight
  MaxObserve  \* bound on answers to the observer

ASSUME FederationAssumption ==
  /\ IsFiniteSet(Watcher) /\ Watcher = 1..Cardinality(Watcher) /\ Watcher # {}
  /\ {MaxEvent, MaxPeerFault, MaxObserve} \subseteq Nat /\ MaxChan \in Nat \ {0}

VARIABLES
  configured,  \* the machine is in [[machines]]: discovery leaves it alone
  node,        \* the machine: [rev, log, nested, metrics]
  stream,      \* per watcher: its connection as the machine serves it
  chan,        \* per watcher: events sent and not yet read
  watcher,     \* per watcher: [at, mirror]
  registered,  \* the watcher in Inner.watchers, 0 when none
  registry,    \* what the discovery task is doing
  remote,      \* the coordinator's RemoteState
  mrev,        \* State.machine_revisions of the machine
  observer,    \* a stateless poller: [at, after, rev, view], and of its revision
               \* and its view: [life, from, seen]
  bounds       \* [fault, life, observe]

federationVars == <<configured, node, stream, chan, watcher, registered, registry, remote, mrev, observer, bounds>>

coordinator == <<remote, mrev>>
wire == <<stream, chan>>

\* Sessions are told apart by presence: an id is in the overview or not.
Owned == {<<"home", p>> : p \in Pane}
Others == {<<"peer", p>> : p \in Nested}
Last(s) == s[Len(s)]

\* ControlPlane::overview of the machine, read under one lock.
Overview ==
  [rev |-> node.rev, sessions |-> {<<"home", p>> : p \in Last(node.log)} \cup {<<"peer", p>> : p \in node.nested},
   metrics |-> node.metrics, n |-> Len(node.log)]

OverviewPatch(previous, current) ==
  [kind |-> "patch", base |-> previous.rev, rev |-> current.rev,
   upsert |-> current.sessions \ previous.sessions,
   remove |-> previous.sessions \ current.sessions,
   metrics |-> current.metrics, n |-> current.n]

Snapshot(o) == [kind |-> "snapshot", rev |-> o.rev, upsert |-> o.sessions, metrics |-> o.metrics, n |-> o.n]

----------------------------------------------------------------------------
(* RemoteMirror: keyed by the bare pane id, for the machine's own panes.   *)

NoMirror == [rev |-> -1, sessions |-> {}, metrics |-> FALSE, n |-> 0]

NoWatcher == [at |-> "none", mirror |-> NoMirror]
NoStream == [at |-> "off", seen |-> 0, previous |-> NoMirror]

Merge(sessions, upsert) == sessions \cup {s[2] : s \in {x \in upsert : x[1] = "home"}}

\* Mutant: a removal is stripped of its owner before it is matched.
RemovedAnyOwner(sessions, remove) == sessions \ {s[2] : s \in remove}

Removed(sessions, remove) == sessions \ {s[2] : s \in {x \in remove : x[1] = "home"}}

\* Mutant: a snapshot is kept under the sessions' full ids.
MirrorQualified(e) == [rev |-> e.rev, sessions |-> e.upsert, metrics |-> e.metrics, n |-> e.n]

MirrorSnapshot(e) == [rev |-> e.rev, sessions |-> Merge({}, e.upsert), metrics |-> e.metrics, n |-> e.n]

\* A patch is merged only if it continues the revision the mirror holds.
Continues(mirror, e) == mirror.rev = e.base

MirrorPatch(mirror, e) ==
  [rev |-> e.rev, sessions |-> Merge(Removed(mirror.sessions, e.remove), e.upsert),
   metrics |-> e.metrics, n |-> e.n]

----------------------------------------------------------------------------
(* The coordinator's record.  n is a history variable: the position in the *)
(* machine's log of what the record showed last.                           *)

Unknown == [is |-> "unknown", sessions |-> {}, metrics |-> FALSE, n |-> 0]
Connecting == [Unknown EXCEPT !.is = "connecting"]

ApplyMachineSessions(mirror) ==
  IF remote.is = "unknown" THEN UNCHANGED coordinator
  ELSE /\ remote' = [remote EXCEPT !.is = "online", !.sessions = mirror.sessions, !.n = mirror.n]
       /\ mrev' = IF remote.is # "online" \/ remote.sessions # mirror.sessions THEN mrev + 1 ELSE mrev

SetMachineMetrics(metrics) ==
  IF remote.is = "unknown" \/ remote.metrics = metrics THEN UNCHANGED coordinator
  ELSE remote' = [remote EXCEPT !.metrics = metrics] /\ mrev' = mrev + 1

\* Mutant: an offline mark wakes nobody.
MarkOfflineSilently ==
  /\ remote' = IF remote.is = "unknown" THEN remote ELSE [remote EXCEPT !.is = "offline", !.sessions = {}]
  /\ UNCHANGED mrev

MarkMachineOffline ==
  IF remote.is = "unknown" THEN UNCHANGED coordinator
  ELSE /\ remote' = [remote EXCEPT !.is = "offline", !.sessions = {}]
       /\ mrev' = IF remote.is # "offline" THEN mrev + 1 ELSE mrev

----------------------------------------------------------------------------
\* start: the watcher of a configured machine.
FirstWatcher == [w \in Watcher |-> IF configured /\ w = 1 THEN [at |-> "connect", mirror |-> NoMirror] ELSE NoWatcher]

FederationInit ==
  /\ configured \in BOOLEAN
  /\ \E S \in SUBSET Pane, N \in SUBSET Nested :
       node = [rev |-> 0, log |-> <<S>>, nested |-> N, metrics |-> FALSE]
  /\ stream = [w \in Watcher |-> NoStream]
  /\ chan = [w \in Watcher |-> <<>>]
  /\ watcher = FirstWatcher
  /\ registered = IF configured THEN 1 ELSE 0
  /\ registry = "idle"
  /\ remote = IF configured THEN Connecting ELSE Unknown
  /\ mrev = 0
  /\ observer = [at |-> "idle", after |-> 0, rev |-> 0, view |-> remote,
                  life |-> 0, from |-> 0, seen |-> remote]
  /\ bounds = [fault |-> 0, life |-> 0, observe |-> 0]

\* Changes at the machine and faults come in any proportion.
Events == Len(node.log) - 1 + bounds.fault
MayChange == Events < MaxEvent
MayFail == Events < MaxEvent /\ bounds.fault < MaxPeerFault

(* The machine. *)

\* Every change is published under the lock that makes it.
Bump(sessions, nested, metrics) ==
  /\ node' = [rev |-> node.rev + 1, log |-> Append(node.log, sessions), nested |-> nested, metrics |-> metrics]

NodeRefresh ==
  /\ MayChange
  /\ \E S \in SUBSET Pane \ {Last(node.log)} : Bump(S, node.nested, node.metrics)
  /\ UNCHANGED <<configured, wire, watcher, registered, registry, coordinator, observer, bounds>>

NodeMirrors ==
  /\ MayChange
  /\ \E N \in SUBSET Nested \ {node.nested} : Bump(Last(node.log), N, node.metrics)
  /\ UNCHANGED <<configured, wire, watcher, registered, registry, coordinator, observer, bounds>>

NodeMetrics ==
  /\ MayChange
  /\ Bump(Last(node.log), node.nested, ~node.metrics)
  /\ UNCHANGED <<configured, wire, watcher, registered, registry, coordinator, observer, bounds>>

\* The machine's revision starts again; its panes are in tmux and stay.
NodeRestart ==
  /\ MayFail
  /\ bounds' = [bounds EXCEPT !.fault = @ + 1]
  /\ node' = [node EXCEPT !.rev = 0, !.log = Append(@, Last(@)), !.nested = {}]
  /\ stream' = [w \in Watcher |-> NoStream]
  /\ UNCHANGED <<configured, chan, watcher, registered, registry, coordinator, observer>>

(* overview_events: one generator per connection. *)

\* It subscribes before it reads the overview.
SendSnapshot(w) ==
  /\ stream[w].at = "subscribed"
  /\ stream' = [stream EXCEPT ![w].at = "waiting", ![w].previous = Overview]
  /\ chan' = [chan EXCEPT ![w] = Append(@, Snapshot(Overview))]
  /\ UNCHANGED <<configured, node, watcher, registered, registry, coordinator, observer, bounds>>

Wake(w) ==
  /\ stream[w].at = "waiting" /\ stream[w].seen # node.rev
  /\ stream' = [stream EXCEPT ![w].at = "woken", ![w].seen = node.rev]
  /\ UNCHANGED <<configured, node, chan, watcher, registered, registry, coordinator, observer, bounds>>

\* Mutant: metrics do not count as news.
SuppressedMetrics(p, previous) == p.upsert = {} /\ p.remove = {}

\* A revision that shows nothing new is not sent, and does not move `previous`.
Suppressed(p, previous) == p.upsert = {} /\ p.remove = {} /\ p.metrics = previous.metrics

\* Mutant: a suppressed revision moves `previous` too.
SuppressedAdvances(w) ==
  /\ stream[w].at = "woken" /\ Len(chan[w]) < MaxChan
  /\ LET p == OverviewPatch(stream[w].previous, Overview) IN
       /\ stream' = [stream EXCEPT ![w].at = "waiting", ![w].previous = Overview]
       /\ chan' = IF Suppressed(p, stream[w].previous) THEN chan ELSE [chan EXCEPT ![w] = Append(@, p)]
  /\ UNCHANGED <<configured, node, watcher, registered, registry, coordinator, observer, bounds>>

SendPatch(w) ==
  /\ stream[w].at = "woken" /\ Len(chan[w]) < MaxChan
  /\ LET p == OverviewPatch(stream[w].previous, Overview) IN
       IF Suppressed(p, stream[w].previous)
       THEN stream' = [stream EXCEPT ![w].at = "waiting"] /\ UNCHANGED chan
       ELSE /\ stream' = [stream EXCEPT ![w].at = "waiting", ![w].previous = Overview]
            /\ chan' = [chan EXCEPT ![w] = Append(@, p)]
  /\ UNCHANGED <<configured, node, watcher, registered, registry, coordinator, observer, bounds>>

(* spawn_watcher and watch_stream. *)

\* A connection that fails, stalls past the idle timeout or ends.
Cut(w) ==
  /\ MayFail
  /\ stream[w].at # "off"
  /\ bounds' = [bounds EXCEPT !.fault = @ + 1]
  /\ stream' = [stream EXCEPT ![w] = NoStream]
  /\ \E k \in 0..Len(chan[w]) : chan' = [chan EXCEPT ![w] = SubSeq(@, 1, k)]
  /\ UNCHANGED <<configured, node, watcher, registered, registry, coordinator, observer>>

Connect(w) ==
  /\ watcher[w].at = "connect"
  /\ stream' = [stream EXCEPT ![w] = [at |-> "subscribed", seen |-> node.rev, previous |-> NoMirror]]
  /\ chan' = [chan EXCEPT ![w] = <<>>]
  /\ watcher' = [watcher EXCEPT ![w] = [at |-> "read", mirror |-> NoMirror]]
  /\ UNCHANGED <<configured, node, registered, registry, coordinator, observer, bounds>>

ConnectFails(w) ==
  /\ watcher[w].at = "connect" /\ MayFail
  /\ bounds' = [bounds EXCEPT !.fault = @ + 1]
  /\ watcher' = [watcher EXCEPT ![w] = [at |-> "failed", mirror |-> NoMirror]]
  /\ UNCHANGED <<configured, node, wire, registered, registry, coordinator, observer>>

Read(w) ==
  /\ watcher[w].at = "read" /\ chan[w] # <<>>
  /\ chan' = [chan EXCEPT ![w] = Tail(@)]
  /\ LET e == Head(chan[w]) IN
       watcher' = [watcher EXCEPT ![w] =
         CASE e.kind = "snapshot" -> [at |-> "sessions", mirror |-> MirrorSnapshot(e)]
           [] e.kind = "patch" /\ Continues(@.mirror, e) -> [at |-> "sessions", mirror |-> MirrorPatch(@.mirror, e)]
           [] OTHER -> [at |-> "failed", mirror |-> NoMirror]]
  /\ UNCHANGED <<configured, node, stream, registered, registry, coordinator, observer, bounds>>

ReadFails(w) ==
  /\ watcher[w].at = "read" /\ chan[w] = <<>> /\ stream[w].at = "off"
  /\ watcher' = [watcher EXCEPT ![w] = [at |-> "failed", mirror |-> NoMirror]]
  /\ UNCHANGED <<configured, node, wire, registered, registry, coordinator, observer, bounds>>

\* An aborted task runs on until it awaits.
Displaced(w) == registered # w
Await(w, at) == [watcher EXCEPT ![w] = IF Displaced(w) THEN NoWatcher ELSE [@ EXCEPT !.at = at]]

ApplySessions(w) ==
  /\ watcher[w].at = "sessions"
  /\ ApplyMachineSessions(watcher[w].mirror)
  /\ watcher' = [watcher EXCEPT ![w].at = "metrics"]
  /\ UNCHANGED <<configured, node, wire, registered, registry, observer, bounds>>

ApplyMetrics(w) ==
  /\ watcher[w].at = "metrics"
  /\ SetMachineMetrics(watcher[w].mirror.metrics)
  /\ watcher' = Await(w, "read")
  /\ UNCHANGED <<configured, node, wire, registered, registry, observer, bounds>>

MarkOffline(w) ==
  /\ watcher[w].at = "failed"
  /\ MarkMachineOffline
  /\ watcher' = Await(w, "connect")
  /\ stream' = [stream EXCEPT ![w] = NoStream]
  /\ chan' = [chan EXCEPT ![w] = <<>>]
  /\ UNCHANGED <<configured, node, registered, registry, observer, bounds>>

(* LAN discovery: one task, whose calls other threads interleave with. *)

\* A task between two awaits finishes the code it is in; its stream dies with it.
Abort(w) ==
  /\ watcher' = IF w # 0 /\ watcher[w].at \in {"connect", "read"}
                THEN [watcher EXCEPT ![w] = NoWatcher] ELSE watcher
  /\ stream' = IF w # 0 THEN [stream EXCEPT ![w] = NoStream] ELSE stream
  /\ chan' = IF w # 0 THEN [chan EXCEPT ![w] = <<>>] ELSE chan
  /\ registered' = 0

UpsertDiscovered ==
  /\ ~configured /\ registry = "idle" /\ MayFail
  /\ bounds' = [bounds EXCEPT !.fault = @ + 1]
  /\ registry' = "reset"
  /\ Abort(registered)
  /\ UNCHANGED <<configured, node, coordinator, observer>>

UpsertResets ==
  /\ registry = "reset"
  /\ registry' = "start"
  /\ remote' = IF remote.is = "unknown" THEN Connecting ELSE [remote EXCEPT !.is = "connecting", !.sessions = {}]
  /\ mrev' = mrev + 1
  /\ UNCHANGED <<configured, node, wire, watcher, registered, observer, bounds>>

StartWatcher ==
  /\ registry = "start"
  /\ \E w \in Watcher :
       /\ watcher[w].at = "none"
       /\ watcher' = [watcher EXCEPT ![w] = [at |-> "connect", mirror |-> NoMirror]]
       /\ registered' = w
  /\ registry' = "idle"
  /\ UNCHANGED <<configured, node, wire, coordinator, observer, bounds>>

RemoveDiscovered ==
  /\ ~configured /\ registry = "idle" /\ registered # 0 /\ MayFail
  /\ bounds' = [bounds EXCEPT !.fault = @ + 1]
  /\ registry' = "forget"
  /\ Abort(registered)
  /\ UNCHANGED <<configured, node, coordinator, observer>>

RemoveForgets ==
  /\ registry = "forget"
  /\ registry' = "idle"
  /\ remote' = Unknown
  /\ mrev' = mrev + 1
  /\ UNCHANGED <<configured, node, wire, watcher, registered, observer, bounds>>

(* agents_observe of one machine: its revision first, then its overview.   *)
(* life and from are histories, the processes that gave the observer its   *)
(* revision and its view; seen is what was shown when it got the revision. *)

\* ControlPlane::has_machine
Listed == configured \/ registered # 0 \/ registry \in {"reset", "start"}

View == IF Listed THEN [remote EXCEPT !.n = 0] ELSE Unknown

Observe ==
  /\ observer.at = "idle" /\ Listed /\ mrev > observer.after
  /\ bounds.observe < MaxObserve
  /\ bounds' = [bounds EXCEPT !.observe = @ + 1]
  /\ observer' = [observer EXCEPT !.at = "read", !.rev = mrev]
  /\ UNCHANGED <<configured, node, wire, watcher, registered, registry, coordinator>>

\* The long poll ends unchanged; the answer carries the revision it read, and
\* no view.  It may be of a process that started since.
ObserveTimesOut ==
  /\ observer.at = "idle" /\ Listed /\ mrev <= observer.after
  /\ observer' = [observer EXCEPT !.after = mrev, !.life = bounds.life, !.seen = View]
  /\ UNCHANGED <<configured, node, wire, watcher, registered, registry, coordinator, bounds>>

ObserveAnswers ==
  /\ observer.at = "read"
  /\ observer' = [at |-> "idle", after |-> observer.rev, rev |-> 0, view |-> View,
                  life |-> bounds.life, from |-> bounds.life, seen |-> View]
  /\ UNCHANGED <<configured, node, wire, watcher, registered, registry, coordinator, bounds>>

\* A new process: everything it kept was memory, the observer's revision was not.
CoordinatorRestart ==
  /\ MayFail
  /\ bounds' = [bounds EXCEPT !.fault = @ + 1, !.life = @ + 1]
  /\ stream' = [w \in Watcher |-> NoStream]
  /\ chan' = [w \in Watcher |-> <<>>]
  /\ watcher' = FirstWatcher
  /\ registered' = IF configured THEN 1 ELSE 0
  /\ registry' = "idle"
  /\ remote' = [IF configured THEN Connecting ELSE Unknown EXCEPT !.n = remote.n]
  /\ mrev' = 0
  /\ observer' = [observer EXCEPT !.at = "idle", !.rev = 0]
  /\ UNCHANGED <<configured, node>>

\* Everyone waits for a change that does not come.
Quiet ==
  /\ registry = "idle" /\ observer.at = "idle"
  /\ \A w \in Watcher : \/ watcher[w].at = "none"
                       \/ /\ watcher[w].at = "read"
                          /\ stream[w].at = "waiting" /\ chan[w] = <<>>
  /\ UNCHANGED federationVars

Serve(w) == SendSnapshot(w) \/ Wake(w) \/ SendPatch(w)
Watch(w) == Connect(w) \/ Read(w) \/ ReadFails(w) \/ ApplySessions(w) \/ ApplyMetrics(w) \/ MarkOffline(w)

FederationNext ==
  \/ NodeRefresh \/ NodeMirrors \/ NodeMetrics \/ NodeRestart
  \/ \E w \in Watcher : Serve(w) \/ Watch(w) \/ ConnectFails(w) \/ Cut(w)
  \/ UpsertDiscovered \/ UpsertResets \/ StartWatcher \/ RemoveDiscovered \/ RemoveForgets
  \/ Observe \/ ObserveTimesOut \/ ObserveAnswers
  \/ CoordinatorRestart
  \/ Quiet

\* Streams and watchers are tasks of an executor that polls what is ready;
\* the discovery task never waits inside a call.
FederationFairness ==
  /\ \A w \in Watcher :
       WF_federationVars(Serve(w)) /\ WF_federationVars(Watch(w))
  /\ WF_federationVars(UpsertResets \/ StartWatcher \/ RemoveForgets)

FederationSpec ==
  FederationInit /\ [][FederationNext]_federationVars /\ FederationFairness

----------------------------------------------------------------------------
MirrorRecord == [rev : Int, sessions : SUBSET Pane, metrics : BOOLEAN, n : Nat]

\* Every variable stays in its type; revisions and positions are numbers.
FederationTypeOK ==
  /\ configured \in BOOLEAN
  /\ node \in [rev : Nat, log : Seq(SUBSET Pane), nested : SUBSET Nested, metrics : BOOLEAN]
  /\ \A w \in Watcher :
       /\ stream[w].at \in {"off", "subscribed", "waiting", "woken"} /\ stream[w].seen \in Nat
       /\ Len(chan[w]) <= MaxChan
       /\ watcher[w].at \in {"none", "connect", "read", "sessions", "metrics", "failed"}
       /\ watcher[w].mirror \in MirrorRecord
  /\ registered \in Watcher \cup {0}
  /\ registry \in {"idle", "reset", "start", "forget"}
  /\ remote \in [is : {"unknown", "connecting", "online", "offline"}, sessions : SUBSET Pane,
                metrics : BOOLEAN, n : Nat]
  /\ mrev \in Nat
  /\ observer.at \in {"idle", "read"} /\ {observer.after, observer.rev} \subseteq Nat

\* A watcher resynchronizes only because its connection ended: suppressed
\* revisions never make the next patch miss the revision the mirror holds.
NoNeedlessResync == \A w \in Watcher : watcher[w].at = "failed" => stream[w].at = "off"

\* An observer that waits with a revision this process gave it has missed no
\* change since; and if this process gave it the view as well, it holds what the
\* coordinator shows.  (If not, it need not: told "unchanged" by a restarted
\* coordinator, whose revisions begin again, it goes on waiting with the view of
\* the one before.)
ObserverNotStranded ==
  observer.at = "idle" /\ observer.life = bounds.life /\ Listed /\ mrev <= observer.after =>
    /\ observer.seen = View
    /\ observer.from = observer.life => observer.view = View

\* The types hold, a watcher does not lose its thread, and an observer only by a
\* restart of the coordinator.
FederationSafe == FederationTypeOK /\ NoNeedlessResync /\ ObserverNotStranded

\* The mirror of a configured machine implements the lagging replica: each
\* list the coordinator shows is, pane for pane, one the machine had, and no
\* older than the one before, across patches, reconnects and restarts.
Replica == INSTANCE LaggingReplica WITH
  View <- SUBSET Pane,
  log <- node.log,
  held <- IF configured THEN remote.n ELSE 0,
  shown <- IF configured /\ remote.is = "online" THEN {remote.sessions} ELSE {}

MirrorSpec == Replica!Spec

\* Once changes, failures and restarts have stopped, a configured machine is
\* shown as it is.
Converges ==
  <>[](configured => /\ remote.is = "online"
                     /\ remote.sessions = Last(node.log) /\ remote.metrics = node.metrics)

=============================================================================
