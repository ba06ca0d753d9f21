---------------------------- MODULE MachinesProofs ----------------------------
(* Proofs about one machine mirrored by a coordinator (Federation), for    *)
(* every set of panes, every number of watchers and every bound; about the *)
(* output of one of its panes (PaneOutput), for every number of readers;   *)
(* and that what the model checker is given of the two is safe             *)
(* (MachinesSpec).                                                         *)
EXTENDS MCMachines, FiniteSetTheorems, SequenceTheorems, TLAPS

\* Watchers are numbered from 1, and 0 is none of them.
LEMMA WatcherNames ==
  1 \in Watcher /\ 0 \notin Watcher
  <1>1. Cardinality(Watcher) \in Nat
    BY FederationAssumption, FS_CardinalityType
  <1> QED
    BY <1>1, FederationAssumption

-----------------------------------------------------------------------------
(* Sessions: what a mirror makes of what its machine sends.                *)

Sessions == Owned \cup Others

\* The machine's own panes in a set of sessions, as a mirror keeps them.
Home(S) == {s[2] : s \in {x \in S : x[1] = "home"}}

LEMMA HomePanes ==
  ASSUME NEW S \in SUBSET Sessions
  PROVE  /\ Home(S) \in SUBSET Pane
         /\ \A p : p \in Home(S) <=> p \in Pane /\ <<"home", p>> \in S
  <1>1. \A x \in Sessions : x[1] = "home" => x[2] \in Pane /\ x = <<"home", x[2]>>
    BY DEF Sessions, Owned, Others
  <1>2. \A p : p \in Home(S) => p \in Pane /\ <<"home", p>> \in S
    BY <1>1 DEF Home
  <1>3. \A p : p \in Pane /\ <<"home", p>> \in S => p \in Home(S)
    <2> SUFFICES ASSUME NEW p \in Pane, <<"home", p>> \in S
                 PROVE  p \in Home(S)
      OBVIOUS
    <2>1. <<"home", p>>[1] = "home" /\ <<"home", p>>[2] = p
      OBVIOUS
    <2> QED
      BY <2>1 DEF Home
  <1> QED
    BY <1>2, <1>3

\* The overview lists the panes of the machine's last list.
LEMMA OverviewPanes ==
  ASSUME Last(node.log) \in SUBSET Pane, node.nested \in SUBSET Nested
  PROVE  Overview.sessions \in SUBSET Sessions /\ Home(Overview.sessions) = Last(node.log)
  <1> DEFINE S == {<<"home", p>> : p \in Last(node.log)} \cup {<<"peer", p>> : p \in node.nested}
  <1>1. Overview.sessions = S
    BY DEF Overview
  <1>2. S \in SUBSET Sessions
    BY DEF Sessions, Owned, Others
  <1>3. \A p : <<"home", p>> \in S <=> p \in Last(node.log)
    OBVIOUS
  <1>4. Home(S) = Last(node.log)
    <2> HIDE DEF S
    <2> QED
      BY <1>2, <1>3, HomePanes
  <1> QED
    BY <1>1, <1>2, <1>4

\* A patch takes a mirror of one list to the mirror of the next.
LEMMA PatchApplies ==
  ASSUME NEW A \in SUBSET Sessions, NEW B \in SUBSET Sessions
  PROVE  Merge(Removed(Home(A), A \ B), B \ A) = Home(B)
  <1>1. A \ B \in SUBSET Sessions /\ B \ A \in SUBSET Sessions
    OBVIOUS
  <1>2. Removed(Home(A), A \ B) = Home(A) \ Home(A \ B)
    BY DEF Removed, Home
  <1>3. Merge(Removed(Home(A), A \ B), B \ A) = (Home(A) \ Home(A \ B)) \cup Home(B \ A)
    BY <1>2 DEF Merge, Home
  <1>4. (Home(A) \ Home(A \ B)) \cup Home(B \ A) = Home(B)
    BY <1>1, HomePanes
  <1> QED
    BY <1>3, <1>4

-----------------------------------------------------------------------------
(* What is on its way from a machine to a mirror: the mirror, then each    *)
(* event that was sent and not yet read, then what the stream remembers.   *)

Snapshots ==
  [kind : {"snapshot"}, rev : Nat, upsert : SUBSET Sessions, metrics : BOOLEAN, n : Nat]
Patches ==
  [kind : {"patch"}, base : Int, rev : Nat, upsert : SUBSET Sessions, remove : SUBSET Sessions,
   metrics : BOOLEAN, n : Nat]
Event == Snapshots \cup Patches
Logs == Seq(SUBSET Pane)

\* The revision and the position from which the i-th event is read.
Before(m, q, i) ==
  IF i = 1 THEN [rev |-> m.rev, n |-> m.n] ELSE [rev |-> q[i - 1].rev, n |-> q[i - 1].n]

\* Read from b, the event leaves a mirror with the list of its position.
Leads(b, e, L) ==
  \/ e.kind = "snapshot" /\ Merge({}, e.upsert) = L[e.n]
  \/ /\ e.kind = "patch" /\ e.base = b.rev /\ b.n \in 1..Len(L)
     /\ Merge(Removed(L[b.n], e.remove), e.upsert) = L[e.n]

Chain(m, q, L) ==
  /\ \A i \in 1..Len(q) : q[i].n \in 1..Len(L) /\ m.n <= q[i].n
  /\ \A i \in 1..Len(q) : Leads(Before(m, q, i), q[i], L)
  /\ \A i, j \in 1..Len(q) : i <= j => q[i].n <= q[j].n

\* A later list changes nothing about the lists before it.
LEMMA ChainGrows ==
  ASSUME NEW m \in MirrorRecord, NEW q \in Seq(Event), NEW L \in Logs, NEW S \in SUBSET Pane,
         Chain(m, q, L)
  PROVE  Chain(m, q, Append(L, S))
  <1>1. /\ Len(Append(L, S)) = Len(L) + 1 /\ Len(L) \in Nat
        /\ \A n \in 1..Len(L) : Append(L, S)[n] = L[n]
    BY DEF Logs
  <1>2. \A i \in 1..Len(q) : Leads(Before(m, q, i), q[i], Append(L, S))
    BY <1>1 DEF Chain, Leads
  <1> QED
    BY <1>1, <1>2 DEF Chain

LEMMA ChainAppend ==
  ASSUME NEW m \in MirrorRecord, NEW q \in Seq(Event), NEW L \in Logs, NEW e \in Event,
         Chain(m, q, L), Leads(Before(m, q, Len(q) + 1), e, L), m.n <= e.n, e.n = Len(L), e.n # 0
  PROVE  /\ Chain(m, Append(q, e), L)
         /\ Before(m, Append(q, e), Len(Append(q, e)) + 1) = [rev |-> e.rev, n |-> e.n]
  <1> DEFINE r == Append(q, e)
  <1>1. /\ Len(r) = Len(q) + 1 /\ Len(q) \in Nat /\ Len(L) \in Nat /\ r[Len(q) + 1] = e
        /\ \A i \in 1..Len(q) : r[i] = q[i]
    BY DEF Logs
  <1> HIDE DEF r
  <1>2. \A i \in 1..(Len(q) + 1) : Before(m, r, i) = Before(m, q, i)
    BY <1>1 DEF Before
  <1>3. \A i \in 1..Len(r) : r[i].n \in 1..Len(L) /\ m.n <= r[i].n
    BY <1>1 DEF Chain
  <1>4. \A i \in 1..Len(r) : Leads(Before(m, r, i), r[i], L)
    <2> SUFFICES ASSUME NEW i \in 1..Len(r)
                 PROVE  Leads(Before(m, r, i), r[i], L)
      OBVIOUS
    <2>1. CASE i = Len(q) + 1
      BY <2>1, <1>1, <1>2
    <2>2. CASE i \in 1..Len(q)
      BY <2>2, <1>1, <1>2 DEF Chain
    <2> QED
      BY <2>1, <2>2, <1>1
  <1>5. \A i, j \in 1..Len(r) : i <= j => r[i].n <= r[j].n
    BY <1>1, <1>3, SMTT(30) DEF Chain
  <1>6. Before(m, r, Len(r) + 1) = [rev |-> e.rev, n |-> e.n]
    BY <1>1 DEF Before
  <1> QED
    BY <1>3, <1>4, <1>5, <1>6 DEF Chain, r

\* Reading the first event leaves the rest, read from where it leads.
LEMMA ChainTail ==
  ASSUME NEW m \in MirrorRecord, NEW q \in Seq(Event), NEW L \in Logs, NEW k \in MirrorRecord,
         q # <<>>, Chain(m, q, L), k.rev = Head(q).rev, k.n = Head(q).n
  PROVE  /\ Chain(k, Tail(q), L)
         /\ Before(k, Tail(q), Len(Tail(q)) + 1) = Before(m, q, Len(q) + 1)
  <1> DEFINE r == Tail(q)
  <1>1. /\ Len(q) \in Nat \ {0} /\ Len(r) = Len(q) - 1 /\ Head(q) = q[1]
        /\ \A i \in 1..Len(r) : r[i] = q[i + 1]
    BY EmptySeq, HeadTailProperties
  <1> HIDE DEF r
  <1>2. \A i \in 1..(Len(r) + 1) : Before(k, r, i) = Before(m, q, i + 1)
    BY <1>1 DEF Before
  <1>3. \A i \in 1..Len(r) : r[i].n \in 1..Len(L) /\ k.n <= r[i].n
    BY <1>1, SMTT(30) DEF Chain
  <1>4. \A i \in 1..Len(r) : Leads(Before(k, r, i), r[i], L)
    <2> SUFFICES ASSUME NEW i \in 1..Len(r)
                 PROVE  Leads(Before(k, r, i), r[i], L)
      OBVIOUS
    <2>1. i + 1 \in 1..Len(q) /\ r[i] = q[i + 1] /\ Before(k, r, i) = Before(m, q, i + 1)
      BY <1>1, <1>2
    <2> QED
      BY <2>1 DEF Chain
  <1>5. \A i, j \in 1..Len(r) : i <= j => r[i].n <= r[j].n
    <2> SUFFICES ASSUME NEW i \in 1..Len(r), NEW j \in 1..Len(r), i <= j
                 PROVE  r[i].n <= r[j].n
      OBVIOUS
    <2>1. i + 1 \in 1..Len(q) /\ j + 1 \in 1..Len(q) /\ i + 1 <= j + 1
      BY <1>1
    <2> QED
      BY <1>1, <2>1 DEF Chain
  <1> QED
    BY <1>1, <1>2, <1>3, <1>4, <1>5 DEF Chain, r

LEMMA ChainPrefix ==
  ASSUME NEW m \in MirrorRecord, NEW q \in Seq(Event), NEW L \in Logs, NEW k \in 0..Len(q),
         Chain(m, q, L)
  PROVE  /\ Chain(m, SubSeq(q, 1, k), L) /\ Len(SubSeq(q, 1, k)) = k
         /\ \A i \in 1..k : SubSeq(q, 1, k)[i] = q[i]
  <1> DEFINE r == SubSeq(q, 1, k)
  <1>1. Len(r) = k /\ Len(q) \in Nat /\ k \in Nat /\ k <= Len(q) /\ \A i \in 1..k : r[i] = q[i]
    OBVIOUS
  <1> HIDE DEF r
  <1>2. \A i \in 1..k : Before(m, r, i) = Before(m, q, i)
    BY <1>1 DEF Before
  <1>3. \A i \in 1..k : Leads(Before(m, r, i), r[i], L)
    BY <1>1, <1>2 DEF Chain
  <1> QED
    BY <1>1, <1>3 DEF Chain, r

-----------------------------------------------------------------------------
(* The inductive invariant, in named parts.                                *)

NodeRecord == [rev : Nat, log : Logs, nested : SUBSET Nested, metrics : BOOLEAN]
Remembered == [rev : Int, sessions : SUBSET Sessions, metrics : BOOLEAN, n : Nat]
StreamRecord ==
  [at : {"off", "subscribed", "waiting", "woken"}, seen : Nat, previous : Remembered]
WatcherRecord ==
  [at : {"none", "connect", "read", "sessions", "metrics", "failed"}, mirror : MirrorRecord]
RemoteRecord ==
  [is : {"unknown", "connecting", "online", "offline"}, sessions : SUBSET Pane,
   metrics : BOOLEAN, n : Nat]
ObserverRecord ==
  [at : {"idle", "read"}, after : Nat, rev : Nat, view : RemoteRecord,
   life : Nat, from : Nat, seen : RemoteRecord]

WireTypes ==
  /\ node \in NodeRecord /\ node.log # <<>>
  /\ stream \in [Watcher -> StreamRecord]
  /\ chan \in [Watcher -> Seq(Event)] /\ \A w \in Watcher : Len(chan[w]) <= MaxChan
  /\ watcher \in [Watcher -> WatcherRecord]

RecordTypes ==
  /\ configured \in BOOLEAN
  /\ registered \in Watcher \cup {0}
  /\ registry \in {"idle", "reset", "start", "forget"}
  /\ remote \in RemoteRecord /\ mrev \in Nat
  /\ observer \in ObserverRecord
  /\ bounds \in [fault : Nat, life : Nat, observe : Nat]

\* A mirror is empty or holds one of the machine's lists.
MirrorFits(m, L) == m = NoMirror \/ (m.rev \in Nat /\ m.n \in 1..Len(L) /\ m.sessions = L[m.n])

\* When everything sent is read, the mirror stands where the stream remembers.
PreviousFits(m, q, previous, L) ==
  /\ previous.n \in 1..Len(L) /\ Home(previous.sessions) = L[previous.n]
  /\ Before(m, q, Len(q) + 1) = [rev |-> previous.rev, n |-> previous.n]

\* The connection of one watcher: its stream s, the events q, the watcher r.
WireFits(L, s, q, r) ==
  /\ Chain(r.mirror, q, L)
  /\ MirrorFits(r.mirror, L)
  /\ r.at \in {"sessions", "metrics"} => r.mirror # NoMirror
  /\ s.at \in {"waiting", "woken"} => PreviousFits(r.mirror, q, s.previous, L)
  /\ s.at = "subscribed" => q = <<>> /\ r.mirror = NoMirror

Wired == \A w \in Watcher : WireFits(node.log, stream[w], chan[w], watcher[w])

\* Without a connection nothing of one is left; a watcher that was replaced has
\* lost its stream and is about to end.
Resting ==
  \A w \in Watcher :
    /\ stream[w].at = "off" => stream[w] = NoStream
    /\ watcher[w].at \in {"none", "connect", "failed"} =>
         stream[w] = NoStream /\ chan[w] = <<>> /\ watcher[w].mirror = NoMirror
    /\ registered # w =>
         /\ watcher[w].at \in {"none", "sessions", "metrics", "failed"}
         /\ stream[w] = NoStream /\ chan[w] = <<>>

RegistryOK ==
  /\ registry # "idle" => registered = 0
  /\ configured => registry = "idle" /\ registered = 1 /\ remote.is # "unknown"
                   /\ \A w \in Watcher \ {1} : watcher[w].at = "none"

RemoteOK ==
  /\ remote.is # "online" => remote.sessions = {}
  /\ remote.is = "unknown" => ~remote.metrics
  /\ ~Listed /\ registry = "idle" => remote.is = "unknown"

\* What is yet to be shown of a configured machine is no older than what was.
Following ==
  configured =>
    /\ remote.n \in 0..Len(node.log)
    /\ remote.is = "online" => remote.n # 0 /\ remote.sessions = node.log[remote.n]
    /\ \A w \in Watcher :
         /\ \A i \in 1..Len(chan[w]) : remote.n <= chan[w][i].n
         /\ watcher[w].at = "sessions" => remote.n <= watcher[w].mirror.n

ObserverOK ==
  /\ observer.from <= observer.life /\ observer.life <= bounds.life
  /\ observer.at = "read" => observer.rev <= mrev
  /\ observer.life = bounds.life /\ observer.at = "idle" =>
       /\ observer.after <= mrev
       /\ registry # "forget" /\ mrev <= observer.after =>
            /\ observer.seen = View
            /\ observer.from = observer.life => observer.view = View

FederationInv ==
  /\ WireTypes /\ RecordTypes /\ Wired /\ Resting
  /\ RegistryOK /\ RemoteOK /\ Following /\ ObserverOK

-----------------------------------------------------------------------------
(* Facts about one connection.                                             *)

LEMMA NoThings ==
  NoMirror \in MirrorRecord /\ NoWatcher \in WatcherRecord /\ NoStream \in StreamRecord
  BY DEF NoMirror, MirrorRecord, NoWatcher, WatcherRecord, NoStream, StreamRecord, Remembered

LEMMA FitsGrows ==
  ASSUME NEW L \in Logs, NEW S \in SUBSET Pane, NEW s \in StreamRecord, NEW q \in Seq(Event),
         NEW r \in WatcherRecord, WireFits(L, s, q, r)
  PROVE  WireFits(Append(L, S), s, q, r)
  <1>1. /\ Len(Append(L, S)) = Len(L) + 1 /\ Len(L) \in Nat
        /\ \A n \in 1..Len(L) : Append(L, S)[n] = L[n]
    BY DEF Logs
  <1>2. Chain(r.mirror, q, Append(L, S))
    BY ChainGrows DEF WireFits, WatcherRecord
  <1> QED
    BY <1>1, <1>2 DEF WireFits, MirrorFits, PreviousFits

LEMMA FitsFresh ==
  ASSUME NEW L \in Logs, NEW s \in StreamRecord, NEW r \in WatcherRecord,
         s.at \in {"off", "subscribed"}, r.at \notin {"sessions", "metrics"}, r.mirror = NoMirror
  PROVE  WireFits(L, s, <<>>, r)
  BY DEF WireFits, Chain, MirrorFits

LEMMA FitsOff ==
  ASSUME NEW L, NEW s, NEW q, NEW r, WireFits(L, s, q, r)
  PROVE  WireFits(L, NoStream, q, r)
  BY DEF WireFits, NoStream

-----------------------------------------------------------------------------
(* The steps of the machine.                                               *)

\* The machine adds a list to its log; its connections go on or all end.
Publishes ==
  /\ node' \in NodeRecord /\ \E S \in SUBSET Pane : node'.log = Append(node.log, S)
  /\ stream' = stream \/ stream' = [w \in Watcher |-> NoStream]
  /\ UNCHANGED <<configured, chan, watcher, registered, registry, coordinator, observer>>
  /\ bounds' \in [fault : Nat, life : Nat, observe : Nat] /\ bounds'.life = bounds.life

LEMMA LastList ==
  ASSUME WireTypes
  PROVE  Last(node.log) \in SUBSET Pane /\ Len(node.log) \in Nat \ {0}
  BY DEF WireTypes, NodeRecord, Logs, Last

LEMMA MachinePublishes ==
  ASSUME WireTypes, RecordTypes, NodeRefresh \/ NodeMirrors \/ NodeMetrics \/ NodeRestart
  PROVE  Publishes
  <1> USE LastList DEF Publishes, Bump, WireTypes, RecordTypes, NodeRecord, Logs, wire
  <1>1. CASE NodeRefresh
    BY <1>1 DEF NodeRefresh
  <1>2. CASE NodeMirrors
    BY <1>2 DEF NodeMirrors
  <1>3. CASE NodeMetrics
    BY <1>3 DEF NodeMetrics
  <1>4. CASE NodeRestart
    <2>1. node' = [rev |-> 0, log |-> Append(node.log, Last(node.log)), nested |-> {},
                   metrics |-> node.metrics]
      BY <1>4 DEF NodeRestart
    <2>2. node' \in NodeRecord /\ \E S \in SUBSET Pane : node'.log = Append(node.log, S)
      BY <2>1
    <2>3. bounds' \in [fault : Nat, life : Nat, observe : Nat] /\ bounds'.life = bounds.life
      BY <1>4 DEF NodeRestart
    <2>4. /\ stream' = [w \in Watcher |-> NoStream]
          /\ UNCHANGED <<configured, chan, watcher, registered, registry, coordinator, observer>>
      BY <1>4 DEF NodeRestart
    <2> HIDE DEF WireTypes, RecordTypes, NodeRecord, Logs
    <2> QED
      BY <2>2, <2>3, <2>4
  <1> QED
    BY <1>1, <1>2, <1>3, <1>4

\* What the observer sees stays, and so does what it may rely on.
LEMMA ObserverKeeps ==
  ASSUME ObserverOK, UNCHANGED <<configured, registered, registry, remote, mrev, observer>>,
         bounds'.life = bounds.life
  PROVE  ObserverOK'
  BY DEF ObserverOK, View, Listed

LEMMA RecordsKeep ==
  ASSUME RegistryOK, RemoteOK, UNCHANGED <<configured, registered, registry, remote>>,
         configured => \A w \in Watcher \ {1} : watcher'[w].at = watcher[w].at
  PROVE  RegistryOK' /\ RemoteOK'
  BY DEF RegistryOK, RemoteOK, Listed

LEMMA PublishKeeps ==
  ASSUME FederationInv, Publishes
  PROVE  FederationInv'
  <1> USE DEF FederationInv
  <1>1. PICK S \in SUBSET Pane : node'.log = Append(node.log, S)
    BY DEF Publishes
  <1>2. /\ Len(node'.log) = Len(node.log) + 1 /\ Len(node.log) \in Nat
        /\ \A n \in 1..Len(node.log) : node'.log[n] = node.log[n]
    BY <1>1 DEF WireTypes, NodeRecord, Logs
  <1>3. stream' \in [Watcher -> StreamRecord]
        /\ \A w \in Watcher : stream'[w] \in {stream[w], NoStream}
    BY NoThings DEF Publishes, WireTypes
  <1>4. WireTypes' /\ RecordTypes'
    <2>1. node'.log # <<>>
      BY <1>2
    <2> QED
      BY <2>1, <1>3 DEF WireTypes, RecordTypes, Publishes, coordinator, NodeRecord, Logs
  <1>5. Wired'
    <2> SUFFICES ASSUME NEW w \in Watcher
                 PROVE  WireFits(node'.log, stream'[w], chan[w], watcher[w])
      BY DEF Wired, Publishes
    <2>1. WireFits(node'.log, stream[w], chan[w], watcher[w])
      BY <1>1, FitsGrows DEF Wired, WireTypes, NodeRecord
    <2> QED
      BY <2>1, <1>3, FitsOff
  <1>6. Resting'
    BY <1>3 DEF Resting, Publishes
  <1>7. RegistryOK' /\ RemoteOK' /\ ObserverOK'
    BY RecordsKeep, ObserverKeeps DEF Publishes, coordinator
  <1>8. Following'
    BY <1>2 DEF Following, Publishes, coordinator, RecordTypes, RemoteRecord
  <1> QED
    BY <1>4, <1>5, <1>6, <1>7, <1>8

-----------------------------------------------------------------------------
(* The steps of one connection.                                            *)

\* A step of w's connection alone: s, q and r are what it makes of its stream,
\* its events and its watcher.
Moves(w, s, q, r) ==
  /\ stream' = [stream EXCEPT ![w] = s]
  /\ chan' = [chan EXCEPT ![w] = q]
  /\ watcher' = [watcher EXCEPT ![w] = r]
  /\ UNCHANGED <<configured, node, registered, registry, coordinator, observer>>
  /\ bounds' \in [fault : Nat, life : Nat, observe : Nat] /\ bounds'.life = bounds.life

\* What such a step owes to the invariant.
MoveFits(w, s, q, r) ==
  /\ s \in StreamRecord /\ q \in Seq(Event) /\ Len(q) <= MaxChan /\ r \in WatcherRecord
  /\ WireFits(node.log, s, q, r)
  /\ s.at = "off" => s = NoStream
  /\ r.at \in {"none", "connect", "failed"} => s = NoStream /\ q = <<>> /\ r.mirror = NoMirror
  /\ registered # w => /\ r.at \in {"none", "sessions", "metrics", "failed"}
                       /\ s = NoStream /\ q = <<>>
  /\ configured /\ w # 1 => r.at = "none"
  /\ configured => /\ \A i \in 1..Len(q) : remote.n <= q[i].n
                   /\ r.at = "sessions" => remote.n <= r.mirror.n

LEMMA MoveKeeps ==
  ASSUME FederationInv, NEW w \in Watcher, NEW s, NEW q, NEW r,
         Moves(w, s, q, r), MoveFits(w, s, q, r)
  PROVE  FederationInv'
  <1> USE DEF FederationInv
  <1>1. /\ stream'[w] = s /\ chan'[w] = q /\ watcher'[w] = r
        /\ \A v \in Watcher \ {w} :
             stream'[v] = stream[v] /\ chan'[v] = chan[v] /\ watcher'[v] = watcher[v]
    BY DEF Moves, WireTypes
  <1>2. WireTypes' /\ RecordTypes'
    BY DEF Moves, MoveFits, WireTypes, RecordTypes, coordinator
  <1>3. Wired'
    BY <1>1 DEF Wired, Moves, MoveFits
  <1>4. Resting'
    BY <1>1 DEF Resting, Moves, MoveFits
  <1>5. RegistryOK' /\ RemoteOK'
    <2>1. configured => \A v \in Watcher \ {1} : watcher'[v].at = watcher[v].at
      BY <1>1 DEF MoveFits, RegistryOK
    <2> QED
      BY <2>1, RecordsKeep DEF Moves, coordinator
  <1>6. ObserverOK'
    BY ObserverKeeps DEF Moves, coordinator
  <1>7. Following'
    BY <1>1 DEF Following, Moves, MoveFits, coordinator
  <1> QED
    BY <1>2, <1>3, <1>4, <1>5, <1>6, <1>7

\* The overview, as a stream remembers it.
LEMMA OverviewFacts ==
  ASSUME WireTypes
  PROVE  /\ Overview \in Remembered /\ Overview.rev \in Nat
         /\ Overview.n = Len(node.log) /\ Overview.n \in 1..Len(node.log)
         /\ Home(Overview.sessions) = node.log[Overview.n]
  <1>1. Overview.sessions \in SUBSET Sessions /\ Home(Overview.sessions) = Last(node.log)
    BY LastList, OverviewPanes DEF WireTypes, NodeRecord
  <1>2. /\ Overview.n = Len(node.log) /\ Overview.rev = node.rev /\ Overview.metrics = node.metrics
        /\ Overview = [rev |-> Overview.rev, sessions |-> Overview.sessions,
                       metrics |-> Overview.metrics, n |-> Overview.n]
    BY DEF Overview
  <1> QED
    BY <1>1, <1>2, LastList DEF Remembered, WireTypes, NodeRecord, Last

LEMMA SendSnapshotKeeps ==
  ASSUME FederationInv, NEW w \in Watcher, SendSnapshot(w)
  PROVE  FederationInv'
  <1> USE DEF FederationInv
  <1> DEFINE e == Snapshot(Overview)
             s == [stream[w] EXCEPT !.at = "waiting", !.previous = Overview]
             q == Append(chan[w], e)
  <1>1. /\ stream[w] \in StreamRecord /\ watcher[w] \in WatcherRecord /\ watcher[w].mirror \in MirrorRecord
        /\ node.log \in Logs /\ MaxChan \in Nat \ {0}
    BY FederationAssumption DEF WireTypes, WatcherRecord, NodeRecord
  <1>2. /\ chan[w] = <<>> /\ watcher[w].mirror = NoMirror /\ stream[w].at = "subscribed"
        /\ registered = w /\ watcher[w].at \notin {"none", "connect", "failed", "sessions", "metrics"}
        /\ s.at = "waiting"
    BY <1>1 DEF StreamRecord, SendSnapshot, Wired, WireFits, Resting, NoStream
  <1>3. /\ e \in Event /\ e.n = Len(node.log) /\ e.n \in 1..Len(node.log) /\ e.kind = "snapshot"
        /\ Merge({}, e.upsert) = node.log[e.n] /\ e.rev = Overview.rev
    <2>1. Merge({}, Overview.sessions) = Home(Overview.sessions)
      BY DEF Merge, Home
    <2> QED
      BY <2>1, OverviewFacts DEF Snapshot, Event, Snapshots, Remembered
  <1>4. WireFits(node.log, s, q, watcher[w])
    <2>1. /\ Chain(NoMirror, <<>>, node.log) /\ NoMirror.n <= e.n
          /\ Leads(Before(NoMirror, <<>>, Len(<<>>) + 1), e, node.log)
      BY <1>3 DEF Chain, Leads, NoMirror
    <2>2. /\ Chain(NoMirror, q, node.log)
          /\ Before(NoMirror, q, Len(q) + 1) = [rev |-> e.rev, n |-> e.n]
      <3> HIDE DEF e
      <3>1. <<>> \in Seq(Event) /\ q = Append(<<>>, e) /\ e.n # 0
        BY <1>2, <1>3
      <3> HIDE DEF q
      <3> QED
        BY <1>1, <1>3, <2>1, <3>1, NoThings, ChainAppend
    <2>3. s.at = "waiting" /\ s.previous = Overview
      BY <1>1 DEF StreamRecord
    <2>4. PreviousFits(NoMirror, q, Overview, node.log)
      BY <2>2, <1>3, OverviewFacts DEF PreviousFits
    <2> QED
      BY <1>2, <2>2, <2>3, <2>4 DEF WireFits, MirrorFits
  <1>5. s \in StreamRecord
    BY <1>1, OverviewFacts DEF StreamRecord
  <1>6. q \in Seq(Event) /\ Len(q) = 1 /\ q[1] = e
    BY <1>2, <1>3
  <1>7. Moves(w, s, q, watcher[w])
    BY <1>1 DEF SendSnapshot, Moves, WireTypes, RecordTypes
  <1>8. MoveFits(w, s, q, watcher[w])
    <2> HIDE DEF s, q, e
    <2>1. configured => w = 1 /\ remote.n <= Len(node.log)
      BY <1>2 DEF RegistryOK, Following, WireTypes, RecordTypes, RemoteRecord
    <2> QED
      BY <1>1, <1>2, <1>3, <1>4, <1>5, <1>6, <2>1 DEF MoveFits
  <1> QED
    <2> HIDE DEF s, q
    <2> QED
      BY <1>7, <1>8, MoveKeeps

LEMMA WakeKeeps ==
  ASSUME FederationInv, NEW w \in Watcher, Wake(w)
  PROVE  FederationInv'
  <1> USE DEF FederationInv
  <1> DEFINE s == [stream[w] EXCEPT !.at = "woken", !.seen = node.rev]
  <1>1. stream[w] \in StreamRecord /\ watcher[w] \in WatcherRecord /\ node.rev \in Nat
    BY DEF WireTypes, NodeRecord
  <1>2. /\ s \in StreamRecord /\ s.at = "woken" /\ s.previous = stream[w].previous
        /\ stream[w].at = "waiting" /\ stream[w] # NoStream
    <2>1. stream[w].at = "waiting" /\ NoStream.at = "off"
      BY DEF Wake, NoStream
    <2> QED
      BY <1>1, <2>1 DEF StreamRecord
  <1>3. Moves(w, s, chan[w], watcher[w])
    BY DEF Wake, Moves, WireTypes, RecordTypes
  <1> HIDE DEF s
  <1>4. WireFits(node.log, s, chan[w], watcher[w])
    BY <1>2 DEF Wired, WireFits
  <1>5. MoveFits(w, s, chan[w], watcher[w])
    BY <1>1, <1>2, <1>4 DEF MoveFits, WireTypes, Resting, RegistryOK, Following
  <1> QED
    BY <1>3, <1>5, MoveKeeps

\* What the patch says is read from where the stream remembers.
LEMMA PatchFacts ==
  ASSUME WireTypes, NEW m \in MirrorRecord, NEW q \in Seq(Event), NEW v \in Remembered,
         PreviousFits(m, q, v, node.log)
  PROVE  LET e == OverviewPatch(v, Overview) IN
           /\ e \in Event /\ e.n = Len(node.log) /\ e.n # 0 /\ e.rev = Overview.rev
           /\ Leads(Before(m, q, Len(q) + 1), e, node.log)
  <1> DEFINE e == OverviewPatch(v, Overview)
  <1>1. /\ e.kind = "patch" /\ e.base = v.rev /\ e.rev = Overview.rev /\ e.n = Overview.n
        /\ e.upsert = Overview.sessions \ v.sessions /\ e.remove = v.sessions \ Overview.sessions
    BY DEF OverviewPatch
  <1>2. e \in Event
    BY OverviewFacts DEF OverviewPatch, Event, Patches, Remembered
  <1>3. v.sessions \in SUBSET Sessions /\ Overview.sessions \in SUBSET Sessions
    BY OverviewFacts DEF Remembered
  <1>4. Merge(Removed(Home(v.sessions), e.remove), e.upsert) = Home(Overview.sessions)
    BY <1>1, <1>3, PatchApplies
  <1> HIDE DEF e
  <1>5. Leads(Before(m, q, Len(q) + 1), e, node.log)
    BY <1>1, <1>4, OverviewFacts DEF Leads, PreviousFits
  <1> QED
    BY <1>1, <1>2, <1>5, OverviewFacts DEF e

LEMMA SendPatchKeeps ==
  ASSUME FederationInv, NEW w \in Watcher, SendPatch(w)
  PROVE  FederationInv'
  <1> USE DEF FederationInv
  <1> DEFINE p == OverviewPatch(stream[w].previous, Overview)
             t == [stream[w] EXCEPT !.at = "waiting"]
             s == [stream[w] EXCEPT !.at = "waiting", !.previous = Overview]
             q == Append(chan[w], p)
  <1>1. /\ stream[w] \in StreamRecord /\ watcher[w] \in WatcherRecord /\ watcher[w].mirror \in MirrorRecord
        /\ node.log \in Logs /\ MaxChan \in Nat \ {0} /\ chan[w] \in Seq(Event)
        /\ stream[w].previous \in Remembered
    BY FederationAssumption DEF WireTypes, WatcherRecord, NodeRecord, StreamRecord
  <1>2. /\ stream[w].at = "woken" /\ Len(chan[w]) < MaxChan /\ stream[w] # NoStream
        /\ registered = w /\ watcher[w].at \notin {"none", "connect", "failed"}
        /\ PreviousFits(watcher[w].mirror, chan[w], stream[w].previous, node.log)
    BY DEF SendPatch, Wired, WireFits, Resting, NoStream
  <1>3. \/ Moves(w, t, chan[w], watcher[w])
        \/ Moves(w, s, q, watcher[w])
    <2>1. CASE Suppressed(p, stream[w].previous)
      BY <2>1, <1>1 DEF SendPatch, Moves, WireTypes, RecordTypes
    <2>2. CASE ~Suppressed(p, stream[w].previous)
      BY <2>2, <1>1 DEF SendPatch, Moves, WireTypes, RecordTypes
    <2> QED
      BY <2>1, <2>2
  <1>4. t \in StreamRecord /\ t.at = "waiting" /\ t.previous = stream[w].previous
    BY <1>1 DEF StreamRecord
  <1>5. s \in StreamRecord /\ s.at = "waiting" /\ s.previous = Overview
    BY <1>1, OverviewFacts DEF StreamRecord
  <1>6. MoveFits(w, t, chan[w], watcher[w])
    <2> HIDE DEF t
    <2>1. WireFits(node.log, t, chan[w], watcher[w])
      BY <1>2, <1>4 DEF Wired, WireFits
    <2> QED
      BY <1>1, <1>2, <1>4, <2>1 DEF MoveFits, WireTypes, Resting, RegistryOK, Following
  <1>7. /\ p \in Event /\ p.n = Len(node.log) /\ p.n # 0 /\ p.rev = Overview.rev
        /\ Leads(Before(watcher[w].mirror, chan[w], Len(chan[w]) + 1), p, node.log)
    BY <1>1, <1>2, PatchFacts
  <1>8. MoveFits(w, s, q, watcher[w])
    <2> HIDE DEF s, p
    <2>1. watcher[w].mirror.n <= p.n
      BY <1>1, <1>7 DEF Wired, WireFits, MirrorFits, NoMirror, Logs
    <2>2. /\ Chain(watcher[w].mirror, q, node.log)
          /\ Before(watcher[w].mirror, q, Len(q) + 1) = [rev |-> p.rev, n |-> p.n]
      BY <1>1, <1>7, <2>1, ChainAppend DEF Wired, WireFits
    <2>3. PreviousFits(watcher[w].mirror, q, Overview, node.log)
      BY <2>2, <1>7, OverviewFacts DEF PreviousFits
    <2>4. WireFits(node.log, s, q, watcher[w])
      BY <1>5, <2>2, <2>3 DEF Wired, WireFits
    <2>5. /\ q \in Seq(Event) /\ Len(q) = Len(chan[w]) + 1 /\ Len(q) <= MaxChan
          /\ q[Len(q)] = p /\ \A i \in 1..Len(chan[w]) : q[i] = chan[w][i]
      BY <1>1, <1>2, <1>7
    <2>6. ASSUME configured
          PROVE  /\ w = 1 /\ \A i \in 1..Len(q) : remote.n <= q[i].n
                 /\ watcher[w].at = "sessions" => remote.n <= watcher[w].mirror.n
      <3>1. /\ w = 1 /\ remote.n <= p.n /\ \A i \in 1..Len(chan[w]) : remote.n <= chan[w][i].n
            /\ watcher[w].at = "sessions" => remote.n <= watcher[w].mirror.n
        BY <2>6, <1>2, <1>7 DEF RegistryOK, Following
      <3> QED
        BY <3>1, <2>5, <1>1
    <2> QED
      BY <1>1, <1>2, <1>5, <2>4, <2>5, <2>6 DEF MoveFits
  <1> QED
    <2> HIDE DEF s, q, t
    <2> QED
      BY <1>3, <1>6, <1>8, MoveKeeps

LEMMA CutKeeps ==
  ASSUME FederationInv, NEW w \in Watcher, Cut(w)
  PROVE  FederationInv'
  <1> USE DEF FederationInv
  <1>1. PICK k \in 0..Len(chan[w]) : chan' = [chan EXCEPT ![w] = SubSeq(chan[w], 1, k)]
    BY DEF Cut
  <1> DEFINE q == SubSeq(chan[w], 1, k)
  <1>2. /\ watcher[w] \in WatcherRecord /\ watcher[w].mirror \in MirrorRecord /\ node.log \in Logs
        /\ chan[w] \in Seq(Event) /\ Len(chan[w]) <= MaxChan
        /\ stream[w] # NoStream /\ NoStream.at = "off" /\ MaxChan \in Nat
    BY FederationAssumption DEF WireTypes, WatcherRecord, NodeRecord, Cut, NoStream
  <1>3. Moves(w, NoStream, q, watcher[w])
    <2>1. watcher' = [watcher EXCEPT ![w] = watcher[w]]
      BY DEF Cut, WireTypes
    <2>2. bounds' \in [fault : Nat, life : Nat, observe : Nat] /\ bounds'.life = bounds.life
      BY DEF Cut, RecordTypes
    <2> QED
      BY <1>1, <2>1, <2>2 DEF Cut, Moves
  <1>4. /\ Chain(watcher[w].mirror, q, node.log) /\ Len(q) = k
        /\ \A i \in 1..k : q[i] = chan[w][i]
    BY <1>2, ChainPrefix DEF Wired, WireFits
  <1>5. q \in Seq(Event)
    BY <1>2
  <1> HIDE DEF q
  <1>6. WireFits(node.log, NoStream, q, watcher[w])
    BY <1>2, <1>4 DEF Wired, WireFits
  <1>7. MoveFits(w, NoStream, q, watcher[w])
    BY <1>2, <1>4, <1>5, <1>6, NoThings, SMTT(30) DEF MoveFits, Resting, RegistryOK, Following
  <1> QED
    BY <1>3, <1>7, MoveKeeps

LEMMA ConnectKeeps ==
  ASSUME FederationInv, NEW w \in Watcher, Connect(w) \/ ConnectFails(w)
  PROVE  FederationInv'
  <1> USE DEF FederationInv
  <1>1. /\ registered = w /\ watcher[w].at = "connect" /\ stream[w] = NoStream /\ chan[w] = <<>>
        /\ configured => w = 1
        /\ node.log \in Logs /\ node.rev \in Nat /\ MaxChan \in Nat
    BY FederationAssumption DEF Connect, ConnectFails, Resting, RegistryOK, WireTypes, NodeRecord
  <1>2. CASE Connect(w)
    <2> DEFINE s == [at |-> "subscribed", seen |-> node.rev, previous |-> NoMirror]
               r == [at |-> "read", mirror |-> NoMirror]
    <2>1. Moves(w, s, <<>>, r)
      BY <1>2 DEF Connect, Moves, RecordTypes
    <2>2. s \in StreamRecord /\ r \in WatcherRecord /\ s.at = "subscribed" /\ r.at = "read" /\ r.mirror = NoMirror
      BY <1>1, NoThings DEF StreamRecord, WatcherRecord, Remembered, NoMirror
    <2> HIDE DEF s, r
    <2>3. WireFits(node.log, s, <<>>, r)
      BY <1>1, <2>2, FitsFresh
    <2>4. MoveFits(w, s, <<>>, r)
      BY <1>1, <2>2, <2>3 DEF MoveFits
    <2> QED
      BY <2>1, <2>4, MoveKeeps
  <1>3. CASE ConnectFails(w)
    <2> DEFINE r == [at |-> "failed", mirror |-> NoMirror]
    <2>1. Moves(w, NoStream, <<>>, r)
      <3>1. stream' = [stream EXCEPT ![w] = NoStream] /\ chan' = [chan EXCEPT ![w] = <<>>]
        BY <1>1, <1>3 DEF ConnectFails, WireTypes, wire
      <3>2. bounds' \in [fault : Nat, life : Nat, observe : Nat] /\ bounds'.life = bounds.life
        BY <1>3 DEF ConnectFails, RecordTypes
      <3> QED
        BY <1>3, <3>1, <3>2 DEF ConnectFails, Moves
    <2>2. r \in WatcherRecord /\ r.at = "failed" /\ r.mirror = NoMirror /\ NoStream.at = "off"
      BY NoThings DEF WatcherRecord, NoStream
    <2> HIDE DEF r
    <2>3. WireFits(node.log, NoStream, <<>>, r)
      BY <1>1, <2>2, FitsFresh, NoThings
    <2>4. MoveFits(w, NoStream, <<>>, r)
      BY <1>1, <2>2, <2>3, NoThings DEF MoveFits
    <2> QED
      BY <2>1, <2>4, MoveKeeps
  <1> QED
    BY <1>2, <1>3

\* A mirror after its next event holds the list of the event's position: an
\* event in a connection is never one the mirror cannot use.
LEMMA ReadFacts ==
  ASSUME NEW m \in MirrorRecord, NEW q \in Seq(Event), NEW L \in Logs, q # <<>>,
         Chain(m, q, L), MirrorFits(m, L)
  PROVE  LET e == Head(q)
             k == IF e.kind = "snapshot" THEN MirrorSnapshot(e) ELSE MirrorPatch(m, e)
         IN  /\ k \in MirrorRecord /\ k.rev \in Nat /\ k.rev = e.rev /\ k.n = e.n
             /\ k.n \in 1..Len(L) /\ k.sessions = L[k.n]
             /\ e.kind = "snapshot" \/ (e.kind = "patch" /\ Continues(m, e))
  <1> DEFINE e == Head(q)
             k == IF e.kind = "snapshot" THEN MirrorSnapshot(e) ELSE MirrorPatch(m, e)
  <1>1. 1 \in 1..Len(q) /\ e = q[1] /\ e \in Event
    BY EmptySeq, HeadTailProperties
  <1>2. /\ e.n \in 1..Len(L) /\ Leads([rev |-> m.rev, n |-> m.n], e, L)
        /\ e.rev \in Nat /\ e.n \in Nat /\ e.metrics \in BOOLEAN
    BY <1>1 DEF Chain, Before, Event, Snapshots, Patches
  <1>3. L[e.n] \in SUBSET Pane
    BY <1>2 DEF Logs
  <1>4. ASSUME e.kind = "snapshot"
        PROVE  /\ k \in MirrorRecord /\ k.rev \in Nat /\ k.rev = e.rev /\ k.n = e.n
               /\ k.n \in 1..Len(L) /\ k.sessions = L[k.n]
    <2>1. k = [rev |-> e.rev, sessions |-> L[e.n], metrics |-> e.metrics, n |-> e.n]
      BY <1>2, <1>4 DEF Leads, MirrorSnapshot
    <2> HIDE DEF e, k
    <2> QED
      BY <2>1, <1>2, <1>3, <1>4 DEF MirrorRecord
  <1>5. ASSUME e.kind # "snapshot"
        PROVE  /\ k \in MirrorRecord /\ k.rev \in Nat /\ k.rev = e.rev /\ k.n = e.n
               /\ k.n \in 1..Len(L) /\ k.sessions = L[k.n]
               /\ e.kind = "patch" /\ Continues(m, e)
    <2>1. e.kind = "patch" /\ e.base = m.rev /\ m.n \in 1..Len(L)
          /\ Merge(Removed(L[m.n], e.remove), e.upsert) = L[e.n]
      BY <1>2, <1>5 DEF Leads
    <2>2. m.sessions = L[m.n]
      BY <2>1 DEF MirrorFits, NoMirror
    <2>3. k = [rev |-> e.rev, sessions |-> L[e.n], metrics |-> e.metrics, n |-> e.n]
      BY <1>5, <2>1, <2>2 DEF MirrorPatch
    <2> HIDE DEF e, k
    <2> QED
      BY <2>1, <2>3, <1>2, <1>3 DEF MirrorRecord, Continues
  <1> QED
    BY <1>4, <1>5

LEMMA ReadKeeps ==
  ASSUME FederationInv, NEW w \in Watcher, Read(w)
  PROVE  FederationInv'
  <1> USE DEF FederationInv
  <1> DEFINE m == watcher[w].mirror
             e == Head(chan[w])
             k == IF e.kind = "snapshot" THEN MirrorSnapshot(e) ELSE MirrorPatch(m, e)
             r == [at |-> "sessions", mirror |-> k]
             q == Tail(chan[w])
  <1>1. /\ watcher[w] \in WatcherRecord /\ m \in MirrorRecord /\ node.log \in Logs
        /\ chan[w] \in Seq(Event) /\ chan[w] # <<>> /\ Len(chan[w]) <= MaxChan
        /\ MaxChan \in Nat /\ stream[w] \in StreamRecord
        /\ stream[w].at = "off" => stream[w] = NoStream
    BY FederationAssumption DEF WireTypes, WatcherRecord, NodeRecord, Read, Resting
  <1>2. Chain(m, chan[w], node.log) /\ MirrorFits(m, node.log)
    BY DEF Wired, WireFits
  <1>3. /\ k \in MirrorRecord /\ k.rev \in Nat /\ k.rev = e.rev /\ k.n = e.n
        /\ k.n \in 1..Len(node.log) /\ k.sessions = node.log[k.n]
        /\ e.kind = "snapshot" \/ (e.kind = "patch" /\ Continues(m, e))
    BY <1>1, <1>2, ReadFacts
  <1>4. Moves(w, stream[w], q, r)
    <2>1. watcher' = [watcher EXCEPT ![w] = r]
      BY <1>3 DEF Read
    <2>2. stream' = [stream EXCEPT ![w] = stream[w]] /\ chan' = [chan EXCEPT ![w] = q]
      BY DEF Read, WireTypes
    <2> HIDE DEF r, q
    <2> QED
      BY <2>1, <2>2 DEF Read, Moves, RecordTypes
  <1>5. /\ Chain(k, q, node.log)
        /\ Before(k, q, Len(q) + 1) = Before(m, chan[w], Len(chan[w]) + 1)
    BY <1>1, <1>2, <1>3, ChainTail
  <1>6. /\ q \in Seq(Event) /\ Len(q) = Len(chan[w]) - 1 /\ e = chan[w][1] /\ 1 \in 1..Len(chan[w])
        /\ \A i \in 1..Len(q) : i + 1 \in 1..Len(chan[w]) /\ q[i] = chan[w][i + 1]
    BY <1>1, EmptySeq, HeadTailProperties
  <1>7. r \in WatcherRecord /\ r.at = "sessions" /\ r.mirror = k
    BY <1>3 DEF WatcherRecord
  <1> HIDE DEF r, q, k, e
  <1>8. WireFits(node.log, stream[w], q, r)
    <2>1. k # NoMirror
      BY <1>3 DEF NoMirror
    <2>2. stream[w].at # "subscribed"
      BY <1>1 DEF Wired, WireFits
    <2> QED
      BY <1>3, <1>5, <1>7, <2>1, <2>2 DEF Wired, WireFits, MirrorFits, PreviousFits
  <1>9. registered = w /\ (configured => w = 1)
    BY DEF Read, Resting, RegistryOK
  <1>10. configured => /\ \A i \in 1..Len(q) : remote.n <= q[i].n
                       /\ remote.n <= k.n
    BY <1>3, <1>6 DEF Following
  <1>11. MoveFits(w, stream[w], q, r)
    BY <1>1, <1>6, <1>7, <1>8, <1>9, <1>10 DEF MoveFits
  <1> QED
    BY <1>4, <1>11, MoveKeeps

LEMMA ReadFailsKeeps ==
  ASSUME FederationInv, NEW w \in Watcher, ReadFails(w)
  PROVE  FederationInv'
  <1> USE DEF FederationInv
  <1> DEFINE r == [at |-> "failed", mirror |-> NoMirror]
  <1>1. stream[w] = NoStream /\ chan[w] = <<>> /\ watcher[w].at = "read"
    BY DEF ReadFails, Resting
  <1>2. registered = w /\ (configured => w = 1)
    BY <1>1 DEF Resting, RegistryOK
  <1>3. node.log \in Logs /\ MaxChan \in Nat
    BY FederationAssumption DEF WireTypes, NodeRecord
  <1>4. Moves(w, NoStream, <<>>, r)
    <2>1. stream' = [stream EXCEPT ![w] = NoStream] /\ chan' = [chan EXCEPT ![w] = <<>>]
      BY <1>1 DEF ReadFails, WireTypes, wire
    <2> QED
      BY <2>1 DEF ReadFails, Moves, RecordTypes
  <1>5. r \in WatcherRecord /\ r.at = "failed" /\ r.mirror = NoMirror /\ NoStream.at = "off"
    BY NoThings DEF WatcherRecord, NoStream
  <1> HIDE DEF r
  <1>6. WireFits(node.log, NoStream, <<>>, r)
    BY <1>3, <1>5, FitsFresh, NoThings
  <1>7. MoveFits(w, NoStream, <<>>, r)
    BY <1>2, <1>3, <1>5, <1>6, NoThings DEF MoveFits
  <1> QED
    BY <1>4, <1>7, MoveKeeps

-----------------------------------------------------------------------------
(* The steps of a watcher that change the coordinator's record.            *)

Shown(m) == [m EXCEPT !.n = 0]

\* The observer's revision is passed by every change of what it may see.
LEMMA ObserverNotices ==
  ASSUME RecordTypes, ObserverOK, UNCHANGED <<configured, registered, registry, observer>>,
         bounds'.life = bounds.life, mrev' \in Nat, mrev <= mrev',
         mrev' = mrev => Shown(remote') = Shown(remote)
  PROVE  ObserverOK'
  <1>1. View' = View \/ mrev < mrev'
    BY DEF View, Listed, Shown, RecordTypes
  <1> QED
    BY <1>1 DEF ObserverOK, RecordTypes, ObserverRecord

\* A step of w's watcher that leaves its connection as q and turns it into r.
Reports(w, s, q, r) ==
  /\ stream' = [stream EXCEPT ![w] = s]
  /\ chan' = [chan EXCEPT ![w] = q]
  /\ watcher' = [watcher EXCEPT ![w] = r]
  /\ UNCHANGED <<configured, node, registered, registry, observer, bounds>>

ReportFits(w, s, q, r) ==
  /\ s \in StreamRecord /\ q \in Seq(Event) /\ Len(q) <= MaxChan /\ r \in WatcherRecord
  /\ WireFits(node.log, s, q, r)
  /\ s.at = "off" => s = NoStream
  /\ r.at \in {"none", "connect", "failed"} => s = NoStream /\ q = <<>> /\ r.mirror = NoMirror
  /\ registered # w => /\ r.at \in {"none", "sessions", "metrics", "failed"}
                       /\ s = NoStream /\ q = <<>>
  /\ configured => w = 1 /\ r.at # "sessions" /\ \A i \in 1..Len(q) : remote'.n <= q[i].n

RecordFits ==
  /\ remote' \in RemoteRecord /\ mrev' \in Nat
  /\ mrev <= mrev' /\ (mrev' = mrev => Shown(remote') = Shown(remote))
  /\ remote'.is # "online" => remote'.sessions = {}
  /\ remote'.is = "unknown" => ~remote'.metrics
  /\ (remote'.is = "unknown") = (remote.is = "unknown")
  /\ configured => /\ remote'.n \in 0..Len(node.log)
                   /\ remote'.is = "online" => remote'.n # 0 /\ remote'.sessions = node.log[remote'.n]

LEMMA ReportKeeps ==
  ASSUME FederationInv, NEW w \in Watcher, NEW s, NEW q, NEW r,
         Reports(w, s, q, r), ReportFits(w, s, q, r), RecordFits
  PROVE  FederationInv'
  <1> USE DEF FederationInv
  <1>1. /\ stream'[w] = s /\ chan'[w] = q /\ watcher'[w] = r
        /\ \A v \in Watcher \ {w} :
             stream'[v] = stream[v] /\ chan'[v] = chan[v] /\ watcher'[v] = watcher[v]
    BY DEF Reports, WireTypes
  <1>2. WireTypes' /\ RecordTypes'
    BY DEF Reports, ReportFits, RecordFits, WireTypes, RecordTypes
  <1>3. Wired'
    BY <1>1 DEF Wired, Reports, ReportFits
  <1>4. Resting'
    BY <1>1 DEF Resting, Reports, ReportFits
  <1>5. RegistryOK' /\ RemoteOK'
    BY <1>1 DEF RegistryOK, RemoteOK, Listed, Reports, ReportFits, RecordFits
  <1>6. ObserverOK'
    BY ObserverNotices DEF Reports, RecordFits
  <1>7. Following'
    <2> SUFFICES ASSUME configured
                 PROVE  /\ remote'.n \in 0..Len(node.log)
                        /\ remote'.is = "online" => remote'.n # 0 /\ remote'.sessions = node.log[remote'.n]
                        /\ \A v \in Watcher :
                             /\ \A i \in 1..Len(chan'[v]) : remote'.n <= chan'[v][i].n
                             /\ watcher'[v].at = "sessions" => remote'.n <= watcher'[v].mirror.n
      BY DEF Following, Reports
    <2>1. \A v \in Watcher \ {w} : watcher'[v].at = "none" /\ chan'[v] = <<>>
      BY <1>1 DEF RegistryOK, Resting, ReportFits
    <2> QED
      BY <1>1, <2>1 DEF ReportFits, RecordFits
  <1> QED
    BY <1>2, <1>3, <1>4, <1>5, <1>6, <1>7

LEMMA ApplySessionsKeeps ==
  ASSUME FederationInv, NEW w \in Watcher, ApplySessions(w)
  PROVE  FederationInv'
  <1> USE DEF FederationInv
  <1> DEFINE m == watcher[w].mirror
             r == [watcher[w] EXCEPT !.at = "metrics"]
  <1>1. /\ watcher[w] \in WatcherRecord /\ m \in MirrorRecord /\ chan[w] \in Seq(Event)
        /\ Len(chan[w]) <= MaxChan /\ stream[w] \in StreamRecord
        /\ stream[w].at = "off" => stream[w] = NoStream
    BY DEF WireTypes, WatcherRecord, Resting
  <1>2. /\ r \in WatcherRecord /\ r.at = "metrics" /\ r.mirror = m /\ watcher[w].at = "sessions"
    BY <1>1 DEF WatcherRecord, ApplySessions
  <1>3. Reports(w, stream[w], chan[w], r)
    <2>1. stream' = [stream EXCEPT ![w] = stream[w]] /\ chan' = [chan EXCEPT ![w] = chan[w]]
      BY DEF ApplySessions, WireTypes, wire
    <2> QED
      BY <2>1 DEF ApplySessions, Reports
  <1>4. /\ m.rev \in Nat /\ m.n \in 1..Len(node.log) /\ m.sessions = node.log[m.n]
        /\ Chain(m, chan[w], node.log)
    BY <1>2 DEF Wired, WireFits, MirrorFits
  <1>5. /\ remote.is = "unknown" => remote' = remote /\ mrev' = mrev
        /\ remote.is # "unknown" =>
             /\ remote' = [is |-> "online", sessions |-> m.sessions, metrics |-> remote.metrics, n |-> m.n]
             /\ mrev' = IF remote.is # "online" \/ remote.sessions # m.sessions THEN mrev + 1 ELSE mrev
    BY DEF ApplySessions, ApplyMachineSessions, coordinator, RecordTypes, RemoteRecord
  <1>6. configured => w = 1 /\ remote.is # "unknown"
    BY <1>2 DEF RegistryOK
  <1> HIDE DEF m, r
  <1>7. RecordFits
    <2>1. CASE remote.is = "unknown"
      BY <2>1, <1>5, <1>6 DEF RecordFits, RecordTypes, RemoteOK
    <2>2. CASE remote.is # "unknown"
      <3>1. remote' \in RemoteRecord /\ mrev' \in Nat /\ mrev <= mrev'
        BY <2>2, <1>1, <1>5 DEF RecordTypes, RemoteRecord, MirrorRecord
      <3>2. mrev' = mrev => Shown(remote') = Shown(remote)
        BY <2>2, <1>5 DEF RecordTypes, RemoteRecord, Shown
      <3> QED
        BY <2>2, <3>1, <3>2, <1>4, <1>5 DEF RecordFits
    <2> QED
      BY <2>1, <2>2
  <1>8. ReportFits(w, stream[w], chan[w], r)
    <2>1. WireFits(node.log, stream[w], chan[w], r)
      BY <1>2 DEF Wired, WireFits, m
    <2>2. configured => \A i \in 1..Len(chan[w]) : remote'.n <= chan[w][i].n
      BY <1>4, <1>5, <1>6 DEF Chain
    <2> QED
      BY <1>1, <1>2, <1>6, <2>1, <2>2 DEF ReportFits, Resting, WireTypes
  <1> QED
    BY <1>3, <1>7, <1>8, ReportKeeps

LEMMA ApplyMetricsKeeps ==
  ASSUME FederationInv, NEW w \in Watcher, ApplyMetrics(w)
  PROVE  FederationInv'
  <1> USE DEF FederationInv
  <1> DEFINE m == watcher[w].mirror
             r == IF Displaced(w) THEN NoWatcher ELSE [watcher[w] EXCEPT !.at = "read"]
  <1>1. /\ watcher[w] \in WatcherRecord /\ m \in MirrorRecord /\ chan[w] \in Seq(Event)
        /\ Len(chan[w]) <= MaxChan /\ stream[w] \in StreamRecord /\ node.log \in Logs
        /\ stream[w].at = "off" => stream[w] = NoStream
    BY DEF WireTypes, WatcherRecord, Resting, NodeRecord
  <1>2. /\ r \in WatcherRecord /\ r.at \in {"none", "read"}
        /\ r.at = "read" => r.mirror = m /\ registered = w
        /\ r.at = "none" => r = NoWatcher /\ registered # w
        /\ watcher[w].at = "metrics"
    BY <1>1, NoThings DEF WatcherRecord, ApplyMetrics, Displaced, NoWatcher
  <1>3. Reports(w, stream[w], chan[w], r)
    <2>1. stream' = [stream EXCEPT ![w] = stream[w]] /\ chan' = [chan EXCEPT ![w] = chan[w]]
      BY DEF ApplyMetrics, WireTypes, wire
    <2> QED
      BY <2>1 DEF ApplyMetrics, Reports, Await
  <1>4. /\ remote.is = "unknown" \/ remote.metrics = m.metrics => remote' = remote /\ mrev' = mrev
        /\ ~(remote.is = "unknown" \/ remote.metrics = m.metrics) =>
             remote' = [remote EXCEPT !.metrics = m.metrics] /\ mrev' = mrev + 1
    BY DEF ApplyMetrics, SetMachineMetrics, coordinator
  <1>5. configured => w = 1 /\ remote.is # "unknown"
    BY <1>2 DEF RegistryOK
  <1> HIDE DEF m, r
  <1>6. /\ remote' \in RemoteRecord /\ remote'.is = remote.is /\ remote'.sessions = remote.sessions
        /\ remote'.n = remote.n /\ mrev' \in Nat /\ mrev <= mrev'
        /\ remote.is = "unknown" => remote' = remote
        /\ mrev' = mrev => remote' = remote
    BY <1>1, <1>4 DEF RecordTypes, RemoteRecord, MirrorRecord
  <1>7. RecordFits
    BY <1>6 DEF RecordFits, RemoteOK, Following
  <1>8. ReportFits(w, stream[w], chan[w], r)
    <2>1. CASE r.at = "read"
      <3>1. WireFits(node.log, stream[w], chan[w], r)
        BY <2>1, <1>2 DEF Wired, WireFits, m
      <3> QED
        BY <2>1, <3>1, <1>1, <1>2, <1>5, <1>6 DEF ReportFits, WireTypes, Following
    <2>2. CASE r.at = "none"
      <3>1. stream[w] = NoStream /\ chan[w] = <<>> /\ NoStream.at = "off" /\ r.mirror = NoMirror
        BY <2>2, <1>2 DEF Resting, NoStream, NoWatcher
      <3>2. WireFits(node.log, stream[w], chan[w], r)
        BY <2>2, <3>1, <1>1, <1>2, FitsFresh
      <3> QED
        BY <2>2, <3>1, <3>2, <1>1, <1>2, <1>5 DEF ReportFits, WireTypes
    <2> QED
      BY <2>1, <2>2, <1>2
  <1> QED
    BY <1>3, <1>7, <1>8, ReportKeeps

LEMMA MarkOfflineKeeps ==
  ASSUME FederationInv, NEW w \in Watcher, MarkOffline(w)
  PROVE  FederationInv'
  <1> USE DEF FederationInv
  <1> DEFINE r == IF Displaced(w) THEN NoWatcher ELSE [watcher[w] EXCEPT !.at = "connect"]
  <1>1. /\ watcher[w] \in WatcherRecord /\ watcher[w].at = "failed" /\ watcher[w].mirror = NoMirror
        /\ node.log \in Logs /\ MaxChan \in Nat
    BY FederationAssumption DEF WireTypes, Resting, NodeRecord, MarkOffline
  <1>2. /\ r \in WatcherRecord /\ r.at \in {"none", "connect"} /\ r.mirror = NoMirror
        /\ r.at = "connect" => registered = w
    BY <1>1, NoThings DEF WatcherRecord, Displaced, NoWatcher
  <1>3. Reports(w, NoStream, <<>>, r)
    BY DEF MarkOffline, Reports, Await
  <1>4. /\ remote.is = "unknown" => remote' = remote /\ mrev' = mrev
        /\ remote.is # "unknown" =>
             /\ remote' = [is |-> "offline", sessions |-> {}, metrics |-> remote.metrics, n |-> remote.n]
             /\ mrev' = IF remote.is # "offline" THEN mrev + 1 ELSE mrev
    BY DEF MarkOffline, MarkMachineOffline, coordinator, RecordTypes, RemoteRecord
  <1>5. configured => w = 1 /\ remote.is # "unknown"
    BY <1>1 DEF RegistryOK
  <1> HIDE DEF r
  <1>6. RecordFits
    <2>1. CASE remote.is = "unknown"
      BY <2>1, <1>4, <1>5 DEF RecordFits, RecordTypes, RemoteOK
    <2>2. CASE remote.is # "unknown"
      <3>1. /\ remote' \in RemoteRecord /\ mrev' \in Nat /\ mrev <= mrev'
            /\ remote'.is = "offline" /\ remote'.sessions = {} /\ remote'.n = remote.n
        BY <2>2, <1>4 DEF RecordTypes, RemoteRecord
      <3>2. mrev' = mrev => remote' = remote
        <4>1. mrev' = mrev => remote.is = "offline"
          BY <2>2, <1>4 DEF RecordTypes
        <4>2. remote = [is |-> remote.is, sessions |-> remote.sessions, metrics |-> remote.metrics,
                        n |-> remote.n]
          BY DEF RecordTypes, RemoteRecord
        <4> QED
          BY <2>2, <1>4, <4>1, <4>2 DEF RemoteOK
      <3> QED
        BY <2>2, <3>1, <3>2 DEF RecordFits, Following
    <2> QED
      BY <2>1, <2>2
  <1>7. ReportFits(w, NoStream, <<>>, r)
    <2>1. NoStream.at = "off"
      BY DEF NoStream
    <2>2. WireFits(node.log, NoStream, <<>>, r)
      BY <1>1, <1>2, <2>1, FitsFresh, NoThings
    <2> QED
      BY <1>1, <1>2, <1>5, <2>1, <2>2, NoThings DEF ReportFits
  <1> QED
    BY <1>3, <1>6, <1>7, ReportKeeps

-----------------------------------------------------------------------------
(* The steps of LAN discovery, which leaves a configured machine alone.    *)

\* Nothing is left of the connection of the watcher that is aborted, and none is
\* registered any more.
LEMMA AbortKeeps ==
  ASSUME FederationInv, Abort(registered), UNCHANGED node
  PROVE  WireTypes' /\ Wired' /\ Resting'
  <1> USE DEF FederationInv
  <1> DEFINE w == registered
  <1>1. registered' = 0 /\ \A v \in Watcher : registered' # v
    BY WatcherNames DEF Abort
  <1>2. CASE w = 0
    <2>1. UNCHANGED <<stream, chan, watcher>>
      BY <1>2 DEF Abort
    <2>2. \A v \in Watcher : registered # v
      BY <1>2, WatcherNames
    <2> QED
      BY <1>1, <2>1, <2>2 DEF WireTypes, Wired, Resting
  <1>3. CASE w \in Watcher
    <2> DEFINE r == IF watcher[w].at \in {"connect", "read"} THEN NoWatcher ELSE watcher[w]
    <2>1. /\ stream' = [stream EXCEPT ![w] = NoStream] /\ chan' = [chan EXCEPT ![w] = <<>>]
          /\ watcher' = [watcher EXCEPT ![w] = r]
      BY <1>3, WatcherNames DEF Abort, WireTypes
    <2>2. /\ watcher[w] \in WatcherRecord /\ r \in WatcherRecord /\ MaxChan \in Nat
          /\ node.log \in Logs /\ NoStream.at = "off" /\ NoWatcher.at = "none"
          /\ NoWatcher.mirror = NoMirror
      BY <1>3, NoThings, FederationAssumption DEF WireTypes, NodeRecord, NoStream, NoWatcher
    <2>3. /\ stream'[w] = NoStream /\ chan'[w] = <<>> /\ watcher'[w] = r
          /\ \A v \in Watcher \ {w} :
               stream'[v] = stream[v] /\ chan'[v] = chan[v] /\ watcher'[v] = watcher[v]
      BY <1>3, <2>1 DEF WireTypes
    <2>4. WireTypes'
      <3>1. stream' \in [Watcher -> StreamRecord] /\ watcher' \in [Watcher -> WatcherRecord]
        BY <1>3, <2>1, <2>2, NoThings DEF WireTypes
      <3>2. chan' \in [Watcher -> Seq(Event)]
        <4>1. <<>> \in Seq(Event)
          OBVIOUS
        <4> QED
          BY <1>3, <2>1, <4>1 DEF WireTypes
      <3>3. \A v \in Watcher : Len(chan'[v]) <= MaxChan
        BY <2>2, <2>3 DEF WireTypes
      <3> QED
        BY <3>1, <3>2, <3>3 DEF WireTypes
    <2>5. WireFits(node.log, NoStream, <<>>, r)
      <3>1. CASE r = NoWatcher
        BY <3>1, <2>2, NoThings, FitsFresh
      <3>2. CASE r = watcher[w]
        BY <1>3, <3>2, <2>2 DEF Wired, WireFits, Chain
      <3> QED
        BY <3>1, <3>2
    <2>6. r.at \in {"none", "sessions", "metrics", "failed"}
          /\ (r.at \in {"none", "connect", "failed"} => r.mirror = NoMirror)
      BY <1>3, <2>2 DEF WatcherRecord, Resting
    <2> HIDE DEF r
    <2>7. Wired'
      <3> SUFFICES ASSUME NEW v \in Watcher
                   PROVE  WireFits(node.log, stream'[v], chan'[v], watcher'[v])
        BY DEF Wired
      <3>1. CASE v = w
        BY <3>1, <2>3, <2>5
      <3>2. CASE v # w
        BY <3>2, <2>3 DEF Wired
      <3> QED
        BY <3>1, <3>2
    <2>8. Resting'
      BY <1>1, <2>2, <2>3, <2>6 DEF Resting
    <2> QED
      BY <2>4, <2>7, <2>8
  <1> QED
    BY <1>2, <1>3 DEF RecordTypes

LEMMA UpsertDiscoveredKeeps ==
  ASSUME FederationInv, UpsertDiscovered
  PROVE  FederationInv'
  <1> USE DEF FederationInv
  <1>1. /\ ~configured /\ ~configured' /\ registry = "idle" /\ registry' = "reset" /\ registered' = 0
        /\ Abort(registered) /\ UNCHANGED <<node, remote, mrev, observer>>
        /\ bounds'.life = bounds.life /\ RecordTypes'
    BY DEF UpsertDiscovered, coordinator, Abort, RecordTypes
  <1>2. WireTypes' /\ Wired' /\ Resting'
    BY <1>1, AbortKeeps
  <1>3. RegistryOK' /\ RemoteOK' /\ Following'
    BY <1>1 DEF RegistryOK, RemoteOK, Listed, Following
  <1>4. View' = View
    <2>1. View' = Shown(remote)
      BY <1>1 DEF View, Listed, Shown
    <2>2. CASE Listed
      BY <2>1, <2>2 DEF View, Shown
    <2>3. CASE ~Listed
      <3>1. remote.is = "unknown" /\ remote.sessions = {} /\ remote.metrics = FALSE
        BY <1>1, <2>3 DEF RemoteOK, RecordTypes, RemoteRecord
      <3>2. Shown(remote) = [is |-> remote.is, sessions |-> remote.sessions,
                             metrics |-> remote.metrics, n |-> 0]
        BY DEF Shown, RecordTypes, RemoteRecord
      <3> QED
        BY <2>1, <2>3, <3>1, <3>2 DEF View, Unknown
    <2> QED
      BY <2>2, <2>3
  <1>5. ObserverOK'
    BY <1>1, <1>4 DEF ObserverOK
  <1> QED
    BY <1>1, <1>2, <1>3, <1>5

LEMMA UpsertResetsKeeps ==
  ASSUME FederationInv, UpsertResets
  PROVE  FederationInv'
  <1> USE DEF FederationInv
  <1>1. /\ ~configured /\ configured' = configured /\ registry = "reset" /\ registry' = "start" /\ registered' = 0
        /\ registered = 0 /\ UNCHANGED <<node, stream, chan, watcher, observer, bounds>>
        /\ mrev' = mrev + 1 /\ mrev \in Nat
    BY DEF UpsertResets, wire, RegistryOK, RecordTypes
  <1>2. /\ remote' \in RemoteRecord /\ remote'.is = "connecting" /\ remote'.sessions = {}
    BY DEF UpsertResets, Connecting, Unknown, RecordTypes, RemoteRecord
  <1>3. WireTypes' /\ Wired' /\ Resting' /\ RecordTypes'
    <2>1. WireTypes' /\ Wired' /\ Resting'
      BY <1>1 DEF WireTypes, Wired, Resting
    <2>2. RecordTypes'
      BY <1>1, <1>2 DEF RecordTypes
    <2> QED
      BY <2>1, <2>2
  <1>4. RegistryOK' /\ RemoteOK' /\ Following'
    BY <1>1, <1>2 DEF RegistryOK, RemoteOK, Listed, Following
  <1>5. ObserverOK'
    BY <1>1 DEF ObserverOK, RecordTypes, ObserverRecord
  <1> QED
    BY <1>3, <1>4, <1>5

LEMMA StartWatcherKeeps ==
  ASSUME FederationInv, StartWatcher
  PROVE  FederationInv'
  <1> USE DEF FederationInv
  <1> DEFINE r == [at |-> "connect", mirror |-> NoMirror]
  <1>1. PICK w \in Watcher : /\ watcher[w].at = "none" /\ registered' = w
                             /\ watcher' = [watcher EXCEPT ![w] = r]
    BY DEF StartWatcher
  <1>2. /\ ~configured /\ configured' = configured /\ registry = "start" /\ registry' = "idle" /\ registered = 0
        /\ UNCHANGED <<node, stream, chan, remote, mrev, observer, bounds>>
    BY DEF StartWatcher, wire, coordinator, RegistryOK, RecordTypes
  <1>3. /\ watcher'[w] = r /\ \A v \in Watcher \ {w} : watcher'[v] = watcher[v]
        /\ r \in WatcherRecord /\ r.at = "connect" /\ r.mirror = NoMirror /\ node.log \in Logs
        /\ stream[w] = NoStream /\ chan[w] = <<>> /\ NoStream.at = "off"
    BY <1>1, NoThings DEF WireTypes, WatcherRecord, NodeRecord, Resting, NoStream
  <1>4. WireTypes' /\ RecordTypes'
    <2>1. watcher' \in [Watcher -> WatcherRecord]
      BY <1>1, <1>3 DEF WireTypes
    <2>2. WireTypes'
      BY <1>2, <2>1 DEF WireTypes
    <2>3. RecordTypes'
      BY <1>1, <1>2 DEF RecordTypes
    <2> QED
      BY <2>2, <2>3
  <1> HIDE DEF r
  <1>5. Wired'
    <2>1. WireFits(node.log, NoStream, <<>>, r)
      BY <1>3, NoThings, FitsFresh
    <2> QED
      BY <1>2, <1>3, <2>1 DEF Wired
  <1>6. Resting'
    BY <1>1, <1>2, <1>3, WatcherNames DEF Resting
  <1>7. RegistryOK' /\ RemoteOK' /\ Following'
    BY <1>1, <1>2, WatcherNames DEF RegistryOK, RemoteOK, Listed, Following
  <1>8. ObserverOK'
    <2>1. Listed /\ Listed'
      BY <1>1, <1>2, WatcherNames DEF Listed
    <2> QED
      BY <1>2, <2>1 DEF ObserverOK, View
  <1> QED
    BY <1>4, <1>5, <1>6, <1>7, <1>8

LEMMA RemoveDiscoveredKeeps ==
  ASSUME FederationInv, RemoveDiscovered
  PROVE  FederationInv'
  <1> USE DEF FederationInv
  <1>1. /\ ~configured /\ ~configured' /\ registry = "idle" /\ registry' = "forget" /\ registered' = 0
        /\ Abort(registered) /\ UNCHANGED <<node, remote, mrev, observer>>
        /\ bounds'.life = bounds.life /\ RecordTypes'
    BY DEF RemoveDiscovered, coordinator, Abort, RecordTypes
  <1>2. WireTypes' /\ Wired' /\ Resting'
    BY <1>1, AbortKeeps
  <1>3. RegistryOK' /\ RemoteOK' /\ Following' /\ ObserverOK'
    BY <1>1 DEF RegistryOK, RemoteOK, Listed, Following, ObserverOK
  <1> QED
    BY <1>1, <1>2, <1>3

LEMMA RemoveForgetsKeeps ==
  ASSUME FederationInv, RemoveForgets
  PROVE  FederationInv'
  <1> USE DEF FederationInv
  <1>1. /\ ~configured /\ configured' = configured /\ registry = "forget" /\ registry' = "idle" /\ registered' = 0
        /\ registered = 0 /\ UNCHANGED <<node, stream, chan, watcher, observer, bounds>>
        /\ mrev' = mrev + 1 /\ mrev \in Nat
        /\ remote' \in RemoteRecord /\ remote'.is = "unknown" /\ remote'.sessions = {} /\ ~remote'.metrics
    BY DEF RemoveForgets, wire, RegistryOK, RecordTypes, Unknown, RemoteRecord
  <1>2. WireTypes' /\ Wired' /\ Resting' /\ RecordTypes'
    <2>1. WireTypes' /\ Wired' /\ Resting'
      BY <1>1 DEF WireTypes, Wired, Resting
    <2>2. RecordTypes'
      BY <1>1 DEF RecordTypes
    <2> QED
      BY <2>1, <2>2
  <1>3. RegistryOK' /\ RemoteOK' /\ Following' /\ ObserverOK'
    BY <1>1 DEF RegistryOK, RemoteOK, Listed, Following, ObserverOK, RecordTypes, ObserverRecord
  <1> QED
    BY <1>2, <1>3

-----------------------------------------------------------------------------
(* The observer, and a restart of the coordinator.                         *)

LEMMA ViewType ==
  ASSUME RecordTypes
  PROVE  View \in RemoteRecord
  BY DEF View, Unknown, RecordTypes, RemoteRecord

LEMMA ObserverStepsKeep ==
  ASSUME FederationInv, Observe \/ ObserveTimesOut \/ ObserveAnswers
  PROVE  FederationInv'
  <1> USE DEF FederationInv
  <1>1. /\ UNCHANGED <<configured, node, stream, chan, watcher, registered, registry, remote, mrev>>
        /\ bounds'.life = bounds.life
        /\ bounds' \in [fault : Nat, life : Nat, observe : Nat]
    BY DEF Observe, ObserveTimesOut, ObserveAnswers, wire, coordinator, RecordTypes
  <1>2. observer' \in ObserverRecord
    <2>1. CASE Observe
      BY <2>1 DEF Observe, RecordTypes, ObserverRecord
    <2>2. CASE ObserveTimesOut
      BY <2>2, ViewType DEF ObserveTimesOut, RecordTypes, ObserverRecord
    <2>3. CASE ObserveAnswers
      BY <2>3, ViewType DEF ObserveAnswers, RecordTypes, ObserverRecord
    <2> QED
      BY <2>1, <2>2, <2>3
  <1>3. WireTypes' /\ RecordTypes' /\ Wired' /\ Resting' /\ RegistryOK' /\ RemoteOK' /\ Following'
    BY <1>1, <1>2 DEF WireTypes, RecordTypes, Wired, Resting, RegistryOK, RemoteOK, Following, Listed
  <1>4. View' = View
    BY <1>1 DEF View, Listed
  <1>5. ObserverOK'
    <2>1. CASE Observe
      BY <2>1, <1>1, <1>4 DEF Observe, ObserverOK, RecordTypes, ObserverRecord
    <2>2. CASE ObserveTimesOut
      BY <2>2, <1>1, <1>4 DEF ObserveTimesOut, ObserverOK, RecordTypes, ObserverRecord
    <2>3. CASE ObserveAnswers
      BY <2>3, <1>1, <1>4 DEF ObserveAnswers, ObserverOK, RecordTypes, ObserverRecord
    <2> QED
      BY <2>1, <2>2, <2>3
  <1> QED
    BY <1>3, <1>5

\* The coordinator's connections as a process finds them when it starts.
AtStart ==
  /\ node \in NodeRecord /\ node.log # <<>> /\ configured \in BOOLEAN
  /\ stream = [w \in Watcher |-> NoStream] /\ chan = [w \in Watcher |-> <<>>]
  /\ watcher = FirstWatcher /\ registered = IF configured THEN 1 ELSE 0

FitsAtStart ==
  /\ WireTypes /\ Wired /\ Resting /\ registered \in Watcher \cup {0}
  /\ \A w \in Watcher : /\ w # 1 => watcher[w].at = "none"
                        /\ chan[w] = <<>> /\ watcher[w].at # "sessions"

LEMMA StartFits ==
  AtStart => FitsAtStart
  <1> SUFFICES ASSUME AtStart
               PROVE  FitsAtStart
    OBVIOUS
  <1> USE DEF AtStart
  <1>1. \A w \in Watcher :
          /\ stream[w] = NoStream /\ chan[w] = <<>> /\ watcher[w].mirror = NoMirror
          /\ watcher[w] \in WatcherRecord
          /\ watcher[w].at \in {"none", "connect"}
          /\ watcher[w].at = "connect" => registered = w
          /\ w # 1 => watcher[w].at = "none"
    BY NoThings DEF FirstWatcher, NoWatcher, WatcherRecord
  <1>2. NoStream.at = "off" /\ NoStream \in StreamRecord /\ node.log \in Logs /\ MaxChan \in Nat
    BY NoThings, FederationAssumption DEF NoStream, NodeRecord
  <1>3. WireTypes
    <2>1. watcher \in [Watcher -> WatcherRecord]
      BY <1>1 DEF FirstWatcher
    <2> QED
      BY <1>1, <1>2, <2>1 DEF WireTypes
  <1>4. Wired
    BY <1>1, <1>2, FitsFresh DEF Wired
  <1>5. Resting
    BY <1>1, <1>2 DEF Resting
  <1> QED
    BY <1>1, <1>3, <1>4, <1>5, WatcherNames DEF FitsAtStart

LEMMA RestartKeeps ==
  ASSUME FederationInv, CoordinatorRestart
  PROVE  FederationInv'
  <1> USE DEF FederationInv
  <1>1. /\ UNCHANGED <<configured, node>> /\ mrev' = 0 /\ registry' = "idle"
        /\ registered' = IF configured THEN 1 ELSE 0
        /\ bounds' \in [fault : Nat, life : Nat, observe : Nat] /\ bounds'.life = bounds.life + 1
    <2>1. bounds' = [fault |-> bounds.fault + 1, life |-> bounds.life + 1, observe |-> bounds.observe]
      BY DEF CoordinatorRestart, RecordTypes
    <2> QED
      BY <2>1 DEF CoordinatorRestart, RecordTypes
  <1>2. FitsAtStart'
    <2>1. /\ stream' = [w \in Watcher |-> NoStream] /\ chan' = [w \in Watcher |-> <<>>]
          /\ watcher' = FirstWatcher'
      BY DEF CoordinatorRestart, FirstWatcher
    <2>2. AtStart'
      BY <1>1, <2>1 DEF AtStart, WireTypes, RecordTypes
    <2> QED
      BY <2>2, StartFits, PTL
  <1>3. /\ remote' \in RemoteRecord /\ remote'.n = remote.n /\ remote'.sessions = {}
        /\ remote'.is = IF configured THEN "connecting" ELSE "unknown"
        /\ remote'.metrics = FALSE
    BY DEF CoordinatorRestart, Connecting, Unknown, RecordTypes, RemoteRecord
  <1>4. /\ observer' \in ObserverRecord /\ observer'.at = "idle"
        /\ observer'.life = observer.life /\ observer'.from = observer.from
    BY DEF CoordinatorRestart, RecordTypes, ObserverRecord
  <1>5. RecordTypes'
    BY <1>1, <1>2, <1>3, <1>4 DEF RecordTypes, FitsAtStart
  <1>6. RegistryOK' /\ RemoteOK' /\ Following'
    BY <1>1, <1>2, <1>3 DEF FitsAtStart, RegistryOK, RemoteOK, Following, Listed, RecordTypes, RemoteRecord
  <1>7. ObserverOK'
    BY <1>1, <1>4 DEF ObserverOK, RecordTypes, ObserverRecord
  <1> QED
    BY <1>2, <1>5, <1>6, <1>7 DEF FitsAtStart

-----------------------------------------------------------------------------
(* The theorems.                                                           *)

LEMMA FederationStart ==
  ASSUME FederationInit
  PROVE  FederationInv
  <1>1. node \in NodeRecord /\ node.log # <<>> /\ Len(node.log) \in Nat
    BY DEF FederationInit, NodeRecord, Logs
  <1>2. FitsAtStart
    BY <1>1, StartFits DEF FederationInit, AtStart
  <1>3. /\ remote = [is |-> IF configured THEN "connecting" ELSE "unknown", sessions |-> {},
                     metrics |-> FALSE, n |-> 0]
        /\ View = remote
    <2>1. CASE configured
      <3>1. remote = [is |-> "connecting", sessions |-> {}, metrics |-> FALSE, n |-> 0]
        BY <2>1 DEF FederationInit, Connecting, Unknown
      <3>2. View = [remote EXCEPT !.n = 0]
        BY <2>1 DEF View, Listed
      <3> QED
        BY <2>1, <3>1, <3>2
    <2>2. CASE ~configured
      BY <2>2 DEF FederationInit, Connecting, Unknown, View, Listed
    <2> QED
      BY <2>1, <2>2
  <1>a. /\ configured \in BOOLEAN /\ registry = "idle" /\ mrev = 0
        /\ observer = [at |-> "idle", after |-> 0, rev |-> 0, view |-> remote,
                       life |-> 0, from |-> 0, seen |-> remote]
        /\ bounds = [fault |-> 0, life |-> 0, observe |-> 0]
    BY DEF FederationInit
  <1>4. RecordTypes
    <2>1. remote \in RemoteRecord
      BY <1>3 DEF RemoteRecord
    <2>2. observer \in ObserverRecord
      BY <2>1, <1>a DEF ObserverRecord
    <2> QED
      BY <2>1, <2>2, <1>2, <1>a DEF RecordTypes, FitsAtStart
  <1>5. RegistryOK /\ RemoteOK
    BY <1>2, <1>3 DEF FederationInit, RegistryOK, RemoteOK, Listed, FitsAtStart
  <1>6. Following
    BY <1>1, <1>2, <1>3 DEF Following, FitsAtStart
  <1>7. ObserverOK
    BY <1>3, <1>a DEF ObserverOK
  <1> QED
    BY <1>2, <1>4, <1>5, <1>6, <1>7 DEF FederationInv, FitsAtStart

LEMMA FederationKeeps ==
  ASSUME FederationInv, [FederationNext]_federationVars
  PROVE  FederationInv'
  <1>1. CASE NodeRefresh \/ NodeMirrors \/ NodeMetrics \/ NodeRestart
    BY <1>1, MachinePublishes, PublishKeeps DEF FederationInv
  <1>2. CASE \E w \in Watcher : Serve(w) \/ Watch(w) \/ ConnectFails(w) \/ Cut(w)
    <2>1. PICK w \in Watcher : Serve(w) \/ Watch(w) \/ ConnectFails(w) \/ Cut(w)
      BY <1>2
    <2>2. CASE Serve(w)
      BY <2>2, SendSnapshotKeeps, WakeKeeps, SendPatchKeeps DEF Serve
    <2>3. CASE Watch(w)
      BY <2>3, ConnectKeeps, ReadKeeps, ReadFailsKeeps, ApplySessionsKeeps, ApplyMetricsKeeps,
         MarkOfflineKeeps DEF Watch
    <2> QED
      BY <2>1, <2>2, <2>3, ConnectKeeps, CutKeeps
  <1>3. CASE UpsertDiscovered \/ UpsertResets \/ StartWatcher \/ RemoveDiscovered \/ RemoveForgets
    BY <1>3, UpsertDiscoveredKeeps, UpsertResetsKeeps, StartWatcherKeeps, RemoveDiscoveredKeeps,
       RemoveForgetsKeeps
  <1>4. CASE Observe \/ ObserveTimesOut \/ ObserveAnswers
    BY <1>4, ObserverStepsKeep
  <1>5. CASE CoordinatorRestart
    BY <1>5, RestartKeeps
  <1>6. CASE Quiet \/ UNCHANGED federationVars
    BY <1>6, SMTT(30) DEF Quiet, federationVars, FederationInv, WireTypes, RecordTypes, Wired, Resting,
       RegistryOK, RemoteOK, Following, ObserverOK, Listed, View
  <1> QED
    BY <1>1, <1>2, <1>3, <1>4, <1>5, <1>6 DEF FederationNext

\* The invariant holds in every state of every behaviour.
THEOREM FederationInvariant == FederationSpec => []FederationInv
  BY FederationStart, FederationKeeps, PTL DEF FederationSpec

LEMMA InvariantIsSafe ==
  ASSUME FederationInv
  PROVE  FederationSafe
  <1> USE DEF FederationInv
  <1>1. FederationTypeOK
    BY DEF WireTypes, RecordTypes, FederationTypeOK, NodeRecord, Logs, StreamRecord, WatcherRecord,
       RemoteRecord, ObserverRecord
  <1>2. NoNeedlessResync
    BY DEF NoNeedlessResync, Resting, NoStream
  <1>3. ObserverNotStranded
    BY DEF ObserverNotStranded, ObserverOK, Listed, RegistryOK
  <1> QED
    BY <1>1, <1>2, <1>3 DEF FederationSafe

\* A watcher resynchronizes only after its connection ended (watch_stream never
\* meets a patch it cannot apply).  An observer that waits with a revision of this
\* process misses no later change, and holds what the coordinator shows if its view
\* is of this process too; of an older view, kept over a restart of the coordinator,
\* nothing is said (agents_observe).
THEOREM FederationStaysSafe == FederationSpec => []FederationSafe
  BY InvariantIsSafe, FederationInvariant, PTL

-----------------------------------------------------------------------------
(* The refinement: what is shown of a configured machine is a lagging      *)
(* replica of what the machine published.                                  *)

Held == IF configured THEN remote.n ELSE 0
Showing == IF configured /\ remote.is = "online" THEN {remote.sessions} ELSE {}

LEMMA ReplicaStart ==
  ASSUME FederationInit
  PROVE  Replica!Init
  <1>1. node.log \in {<<v>> : v \in SUBSET Pane}
    BY DEF FederationInit
  <1>2. Held = 0 /\ Showing = {}
    BY DEF FederationInit, Held, Showing, Connecting, Unknown
  <1> QED
    BY <1>1, <1>2 DEF Replica!Init, Held, Showing

\* A step that leaves the machine's log: the position shown does not go back,
\* and what is shown is the list of that position.
LEMMA FollowsOrLoses ==
  ASSUME FederationInv, FederationInv', UNCHANGED <<configured, node>>,
         configured => remote'.n \in {remote.n} \cup remote.n..Len(node.log),
         configured /\ remote'.is # "online" => remote'.n = remote.n
  PROVE  [Replica!Next]_(Replica!vars)
  <1> USE DEF FederationInv
  <1>1. CASE ~configured
    BY <1>1 DEF Replica!Next, Replica!vars
  <1>2. CASE configured /\ remote'.is # "online"
    <2>1. Replica!Lose
      BY <1>2 DEF Replica!Lose
    <2> QED
      BY <2>1 DEF Replica!Next
  <1>3. CASE configured /\ remote'.is = "online"
    <2>1. /\ remote'.n \in remote.n..Len(node.log) \ {0} /\ remote'.sessions = node.log[remote'.n]
      BY <1>3 DEF Following, RecordTypes, RemoteRecord
    <2>2. Replica!Follow
      BY <1>3, <2>1 DEF Replica!Follow
    <2> QED
      BY <2>2 DEF Replica!Next
  <1> QED
    BY <1>1, <1>2, <1>3

LEMMA ReplicaStep ==
  ASSUME FederationInv, FederationInv', [FederationNext]_federationVars
  PROVE  [Replica!Next]_(Replica!vars)
  <1> USE DEF FederationInv
  <1>1. CASE NodeRefresh \/ NodeMirrors \/ NodeMetrics \/ NodeRestart
    <2>1. Publishes
      BY <1>1, MachinePublishes
    <2>2. Replica!Publish
      BY <2>1 DEF Publishes, Replica!Publish, coordinator
    <2> QED
      BY <2>2 DEF Replica!Next
  <1>2. CASE \E w \in Watcher : Serve(w) \/ Watch(w) \/ ConnectFails(w) \/ Cut(w)
    <2>1. PICK w \in Watcher : Serve(w) \/ Watch(w) \/ ConnectFails(w) \/ Cut(w)
      BY <1>2
    <2>2. CASE ApplySessions(w)
      <3>1. remote.is # "unknown" => remote'.is = "online" /\ remote'.n = watcher[w].mirror.n
        BY <2>2 DEF ApplySessions, ApplyMachineSessions, coordinator, RecordTypes, RemoteRecord
      <3>2. /\ watcher[w].mirror.n \in 1..Len(node.log)
            /\ configured => remote.n <= watcher[w].mirror.n /\ remote.is # "unknown"
        BY <2>2 DEF ApplySessions, Wired, WireFits, MirrorFits, Following, RegistryOK
      <3> QED
        BY <2>2, <3>1, <3>2, FollowsOrLoses DEF ApplySessions, RecordTypes, RemoteRecord
    <2>3. CASE ~ApplySessions(w)
      <3>1. UNCHANGED <<configured, node>> /\ remote'.n = remote.n
        <4>1. CASE Serve(w) \/ ConnectFails(w) \/ Cut(w)
          BY <4>1 DEF Serve, SendSnapshot, Wake, SendPatch, ConnectFails, Cut, coordinator
        <4>2. CASE Connect(w) \/ Read(w) \/ ReadFails(w)
          BY <4>2 DEF Connect, Read, ReadFails, coordinator
        <4>3. CASE ApplyMetrics(w) \/ MarkOffline(w)
          BY <4>3 DEF ApplyMetrics, SetMachineMetrics, MarkOffline, MarkMachineOffline, coordinator,
             RecordTypes, RemoteRecord
        <4> QED
          BY <2>1, <2>3, <4>1, <4>2, <4>3 DEF Watch
      <3> QED
        BY <3>1, FollowsOrLoses
    <2> QED
      BY <2>2, <2>3
  <1>3. CASE UpsertDiscovered \/ UpsertResets \/ StartWatcher \/ RemoveDiscovered \/ RemoveForgets
    <2>1. UNCHANGED <<configured, node>> /\ (configured => remote' = remote)
      BY <1>3 DEF UpsertDiscovered, UpsertResets, StartWatcher, RemoveDiscovered, RemoveForgets,
         coordinator, RegistryOK
    <2> QED
      BY <2>1, FollowsOrLoses
  <1>4. CASE Observe \/ ObserveTimesOut \/ ObserveAnswers
    BY <1>4, FollowsOrLoses DEF Observe, ObserveTimesOut, ObserveAnswers, coordinator
  <1>5. CASE CoordinatorRestart
    <2>1. UNCHANGED <<configured, node>> /\ remote'.n = remote.n /\ remote'.is # "online"
      BY <1>5 DEF CoordinatorRestart, Connecting, Unknown
    <2> QED
      BY <2>1, FollowsOrLoses
  <1>6. CASE Quiet \/ UNCHANGED federationVars
    <2>1. UNCHANGED <<configured, node, remote>>
      BY <1>6 DEF Quiet, federationVars
    <2> QED
      BY <2>1, FollowsOrLoses
  <1> QED
    BY <1>1, <1>2, <1>3, <1>4, <1>5, <1>6 DEF FederationNext

\* What the coordinator shows of a configured machine is, pane for pane, a list
\* the machine published, and never an older one than it showed before: across
\* patches, suppressed revisions, reconnects and restarts of either side.
THEOREM MirrorLags == FederationSpec => MirrorSpec
  BY ReplicaStart, ReplicaStep, FederationInvariant, PTL DEF FederationSpec, MirrorSpec, Replica!Spec

-----------------------------------------------------------------------------
(* The output of one pane.  Contents are numbered by age, so everything a  *)
(* reader may get is compared with the last one its machine advertised.    *)

ReaderPlace == {"idle", "start", "lookup", "queue", "fetch", "store", "done", "failed", "gone"}
ReaderRecord == [at : ReaderPlace, since : 0..MaxContent, lock : Nat, got : 0..MaxContent]
PageRecord == [at : {"opening", "waiting", "over"}, previous : 0..MaxContent, woken : BOOLEAN]
MirrorOfPane == [is : {"online", "offline", "removed"}, advert : 0..MaxContent, last : 1..MaxContent]

OutputRecords ==
  /\ content \in 1..MaxContent /\ locks \in Nat /\ evicting \in BOOLEAN
  /\ mirrored \in MirrorOfPane
  /\ cached \in 0..content /\ readGate \in 0..locks /\ locked \subseteq 1..locks
  /\ reader \in [Reader -> ReaderRecord] /\ page \in PageRecord

\* The mirror is behind the owner, and advertises its last content or nothing.
MirrorBehind == mirrored.last <= content /\ mirrored.advert \in {0, mirrored.last}

\* A reader asked for no more than was advertised (m), and what it got, or is
\* about to store for all, is as recent as that, and not of the future (c).
ReaderOK(p, m, c, n) ==
  /\ p.since <= m /\ p.got <= c /\ p.lock \in 0..n
  /\ p.at \in {"queue", "fetch", "store"} => p.lock # 0
  /\ p.at \in {"store", "done"} => p.got >= p.since

OutputInv ==
  OutputRecords /\ MirrorBehind /\ \A r \in Reader : ReaderOK(reader[r], mirrored.last, content, locks)

\* A step of one reader, when the pane and its mirror rest.
LEMMA ReaderMoves ==
  ASSUME OutputInv, NEW r \in Reader, NEW p \in ReaderRecord, reader' = [reader EXCEPT ![r] = p],
         content' = content, mirrored' = mirrored, evicting' = evicting, locks' \in Nat, locks' >= locks,
         ReaderOK(p, mirrored.last, content, locks'), cached' \in 0..content, readGate' \in 0..locks',
         locked' \subseteq 1..locks', page' \in PageRecord
  PROVE  OutputInv'
  <1>1. /\ reader' \in [Reader -> ReaderRecord] /\ reader'[r] = p
        /\ \A q \in Reader \ {r} : reader'[q] = reader[q]
    BY DEF OutputInv, OutputRecords
  <1>2. OutputRecords' /\ MirrorBehind'
    BY <1>1 DEF OutputInv, OutputRecords, MirrorBehind, ReaderRecord, PageRecord
  <1>3. ASSUME NEW q \in Reader
        PROVE  ReaderOK(reader'[q], mirrored.last, content, locks')
    <2>1. CASE q = r
      BY <1>1, <2>1
    <2>2. CASE q # r
      <3>1. ReaderOK(reader[q], mirrored.last, content, locks) /\ locks \in Nat
        BY DEF OutputInv, OutputRecords
      <3> QED
        BY <1>1, <2>2, <3>1 DEF ReaderOK
    <2> QED
      BY <2>1, <2>2
  <1> QED
    BY <1>2, <1>3 DEF OutputInv

\* The same for a step that leaves the cache and its locks to the others.
LEMMA ReaderOnly ==
  ASSUME OutputInv, NEW r \in Reader, NEW p \in ReaderRecord, reader' = [reader EXCEPT ![r] = p],
         content' = content, mirrored' = mirrored, evicting' = evicting, locks' = locks, cached' = cached, readGate' = readGate,
         ReaderOK(p, mirrored.last, content, locks), locked' \subseteq 1..locks, page' \in PageRecord
  PROVE  OutputInv'
  <1>1. locks \in Nat /\ cached \in 0..content /\ readGate \in 0..locks
    BY DEF OutputInv, OutputRecords
  <1>2. locks' \in Nat /\ locks' >= locks
    BY <1>1
  <1>3. cached' \in 0..content /\ readGate' \in 0..locks' /\ locked' \subseteq 1..locks'
    BY <1>1
  <1>4. ReaderOK(p, mirrored.last, content, locks')
    OBVIOUS
  <1> QED
    BY <1>2, <1>3, <1>4, ReaderMoves

\* Steps of the pane and its mirror, when the readers rest.
LEMMA OwnerMoves ==
  ASSUME OutputInv, UNCHANGED <<reader, locks, locked>>, evicting' \in BOOLEAN, content' \in content..MaxContent,
         mirrored' \in MirrorOfPane, mirrored'.last >= mirrored.last, MirrorBehind',
         cached' \in {0, cached}, readGate' \in {0, readGate}, page' \in PageRecord
  PROVE  OutputInv'
  <1>1. content \in Nat /\ content' \in Nat /\ content' >= content /\ content' \in 1..MaxContent /\ cached' \in 0..content'
    BY OutputAssumption DEF OutputInv, OutputRecords
  <1>2. OutputRecords'
    BY <1>1 DEF OutputInv, OutputRecords, ReaderRecord, PageRecord, MirrorOfPane
  <1>3. ASSUME NEW q \in Reader
        PROVE  ReaderOK(reader[q], mirrored'.last, content', locks)
    <2>1. /\ ReaderOK(reader[q], mirrored.last, content, locks) /\ reader[q] \in ReaderRecord
          /\ mirrored.last \in Nat /\ mirrored'.last \in Nat
      BY OutputAssumption DEF OutputInv, OutputRecords, MirrorOfPane
    <2>2. reader[q].since \in Nat /\ reader[q].got \in Nat
      BY <2>1, OutputAssumption DEF ReaderRecord
    <2> QED
      BY <1>1, <2>1, <2>2 DEF ReaderOK
  <1> QED
    BY <1>2, <1>3 DEF OutputInv

LEMMA PaneKeeps ==
  ASSUME OutputInv, OwnerWrites \/ MirrorFollows \/ MirrorLost \/ EvictOutputs \/ OtherRevision
  PROVE  OutputInv'
  <1>1. /\ page \in PageRecord /\ [page EXCEPT !.woken = TRUE] \in PageRecord
        /\ content \in 1..MaxContent /\ MaxContent \in Nat /\ MirrorBehind /\ mirrored \in MirrorOfPane
        /\ mirrored.last \in 1..MaxContent /\ evicting \in BOOLEAN
    BY OutputAssumption DEF OutputInv, OutputRecords, PageRecord, MirrorOfPane
  <1>2. CASE OwnerWrites
    <2>1. content' \in content..MaxContent /\ mirrored' = mirrored /\ MirrorBehind'
      BY <1>1, <1>2 DEF OwnerWrites, MirrorBehind
    <2> QED
      BY <1>1, <1>2, <2>1, OwnerMoves DEF OwnerWrites, cacheVars
  <1>3. CASE MirrorFollows
    <2>1. PICK c \in mirrored.last..content : mirrored' = [is |-> "online", advert |-> c, last |-> c]
      BY <1>3 DEF MirrorFollows
    <2>2. c \in 1..MaxContent /\ c <= content /\ c >= mirrored.last /\ content' = content
      BY <1>1, <1>3, <2>1 DEF MirrorFollows
    <2>3. /\ mirrored' \in MirrorOfPane /\ mirrored'.last >= mirrored.last /\ MirrorBehind'
      BY <1>1, <2>1, <2>2 DEF MirrorBehind, MirrorOfPane
    <2> QED
      BY <1>1, <1>3, <2>2, <2>3, OwnerMoves DEF MirrorFollows, Woken, cacheVars
  <1>4. CASE MirrorLost
    <2>1. PICK is \in {"offline", "removed"} : mirrored' = [mirrored EXCEPT !.is = is, !.advert = 0]
      BY <1>4 DEF MirrorLost
    <2>2. /\ mirrored' \in MirrorOfPane /\ mirrored'.last = mirrored.last /\ mirrored'.advert = 0
          /\ content' = content
      <3>1. 0 \in 0..MaxContent /\ is \in {"online", "offline", "removed"}
        BY <1>1
      <3>2. mirrored' \in MirrorOfPane /\ mirrored'.last = mirrored.last /\ mirrored'.advert = 0
        BY <1>1, <2>1, <3>1 DEF MirrorOfPane
      <3> QED
        BY <1>4, <3>2 DEF MirrorLost
    <2> QED
      BY <1>1, <1>4, <2>2, OwnerMoves DEF MirrorLost, cacheVars, Woken, MirrorBehind
  <1>5. CASE OtherRevision
    BY <1>1, <1>5, OwnerMoves DEF OtherRevision, Woken, ownerVars, cacheVars, MirrorBehind
  <1>6. CASE EvictOutputs
    <2>1. /\ content' = content /\ mirrored' = mirrored /\ evicting' = FALSE /\ cached' = 0 /\ readGate' = 0
          /\ UNCHANGED <<reader, locks, locked>> /\ page' = page
      BY <1>6 DEF EvictOutputs
    <2>2. content' \in content..MaxContent /\ mirrored'.last >= mirrored.last /\ MirrorBehind'
      BY <1>1, <2>1 DEF MirrorBehind
    <2> HIDE <1>6
    <2> QED
      BY <1>1, <2>1, <2>2, OwnerMoves
  <1> QED
    BY <1>2, <1>3, <1>4, <1>5, <1>6

LEMMA ReaderKeeps ==
  ASSUME OutputInv, NEW r \in Reader, Ask(r) \/ ReaderStep(r) \/ FetchFails(r)
  PROVE  OutputInv'
  <1> DEFINE p == reader[r]
             Untouched == /\ content' = content /\ mirrored' = mirrored /\ evicting' = evicting /\ page' = page
                          /\ cached' = cached /\ readGate' = readGate /\ locks' = locks
  <1>1. /\ page \in PageRecord /\ content \in 1..MaxContent /\ MaxContent \in Nat /\ mirrored \in MirrorOfPane
        /\ cached \in 0..content /\ cached \in 0..MaxContent /\ readGate \in 0..locks /\ locked \subseteq 1..locks
        /\ locks \in Nat /\ MirrorBehind /\ mirrored.last \in 1..MaxContent
    BY OutputAssumption DEF OutputInv, OutputRecords, MirrorOfPane
  <1>2. /\ p \in ReaderRecord /\ ReaderOK(p, mirrored.last, content, locks)
        /\ p.since \in 0..MaxContent /\ p.got \in 0..MaxContent /\ p.lock \in Nat
    BY DEF OutputInv, OutputRecords, ReaderRecord
  <1>3. Fresh => cached = mirrored.last
    BY <1>1 DEF Fresh, MirrorBehind
  <1> HIDE DEF p
  <1>4. CASE Ask(r)
    <2>1. reader' = [reader EXCEPT ![r] = [p EXCEPT !.at = "start"]] /\ Untouched /\ locked' = locked
      BY <1>4 DEF Ask, Goes, p, ownerVars, cacheVars
    <2> DEFINE q == [p EXCEPT !.at = "start"]
    <2>2. q \in ReaderRecord /\ q.at = "start" /\ q.since = p.since /\ q.got = p.got /\ q.lock = p.lock
      BY <1>2 DEF ReaderRecord, ReaderPlace
    <2> HIDE DEF q
    <2>3. ReaderOK(q, mirrored.last, content, locks)
      BY <1>2, <2>2 DEF ReaderOK
    <2> QED
      BY <1>1, <2>1, <2>2, <2>3, ReaderOnly DEF q
  <1>5. CASE BeginRead(r)
    <2>1. Untouched /\ locked' = locked
      BY <1>5 DEF BeginRead, ownerVars, cacheVars
    <2>2. PICK q \in ReaderRecord : reader' = [reader EXCEPT ![r] = q] /\ ReaderOK(q, mirrored.last, content, locks)
      <3>1. CASE mirrored.is = "online"
        <4> DEFINE at == IF Fresh THEN "done" ELSE "lookup"
                   got == IF Fresh THEN cached ELSE 0
                   q == [p EXCEPT !.since = mirrored.advert, !.at = at, !.got = got]
        <4>1. /\ at \in ReaderPlace /\ at \in {"done", "lookup"} /\ got \in 0..MaxContent /\ got <= content
              /\ mirrored.advert \in 0..MaxContent /\ mirrored.advert <= mirrored.last
              /\ at = "done" => got = mirrored.last
          BY <1>1, <1>3 DEF ReaderPlace, MirrorBehind
        <4>2. reader' = [reader EXCEPT ![r] = q]
          BY <1>5, <3>1 DEF BeginRead, p
        <4> HIDE DEF at, got
        <4>3. q \in ReaderRecord /\ q.at = at /\ q.got = got /\ q.since = mirrored.advert /\ q.lock = p.lock
          BY <1>2, <4>1 DEF ReaderRecord
        <4> HIDE DEF q
        <4>4. ReaderOK(q, mirrored.last, content, locks)
          BY <1>1, <1>2, <4>1, <4>3 DEF ReaderOK
        <4> QED
          BY <4>2, <4>3, <4>4
      <3>2. CASE mirrored.is # "online"
        <4>1. PICK at \in {"failed", "gone"} : reader' = [reader EXCEPT ![r] = [p EXCEPT !.at = at]]
          BY <1>5, <3>2 DEF BeginRead, p
        <4> DEFINE q == [p EXCEPT !.at = at]
        <4>2. q \in ReaderRecord /\ q.at = at /\ q.since = p.since /\ q.got = p.got /\ q.lock = p.lock
          BY <1>2, <4>1 DEF ReaderRecord, ReaderPlace
        <4> HIDE DEF q
        <4>3. ReaderOK(q, mirrored.last, content, locks)
          BY <1>2, <4>2 DEF ReaderOK
        <4> QED
          BY <4>1, <4>2, <4>3 DEF q
      <3> QED
        BY <3>1, <3>2
    <2> QED
      BY <1>1, <2>1, <2>2, ReaderOnly
  <1>6. CASE LookupLock(r)
    <2>1. /\ content' = content /\ mirrored' = mirrored /\ evicting' = evicting /\ cached' = cached /\ locked' = locked /\ page' = page
          /\ locks' \in Nat /\ locks' >= locks
          /\ readGate' \in 1..locks'
      BY <1>1, <1>6 DEF LookupLock, ownerVars
    <2> DEFINE lock == readGate'
               q == [p EXCEPT !.at = "queue", !.lock = lock]
    <2>2. reader' = [reader EXCEPT ![r] = q] /\ p.at = "lookup"
      BY <1>6 DEF LookupLock, p
    <2>3. lock \in Nat /\ lock \in 1..locks'
      BY <2>1
    <2> HIDE DEF lock
    <2>4. q \in ReaderRecord /\ q.at = "queue" /\ q.lock = lock /\ q.since = p.since /\ q.got = p.got
      BY <1>2, <2>3 DEF ReaderRecord, ReaderPlace
    <2> HIDE DEF q
    <2>5. ReaderOK(q, mirrored.last, content, locks')
      BY <1>2, <2>3, <2>4, <2>1 DEF ReaderOK
    <2>6. locked' \subseteq 1..locks' /\ readGate' \in 0..locks'
      BY <1>1, <2>1
    <2> QED
      BY <1>1, <2>1, <2>2, <2>4, <2>5, <2>6, ReaderMoves
  <1>7. CASE Acquire(r)
    <2>1. p.at = "queue" /\ Untouched
      BY <1>7 DEF Acquire, p, ownerVars, cacheVars
    <2>2. CASE \E at \in {"done", "failed"}, got \in 0..MaxContent :
                 /\ reader' = [reader EXCEPT ![r] = [p EXCEPT !.at = at, !.got = got, !.lock = 0]]
                 /\ got <= content /\ (at = "done" => got = mirrored.last) /\ locked' = locked
      <3>1. PICK at \in {"done", "failed"}, got \in 0..MaxContent :
                 /\ reader' = [reader EXCEPT ![r] = [p EXCEPT !.at = at, !.got = got, !.lock = 0]]
                 /\ got <= content /\ (at = "done" => got = mirrored.last) /\ locked' = locked
        BY <2>2
      <3> DEFINE q == [p EXCEPT !.at = at, !.got = got, !.lock = 0]
      <3>2. q \in ReaderRecord /\ q.at = at /\ q.since = p.since /\ q.got = got /\ q.lock = 0
        BY <1>2, <3>1 DEF ReaderRecord, ReaderPlace
      <3> HIDE DEF q
      <3>3. ReaderOK(q, mirrored.last, content, locks)
        BY <1>1, <1>2, <3>1, <3>2 DEF ReaderOK
      <3> QED
        BY <1>1, <2>1, <3>1, <3>2, <3>3, ReaderOnly DEF q
    <2>3. CASE Goes(r, "fetch") /\ locked' = locked \cup {p.lock}
      <3> DEFINE q == [p EXCEPT !.at = "fetch"]
      <3>1. reader' = [reader EXCEPT ![r] = q]
        BY <2>3 DEF Goes, p
      <3>2. q \in ReaderRecord /\ q.at = "fetch" /\ q.since = p.since /\ q.got = p.got /\ q.lock = p.lock
        BY <1>2 DEF ReaderRecord, ReaderPlace
      <3> HIDE DEF q
      <3>3. ReaderOK(q, mirrored.last, content, locks) /\ p.lock \in 1..locks
        BY <1>1, <1>2, <2>1, <3>2 DEF ReaderOK
      <3> QED
        BY <1>1, <2>1, <2>3, <3>1, <3>2, <3>3, ReaderOnly
    <2>4. Fresh => cached \in 0..MaxContent /\ cached <= content /\ cached = mirrored.last
      BY <1>1, <1>3
    <2>5. 0 \in 0..MaxContent /\ 0 <= content
      BY <1>1
    <2>6. \/ Fresh /\ Settle(r, "done", cached) /\ locked' = locked
          \/ Settle(r, "failed", 0) /\ locked' = locked
          \/ Goes(r, "fetch") /\ locked' = locked \cup {p.lock}
      BY <1>7 DEF Acquire, p
    <2> QED
      BY <2>2, <2>3, <2>4, <2>5, <2>6 DEF Settle, p
  <1>8. CASE Fetched(r)
    <2>1. p.at = "fetch" /\ Untouched /\ locked' = locked
      BY <1>8 DEF Fetched, p, ownerVars, cacheVars
    <2> DEFINE q == [p EXCEPT !.at = "store", !.got = content]
    <2>2. reader' = [reader EXCEPT ![r] = q]
      BY <1>8 DEF Fetched, p
    <2>3. content \in 0..MaxContent /\ mirrored.last <= content
      BY <1>1 DEF MirrorBehind
    <2>4. q \in ReaderRecord /\ q.at = "store" /\ q.since = p.since /\ q.got = content /\ q.lock = p.lock
      BY <1>2, <2>3 DEF ReaderRecord, ReaderPlace
    <2> HIDE DEF q
    <2>5. ReaderOK(q, mirrored.last, content, locks)
      BY <1>1, <1>2, <2>1, <2>3, <2>4 DEF ReaderOK
    <2> QED
      BY <1>1, <2>1, <2>2, <2>4, <2>5, ReaderOnly
  <1>9. CASE StoreFetched(r) \/ FetchFails(r)
    <2>1. PICK at \in {"done", "failed"}, got \in {p.got, 0} :
            /\ reader' = [reader EXCEPT ![r] = [p EXCEPT !.at = at, !.got = got, !.lock = 0]]
            /\ at = "done" => p.at = "store" /\ got = p.got
            /\ cached' \in {p.got, cached} /\ readGate' = readGate /\ locked' \subseteq locked
            /\ content' = content /\ mirrored' = mirrored /\ evicting' = evicting /\ page' = page /\ locks' = locks
      BY <1>9 DEF StoreFetched, FetchFails, Settle, Release, ownerVars, cacheVars, p
    <2> DEFINE q == [p EXCEPT !.at = at, !.got = got, !.lock = 0]
    <2>2. got \in 0..MaxContent /\ got <= content /\ p.got \in 0..content
      BY <1>1, <1>2 DEF ReaderOK
    <2>3. q \in ReaderRecord /\ q.at = at /\ q.since = p.since /\ q.got = got /\ q.lock = 0
      BY <1>2, <2>1, <2>2 DEF ReaderRecord, ReaderPlace
    <2> HIDE DEF q
    <2>4. ReaderOK(q, mirrored.last, content, locks)
      BY <1>1, <1>2, <2>1, <2>2, <2>3 DEF ReaderOK
    <2>5. cached' \in 0..content /\ readGate' \in 0..locks' /\ locked' \subseteq 1..locks'
      BY <1>1, <2>1, <2>2
    <2> QED
      <3>1. locks' \in Nat /\ locks' >= locks /\ ReaderOK(q, mirrored.last, content, locks')
        BY <1>1, <2>1, <2>4
      <3>2. reader' = [reader EXCEPT ![r] = q] /\ content' = content /\ mirrored' = mirrored
            /\ evicting' = evicting /\ page' \in PageRecord
        BY <1>1, <2>1 DEF q
      <3> QED
        BY <2>3, <2>5, <3>1, <3>2, ReaderMoves
  <1>10. CASE Answer(r)
    <2>1. reader' = [reader EXCEPT ![r] = IdleReader] /\ Untouched /\ locked' = locked
      BY <1>10 DEF Answer, ownerVars, cacheVars
    <2>2. IdleReader \in ReaderRecord /\ ReaderOK(IdleReader, mirrored.last, content, locks)
      BY <1>1 DEF IdleReader, ReaderRecord, ReaderPlace, ReaderOK
    <2> QED
      BY <1>1, <2>1, <2>2, ReaderOnly
  <1> QED
    BY <1>4, <1>5, <1>6, <1>7, <1>8, <1>9, <1>10 DEF ReaderStep

LEMMA PageKeeps ==
  ASSUME OutputInv, PageStep
  PROVE  OutputInv'
  <1> DEFINE p == reader[Page]
  <1>1. /\ page \in PageRecord /\ content \in 1..MaxContent /\ MaxContent \in Nat
        /\ cached \in 0..content /\ readGate \in 0..locks /\ locked \subseteq 1..locks
        /\ locks \in Nat /\ mirrored.last \in 1..MaxContent /\ Page \in Reader
    BY OutputAssumption DEF OutputInv, OutputRecords, MirrorOfPane
  <1>2. p \in ReaderRecord /\ ReaderOK(p, mirrored.last, content, locks) /\ p.got \in 0..MaxContent
    BY <1>1 DEF OutputInv, OutputRecords, ReaderRecord
  <1> HIDE DEF p
  <1>3. /\ content' = content /\ mirrored' = mirrored /\ evicting' = evicting /\ cached' = cached /\ readGate' = readGate
        /\ locked' = locked /\ locks' = locks
    BY DEF PageStep, PageOpens, PageAnswered, PageWakes, ownerVars, cacheVars
  <1>4. page' \in PageRecord
    <2>1. CASE PageOpens \/ PageWakes
      BY <1>1, <2>1 DEF PageOpens, PageWakes, PageRecord
    <2>2. CASE PageAnswered
      <3>1. PICK at \in {"waiting", "over"}, previous \in {page.previous, p.got} :
              page' = [page EXCEPT !.at = at, !.previous = previous] \/ page' = [page EXCEPT !.at = at]
        BY <2>2 DEF PageAnswered, p
      <3> QED
        BY <1>1, <1>2, <3>1 DEF PageRecord
    <2> QED
      BY <2>1, <2>2 DEF PageStep
  <1>5. CASE reader' = reader
    <2>1. reader' = [reader EXCEPT ![Page] = p]
      BY <1>1, <1>5 DEF OutputInv, OutputRecords, p
    <2> QED
      BY <1>1, <1>2, <1>3, <1>4, <2>1, ReaderOnly
  <1>6. CASE reader' = [reader EXCEPT ![Page] = [p EXCEPT !.at = "start"]]
    <2>1. /\ [p EXCEPT !.at = "start"] \in ReaderRecord
          /\ ReaderOK([p EXCEPT !.at = "start"], mirrored.last, content, locks)
      BY <1>2 DEF ReaderOK, ReaderRecord, ReaderPlace
    <2> QED
      BY <1>1, <1>3, <1>4, <1>6, <2>1, ReaderOnly
  <1>7. CASE reader' = [reader EXCEPT ![Page] = IdleReader]
    <2>1. IdleReader \in ReaderRecord /\ ReaderOK(IdleReader, mirrored.last, content, locks)
      BY <1>1 DEF IdleReader, ReaderRecord, ReaderPlace, ReaderOK
    <2> QED
      BY <1>1, <1>3, <1>4, <1>7, <2>1, ReaderOnly
  <1> QED
    BY <1>5, <1>6, <1>7 DEF PageStep, PageOpens, PageAnswered, PageWakes, Goes, p

LEMMA OutputStart ==
  ASSUME OutputInit
  PROVE  OutputInv
  <1>1. IdleReader \in ReaderRecord /\ ReaderOK(IdleReader, 1, 1, 0)
    BY OutputAssumption DEF IdleReader, ReaderRecord, ReaderPlace, ReaderOK
  <1>2. mirrored \in MirrorOfPane /\ MirrorBehind /\ page \in PageRecord
    BY OutputAssumption DEF OutputInit, MirrorBehind, MirrorOfPane, PageRecord
  <1>3. OutputRecords
    <2>1. /\ content = 1 /\ evicting = FALSE /\ cached = 0 /\ readGate = 0 /\ locked = {} /\ locks = 0
          /\ reader = [r \in Reader |-> IdleReader]
      BY DEF OutputInit
    <2>2. content \in 1..MaxContent /\ reader \in [Reader -> ReaderRecord]
      BY <1>1, <2>1, OutputAssumption
    <2>3. cached \in 0..content /\ readGate \in 0..locks /\ locked \subseteq 1..locks /\ locks \in Nat
      BY <2>1
    <2>4. evicting \in BOOLEAN
      BY <2>1
    <2> QED
      BY <1>2, <2>2, <2>3, <2>4 DEF OutputRecords
  <1> QED
    BY <1>1, <1>2, <1>3 DEF OutputInit, OutputInv

LEMMA OutputKeeps ==
  ASSUME OutputInv, [OutputNext]_outputVars
  PROVE  OutputInv'
  <1>1. CASE UNCHANGED outputVars
    BY <1>1 DEF outputVars, ownerVars, cacheVars, OutputInv, OutputRecords, MirrorBehind, ReaderOK, ReaderRecord, MirrorOfPane, PageRecord
  <1> QED
    BY <1>1, PaneKeeps, ReaderKeeps, PageKeeps DEF OutputNext

\* Whatever the order of fetches, evictions and lost mirrors, a reader's answer
\* is at least as recent as what was advertised when it asked: the cache is
\* compared with the mirror (fresh_output), and a fetch answers with what the
\* pane shows at the owner, which the mirror follows.
LEMMA OutputIsRecent ==
  ASSUME OutputInv
  PROVE  OutputTypeOK /\ ReadIsRecent
  <1>1. OutputTypeOK
    <2>1. ASSUME NEW r \in Reader
          PROVE  reader[r] \in [at : {"idle", "start", "lookup", "queue", "fetch", "store", "done", "failed", "gone"},
                                since : 0..MaxContent, lock : 0..locks, got : 0..MaxContent]
      BY DEF OutputInv, OutputRecords, ReaderOK, ReaderRecord, ReaderPlace
    <2> QED
      BY <2>1 DEF OutputInv, OutputRecords, OutputTypeOK, MirrorOfPane, PageRecord
  <1>2. ReadIsRecent
    BY DEF OutputInv, ReaderOK, ReadIsRecent
  <1> QED
    BY <1>1, <1>2

-----------------------------------------------------------------------------
\* What the model checker runs is, of each part, one of its behaviours, so that
\* both are safe in it: a mirror is not resynchronised without need, an observer
\* misses no change unless the coordinator restarts, and a reader's answer is recent.
THEOREM MachinesStaySafe == MachinesSpec => []MachinesSafe
  <1> DEFINE Both == FederationInv /\ OutputInv
  <1>1. MachinesInit => Both
    BY FederationStart, OutputStart DEF MachinesInit
  <1>2. Both /\ [MachinesNext]_<<part, federationVars, outputVars>> => Both'
    <2>1. [MachinesNext]_<<part, federationVars, outputVars>> => [FederationNext]_federationVars /\ [OutputNext]_outputVars
      BY DEF MachinesNext
    <2> QED
      BY <2>1, FederationKeeps, OutputKeeps
  <1>3. Both => MachinesSafe
    BY InvariantIsSafe, OutputIsRecent DEF MachinesSafe
  <1> QED
    BY <1>1, <1>2, <1>3, PTL DEF MachinesSpec
===============================================================================
