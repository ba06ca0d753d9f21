---------------------------- MODULE PulseProofs ----------------------------
EXTENDS PulseLive, TokenBackfill, PostgresStore, FiniteSetTheorems, NaturalsInduction,
        WellFoundedInduction, TLAPS

-----------------------------------------------------------------------------
(* Proof that the Pulse dashboard of a tab is current when it rests.  The  *)
(* argument: a step of the tab either keeps what is current or begins a    *)
(* refresh that reads everything anew (Follows); a step of the server is   *)
(* followed by an event, and every event that reaches an open source is    *)
(* news to the tab (EventsAreNews).                                        *)

\* Versions of an account, replies to a refresh, and the record of a tab.
Version == 0..MaxCommit
Reply == [is : {"asked", "read", "failed"}, at : Version \cup {None}]
Mutations == [kind : {"none", "mutate", "token"}, at : {"none", "sent", "refresh", "read"}, stale : BOOLEAN,
              read : Version \cup {None}]
Fetches == {<< >>} \cup [Shows("dashboard") -> Reply] \cup [Shows("settings") -> Reply]
Tabs == [open : BOOLEAN, hidden : BOOLEAN, view : {"dashboard", "settings"},
         account : Account \cup {None}, accounts : {"unknown", "loaded"}, asking : BOOLEAN,
         source : {"none", "opening", "open", "broken"}, awaiting : BOOLEAN, seen : Version \cup {None},
         debounce : BOOLEAN, queued : BOOLEAN, reconnect : BOOLEAN, poll : BOOLEAN, loading : BOOLEAN,
         fetch : Fetches, mutation : Mutations, data : [Resource -> Version \cup {None}], failed : BOOLEAN]

\* The server: what it has published is no newer than what is stored, and its
\* revisions count no more than what was committed.
Served ==
  /\ bounds \in [commits : 0..MaxCommit, clicks : 0..MaxClick, breaks : 0..MaxBreak]
  /\ store \in [Account -> [version : Version, owed : Version, revision : Version, published : Version]]
  /\ \A a \in Account :
       /\ store[a].version <= MaxCommit - bounds.commits
       /\ store[a].published <= store[a].version
       /\ store[a].revision + store[a].owed <= store[a].version

\* The stream of an open source: revisions in order, none beyond the server's, all
\* of them greater than what the tab has seen, so that every event is news.
EventsAreNews ==
  /\ wire \in [sent : Version, events : Seq(Version)]
  /\ tab.source = "open" =>
       /\ wire.sent <= store[tab.account].revision
       /\ \A i \in 1..Len(wire.events) : wire.events[i] <= wire.sent
       /\ \A i \in 1..Len(wire.events) : \A j \in 1..Len(wire.events) : i < j => wire.events[i] < wire.events[j]
       /\ tab.awaiting => wire.events # << >>
       /\ ~tab.awaiting => tab.seen # None /\ tab.seen <= wire.sent /\ \A i \in 1..Len(wire.events) : tab.seen < wire.events[i]

\* The tab's own record: a refresh in flight asks for what the view shows, and
\* what a mutation reads is for the account on view unless it is stale.
TabFits(t) ==
  /\ t \in Tabs
  /\ t.fetch # << >> => t.loading /\ DOMAIN t.fetch = Shows(t.view) /\ t.account # None
  /\ t.mutation.kind = "none" => t.mutation.read = None
  /\ t.mutation.kind # "none" /\ ~t.mutation.stale => t.account # None

\* A source is there only while the page is looked at, and its first event is
\* awaited from the start.
Connects(t) ==
  /\ t.source # "none" => Looking(t) /\ t.account # None
  /\ t.source = "opening" => t.awaiting

\* Nothing is left for this tab to hear of: no refresh is owed.
Calm(t) == t.source = "open" /\ ~t.awaiting /\ ~t.debounce /\ ~t.queued
UpTo(v, p) == v # None /\ v >= p

\* What the tab reads and shows is of version p at least: the replies of the refresh
\* in flight, the page of tokens, and what is on view when none is in flight.
Holds(t, p) ==
  /\ \A r \in DOMAIN t.fetch : t.fetch[r].is = "read" => UpTo(t.fetch[r].at, p)
  /\ t.mutation.read # None => UpTo(t.mutation.read, p)
  /\ ~t.loading /\ ~t.failed => \A r \in Shows(t.view) : UpTo(t.data[r], p)

\* A tab that has heard everything has, or is about to show, what was published.
Current ==
  Calm(tab) /\ wire.events = << >> /\ wire.sent = store[tab.account].revision =>
    Holds(tab, store[tab.account].published)
LiveInv == Served /\ EventsAreNews /\ TabFits(tab) /\ Connects(tab) /\ Current

\* The tab may go from t to u: if u is calm, it holds what was published, or t was
\* calm and held it.  Most steps are shown to keep Current by this.
Follows(t, u, p) ==
  /\ TabFits(u) /\ Connects(u)
  /\ u.source = "open" => t.source = "open" /\ u.account = t.account /\ u.awaiting = t.awaiting /\ u.seen = t.seen
  /\ Calm(u) => Holds(u, p) \/ (Calm(t) /\ (Holds(t, p) => Holds(u, p)))

LEMMA FollowsOn ==
  ASSUME NEW t, NEW u, NEW v, NEW p, Follows(t, u, p), Follows(u, v, p)
  PROVE  Follows(t, v, p)
  BY DEF Follows, Calm

LEMMA NotOpenFollows ==
  ASSUME NEW t, NEW u, NEW p, TabFits(u), Connects(u), u.source # "open"
  PROVE  Follows(t, u, p)
  BY DEF Follows, Calm

LEMMA StoppedFollows ==
  ASSUME NEW t, TabFits(t)
  PROVE  LET u == Stopped(t) IN
           /\ TabFits(u) /\ Connects(u) /\ u.source = "none"
           /\ u.account = t.account /\ u.open = t.open /\ u.hidden = t.hidden /\ u.view = t.view
           /\ \A p : Follows(t, u, p)
  <1> DEFINE u == Stopped(t)
  <1>1. t \in Tabs
    BY DEF TabFits
  <1>2. /\ u \in Tabs
        /\ u.open = t.open /\ u.hidden = t.hidden /\ u.view = t.view /\ u.account = t.account
        /\ u.source = "none" /\ u.loading = t.loading /\ u.fetch = t.fetch /\ u.mutation = t.mutation
    BY <1>1 DEF Stopped, Tabs
  <1> HIDE DEF u
  <1>3. TabFits(u) /\ Connects(u)
    BY <1>2 DEF TabFits, Connects
  <1> QED
    BY <1>2, <1>3, NotOpenFollows DEF u

LEMMA ConnectedFollows ==
  ASSUME NEW t, TabFits(t)
  PROVE  LET u == Connected(t) IN
           /\ TabFits(u) /\ Connects(u) /\ u.source # "open"
           /\ u.account = t.account /\ u.open = t.open /\ u.hidden = t.hidden /\ u.view = t.view
           /\ \A p : Follows(t, u, p)
  <1>1. CASE t.account # None /\ Looking(t)
    <2> DEFINE s == Stopped(t)
               u == [s EXCEPT !.source = "opening", !.awaiting = TRUE]
    <2>1. /\ s \in Tabs /\ TabFits(s)
          /\ s.account = t.account /\ s.open = t.open /\ s.hidden = t.hidden /\ s.view = t.view
      BY StoppedFollows DEF TabFits
    <2>2. Connected(t) = u
      BY <1>1 DEF Connected
    <2> HIDE DEF s
    <2>3. /\ u \in Tabs
          /\ u.open = s.open /\ u.hidden = s.hidden /\ u.view = s.view /\ u.account = s.account
          /\ u.source = "opening" /\ u.awaiting /\ u.loading = s.loading /\ u.fetch = s.fetch /\ u.mutation = s.mutation
      BY <2>1 DEF Tabs
    <2> HIDE DEF u
    <2>4. TabFits(u) /\ Connects(u)
      BY <1>1, <2>1, <2>3 DEF TabFits, Connects, Looking
    <2> QED
      BY <2>1, <2>2, <2>3, <2>4, NotOpenFollows
  <1>2. CASE ~(t.account # None /\ Looking(t))
    BY <1>2, StoppedFollows DEF Connected
  <1> QED
    BY <1>1, <1>2

LEMMA DebouncedFollows ==
  ASSUME NEW t, TabFits(t), Connects(t)
  PROVE  /\ ~Calm(Debounced(t))
         /\ \A p : Follows(t, Debounced(t), p)
  <1>1. CASE t.queued
    BY <1>1 DEF Debounced, Follows, Calm
  <1>2. CASE ~t.queued
    <2> DEFINE u == [t EXCEPT !.debounce = TRUE]
    <2>1. t \in Tabs
      BY DEF TabFits
    <2>2. /\ u \in Tabs
          /\ u.open = t.open /\ u.hidden = t.hidden /\ u.view = t.view /\ u.account = t.account
          /\ u.source = t.source /\ u.awaiting = t.awaiting /\ u.seen = t.seen /\ u.debounce
          /\ u.loading = t.loading /\ u.fetch = t.fetch /\ u.mutation = t.mutation
      BY <2>1 DEF Tabs
    <2>3. Debounced(t) = u
      BY <1>2 DEF Debounced
    <2> HIDE DEF u
    <2>4. TabFits(u) /\ Connects(u) /\ ~Calm(u)
      BY <2>2 DEF TabFits, Connects, Looking, Calm
    <2> QED
      BY <2>2, <2>3, <2>4 DEF Follows
  <1> QED
    BY <1>1, <1>2

LEMMA FlushedFollows ==
  ASSUME NEW t, TabFits(t), Connects(t)
  PROVE  \A p : Follows(t, Flushed(t), p)
  <1>1. CASE t.queued /\ ~Busy(t)
    <2> DEFINE s == [t EXCEPT !.queued = FALSE]
    <2>1. t \in Tabs
      BY DEF TabFits
    <2>2. /\ s \in Tabs
          /\ s.open = t.open /\ s.hidden = t.hidden /\ s.view = t.view /\ s.account = t.account
          /\ s.source = t.source /\ s.awaiting = t.awaiting /\ s.seen = t.seen
          /\ s.loading = t.loading /\ s.fetch = t.fetch /\ s.mutation = t.mutation
      BY <2>1 DEF Tabs
    <2>3. Flushed(t) = Debounced(s)
      BY <1>1 DEF Flushed
    <2> HIDE DEF s
    <2>4. TabFits(s) /\ Connects(s)
      BY <2>2 DEF TabFits, Connects, Looking
    <2>5. ~Calm(Debounced(s)) /\ \A p : Follows(s, Debounced(s), p)
      BY <2>4, DebouncedFollows
    <2> QED
      BY <2>2, <2>3, <2>5 DEF Follows
  <1>2. CASE ~(t.queued /\ ~Busy(t))
    BY <1>2 DEF Flushed, Follows
  <1> QED
    BY <1>1, <1>2

LEMMA ScheduledFollows ==
  ASSUME NEW t, TabFits(t), Connects(t)
  PROVE  \A p : Follows(t, Scheduled(t), p)
  <1> DEFINE u == Scheduled(t)
  <1>1. t \in Tabs
    BY DEF TabFits
  <1>2. PICK poll \in BOOLEAN : u = [t EXCEPT !.poll = poll]
    BY DEF Scheduled
  <1>3. /\ u \in Tabs
        /\ u.open = t.open /\ u.hidden = t.hidden /\ u.view = t.view /\ u.account = t.account
        /\ u.source = t.source /\ u.awaiting = t.awaiting /\ u.seen = t.seen
        /\ u.debounce = t.debounce /\ u.queued = t.queued
        /\ u.loading = t.loading /\ u.fetch = t.fetch /\ u.mutation = t.mutation
        /\ u.data = t.data /\ u.failed = t.failed
    BY <1>1, <1>2 DEF Tabs
  <1> HIDE DEF u
  <1>4. TabFits(u) /\ Connects(u)
    BY <1>3 DEF TabFits, Connects, Looking
  <1>5. ASSUME NEW p
        PROVE  Calm(u) => Calm(t) /\ (Holds(t, p) => Holds(u, p))
    BY <1>3 DEF Calm, Holds
  <1> QED
    BY <1>3, <1>4, <1>5 DEF Follows, u

\* What the user sees and the stream are the same in both.
Alike(t, u) ==
  /\ u.open = t.open /\ u.hidden = t.hidden /\ u.view = t.view /\ u.account = t.account
  /\ u.source = t.source /\ u.awaiting = t.awaiting /\ u.seen = t.seen
  /\ u.debounce = t.debounce /\ u.queued = t.queued

LEMMA SupersededFollows ==
  ASSUME NEW t, TabFits(t)
  PROVE  LET u == Superseded(t) IN
           /\ TabFits(u) /\ Alike(t, u) /\ u.fetch = << >> /\ (u.mutation.kind # "none" => u.mutation.stale)
           /\ u.mutation.read = t.mutation.read /\ u.mutation.kind = t.mutation.kind
           /\ u.loading = t.loading /\ u.failed = t.failed /\ u.data = t.data
  <1> DEFINE stale == t.mutation.kind # "none"
             u == [t EXCEPT !.fetch = << >>, !.mutation.stale = stale]
  <1>1. t \in Tabs /\ t.mutation \in Mutations /\ stale \in BOOLEAN /\ << >> \in Fetches
    BY DEF TabFits, Tabs, Fetches
  <1>2. Superseded(t) = u
    BY DEF Superseded
  <1> HIDE DEF stale
  <1>3. /\ u \in Tabs /\ Alike(t, u) /\ u.fetch = << >> /\ u.loading = t.loading /\ u.failed = t.failed /\ u.data = t.data
    BY <1>1 DEF Tabs, Mutations, Alike
  <1>4. u.mutation.stale = stale /\ u.mutation.kind = t.mutation.kind /\ u.mutation.read = t.mutation.read
    BY <1>1 DEF Tabs, Mutations
  <1> HIDE DEF u
  <1>5. TabFits(u)
    BY <1>3, <1>4 DEF TabFits, stale
  <1> QED
    BY <1>2, <1>3, <1>4, <1>5 DEF stale

LEMMA AskedReplies ==
  ASSUME NEW view \in {"dashboard", "settings"}
  PROVE  LET f == [r \in Shows(view) |-> [is |-> "asked", at |-> None]] IN
           /\ f \in Fetches /\ DOMAIN f = Shows(view)
           /\ \A r \in DOMAIN f : f[r].is = "asked"
  BY DEF Fetches, Reply

\* refreshPulse of an account on view asks anew for everything the view shows.
LEMMA RefreshingFollows ==
  ASSUME NEW t, TabFits(t), Connects(t)
  PROVE  LET u == Refreshing(t) IN
           /\ Alike(t, u) /\ TabFits(u) /\ Connects(u)
           /\ u.mutation.read = t.mutation.read /\ u.mutation.kind = t.mutation.kind
           /\ \A p : /\ Follows(t, u, p)
                     /\ t.account # None /\ Looking(t) /\ (t.mutation.read # None => UpTo(t.mutation.read, p)) =>
                          Holds(u, p)
  <1>1. CASE t.account # None /\ Looking(t)
    <2> DEFINE s == Superseded(t)
               f == [r \in Shows(t.view) |-> [is |-> "asked", at |-> None]]
               u == [s EXCEPT !.loading = TRUE, !.poll = FALSE, !.fetch = f]
    <2>1. /\ s \in Tabs /\ TabFits(s) /\ Alike(t, s) /\ s.mutation.read = t.mutation.read
          /\ s.mutation.kind = t.mutation.kind
      BY SupersededFollows DEF TabFits
    <2>2. f \in Fetches /\ DOMAIN f = Shows(t.view) /\ \A r \in DOMAIN f : f[r].is = "asked"
      BY AskedReplies DEF TabFits, Tabs
    <2>3. Refreshing(t) = u
      BY <1>1 DEF Refreshing
    <2> HIDE DEF s, f
    <2>4. /\ u \in Tabs /\ Alike(s, u) /\ u.loading /\ u.fetch = f /\ u.mutation = s.mutation
      BY <2>1, <2>2 DEF Tabs, Alike
    <2> HIDE DEF u
    <2>5. Alike(t, u) /\ TabFits(u) /\ Connects(u)
      BY <1>1, <2>1, <2>2, <2>4 DEF Alike, TabFits, Connects, Looking
    <2>6. ASSUME NEW p, t.mutation.read # None => UpTo(t.mutation.read, p)
          PROVE  Holds(u, p)
      BY <2>1, <2>2, <2>4, <2>6 DEF Holds
    <2>7. ASSUME NEW p
          PROVE  Follows(t, u, p)
      BY <2>5, <2>6 DEF Follows, Alike, Calm, Holds
    <2> QED
      BY <2>1, <2>3, <2>4, <2>5, <2>6, <2>7
  <1>2. CASE ~(t.account # None /\ Looking(t))
    BY <1>2 DEF Refreshing, Follows, Alike
  <1> QED
    BY <1>1, <1>2

\* setPulseAccount
LEMMA ChosenFollows ==
  ASSUME NEW t, TabFits(t), NEW a \in Account
  PROVE  TabFits(Chosen(t, a)) /\ Connects(Chosen(t, a)) /\ \A u, p : Follows(u, Chosen(t, a), p)
  <1> DEFINE s == Superseded(t)
             none == [r \in Resource |-> None]
             c == [s EXCEPT !.account = a, !.seen = None, !.data = none, !.failed = FALSE, !.mutation.read = None]
  <1>1. s \in Tabs /\ s.mutation \in Mutations /\ s.fetch = << >> /\ (s.mutation.kind # "none" => s.mutation.stale)
    BY SupersededFollows DEF TabFits, Tabs
  <1>2. none \in [Resource -> Version \cup {None}] /\ a # None
    BY LiveAssumption
  <1>3. Chosen(t, a) = Refreshing(Connected(c))
    BY DEF Chosen
  <1> HIDE DEF s, none
  <1>4. c \in Tabs /\ c.fetch = << >> /\ c.account = a
    BY <1>1, <1>2 DEF Tabs, Mutations
  <1>5. c.mutation.kind = s.mutation.kind /\ c.mutation.stale = s.mutation.stale /\ c.mutation.read = None
    BY <1>1 DEF Tabs, Mutations
  <1> HIDE DEF c
  <1>6. TabFits(c)
    BY <1>1, <1>4, <1>5 DEF TabFits
  <1>7. TabFits(Connected(c)) /\ Connects(Connected(c)) /\ Connected(c).source # "open"
    BY <1>6, ConnectedFollows
  <1>8. /\ TabFits(Refreshing(Connected(c))) /\ Connects(Refreshing(Connected(c)))
        /\ Refreshing(Connected(c)).source = Connected(c).source
    BY <1>7, RefreshingFollows DEF Alike
  <1> QED
    BY <1>3, <1>7, <1>8, NotOpenFollows

\* A mutation is over: whatever waited for it is begun.
LEMMA MutationEnds ==
  ASSUME NEW t, TabFits(t), Connects(t)
  PROVE  LET u == [t EXCEPT !.mutation = NoMutation] IN
           TabFits(u) /\ Connects(u) /\ \A p : Follows(t, u, p) /\ Follows(t, Flushed(u), p)
  <1> DEFINE u == [t EXCEPT !.mutation = NoMutation]
  <1>1. t \in Tabs /\ NoMutation \in Mutations
    BY DEF TabFits, NoMutation, Mutations
  <1>2. /\ u \in Tabs /\ Alike(t, u) /\ u.loading = t.loading /\ u.fetch = t.fetch /\ u.mutation = NoMutation
        /\ u.data = t.data /\ u.failed = t.failed
    BY <1>1 DEF Tabs, Alike
  <1> HIDE DEF u
  <1>3. TabFits(u) /\ Connects(u)
    BY <1>2 DEF TabFits, Connects, Alike, Looking, NoMutation
  <1>4. ASSUME NEW p
        PROVE  Follows(t, u, p)
    BY <1>2, <1>3 DEF Follows, Alike, Calm, Holds, NoMutation
  <1>5. ASSUME NEW p
        PROVE  Follows(t, Flushed(u), p)
    BY <1>3, <1>4, FlushedFollows, FollowsOn
  <1> QED
    BY <1>3, <1>4, <1>5 DEF u

----------------------------------------------------------------------------
Spent == /\ bounds' \in [commits : 0..MaxCommit, clicks : 0..MaxClick, breaks : 0..MaxBreak]
         /\ bounds'.commits = bounds.commits

LEMMA Spending ==
  ASSUME Served, Clicks \/ Breaks \/ UNCHANGED bounds
  PROVE  Spent
  <1> DEFINE B == [commits : 0..MaxCommit, clicks : 0..MaxClick, breaks : 0..MaxBreak]
  <1>1. bounds \in B /\ MaxClick \in Nat /\ MaxBreak \in Nat
    BY LiveAssumption DEF Served
  <1>2. CASE Clicks
    BY <1>1, <1>2 DEF Clicks, Spent
  <1>3. CASE Breaks
    BY <1>1, <1>3 DEF Breaks, Spent
  <1>4. CASE UNCHANGED bounds
    BY <1>1, <1>4 DEF Spent
  <1> QED
    BY <1>2, <1>3, <1>4

\* A step of the tab that follows from what it was.
LEMMA TabMoves ==
  ASSUME LiveInv, UNCHANGED store, Spent, Follows(tab, tab', store[tab.account].published),
         tab'.source = "open" => UNCHANGED wire,
         wire' \in [sent : Version, events : Seq(Version)]
  PROVE  LiveInv'
  <1> USE DEF LiveInv
  <1>1. Served'
    BY DEF Served, Spent
  <1>2. EventsAreNews'
    BY DEF EventsAreNews, Follows
  <1>3. TabFits(tab') /\ Connects(tab')
    BY DEF Follows
  <1>4. Current'
    <2> SUFFICES ASSUME Calm(tab'), wire'.events = << >>, wire'.sent = store'[tab'.account].revision
                 PROVE  Holds(tab', store'[tab'.account].published)
      BY DEF Current
    <2>1. tab'.source = "open" /\ wire' = wire /\ tab'.account = tab.account
      BY DEF Calm, Follows
    <2> QED
      BY <2>1 DEF Follows, Current
  <1> QED
    BY <1>1, <1>2, <1>3, <1>4

LEMMA Becomes ==
  ASSUME LiveInv, NEW t, Become(t), UNCHANGED store, Clicks \/ Breaks \/ UNCHANGED bounds,
         Follows(tab, t, store[tab.account].published)
  PROVE  LiveInv'
  <1>1. << >> \in Seq(Version) /\ 0 \in Version
    BY LiveAssumption DEF Version
  <1>2. /\ tab' = t /\ (t.source = "open" => wire' = wire)
        /\ wire' \in [sent : Version, events : Seq(Version)]
    BY <1>1 DEF Become, Wired, LiveInv, EventsAreNews
  <1> QED
    BY <1>2, Spending, TabMoves DEF LiveInv

LEMMA Alters ==
  ASSUME LiveInv, UNCHANGED <<store, wire>>, Clicks \/ Breaks \/ UNCHANGED bounds,
         Follows(tab, tab', store[tab.account].published)
  PROVE  LiveInv'
  BY Spending, TabMoves DEF LiveInv, EventsAreNews

----------------------------------------------------------------------------
LEMMA CommitKeeps ==
  ASSUME LiveInv, NEW a \in Account, Commit(a)
  PROVE  LiveInv'
  <1> USE DEF LiveInv
  <1>1. /\ bounds.commits > 0 /\ bounds' = [bounds EXCEPT !.commits = @ - 1]
        /\ store' = [store EXCEPT ![a].version = @ + 1, ![a].owed = @ + 1]
        /\ wire' = wire /\ tab' = tab
    BY DEF Commit
  <1>2. /\ bounds \in [commits : 0..MaxCommit, clicks : 0..MaxClick, breaks : 0..MaxBreak] /\ MaxCommit \in Nat
        /\ store \in [Account -> [version : Version, owed : Version, revision : Version, published : Version]]
    BY LiveAssumption DEF Served
  <1>3. /\ bounds' \in [commits : 0..MaxCommit, clicks : 0..MaxClick, breaks : 0..MaxBreak]
        /\ bounds'.commits = bounds.commits - 1
    BY <1>1, <1>2
  <1>4. /\ store[a].version < MaxCommit /\ store[a].owed < MaxCommit
        /\ store[a].version + 1 \in Version /\ store[a].owed + 1 \in Version
    BY <1>1, <1>2 DEF Served, Version
  <1>5. /\ store' \in [Account -> [version : Version, owed : Version, revision : Version, published : Version]]
        /\ store'[a].version = store[a].version + 1 /\ store'[a].owed = store[a].owed + 1
        /\ \A b \in Account : /\ store'[b].revision = store[b].revision /\ store'[b].published = store[b].published
                              /\ b # a => store'[b] = store[b]
    BY <1>1, <1>2, <1>4
  <1>6. Served'
    BY <1>1, <1>2, <1>3, <1>5 DEF Served, Version
  <1>7. tab.source = "open" => tab.account \in Account
    BY DEF TabFits, Tabs, Connects
  <1>8. EventsAreNews'
    BY <1>1, <1>5, <1>7 DEF EventsAreNews
  <1>9. Current'
    BY <1>1, <1>5, <1>7 DEF Current, Calm
  <1> QED
    BY <1>1, <1>6, <1>8, <1>9

LEMMA PublishRevisionKeeps ==
  ASSUME LiveInv, NEW a \in Account, PublishRevision(a)
  PROVE  LiveInv'
  <1> USE DEF LiveInv
  <1>1. /\ store[a].owed > 0
        /\ store' = [store EXCEPT ![a].owed = @ - 1, ![a].revision = @ + 1, ![a].published = store[a].version]
        /\ UNCHANGED <<wire, tab, bounds>>
    BY DEF PublishRevision
  <1>2. /\ MaxCommit \in Nat
        /\ store \in [Account -> [version : Version, owed : Version, revision : Version, published : Version]]
    BY LiveAssumption DEF Served
  <1>3. store[a].owed - 1 \in Version /\ store[a].revision + 1 \in Version
    BY <1>1, <1>2 DEF Served, Version
  <1>4. /\ store' \in [Account -> [version : Version, owed : Version, revision : Version, published : Version]]
        /\ store'[a].version = store[a].version /\ store'[a].owed = store[a].owed - 1
        /\ store'[a].revision = store[a].revision + 1 /\ store'[a].published = store[a].version
        /\ \A b \in Account : b # a => store'[b] = store[b]
    BY <1>1, <1>2, <1>3
  <1>5. Served'
    <2>1. ASSUME NEW b \in Account
          PROVE  /\ store'[b].version <= MaxCommit - bounds.commits
                 /\ store'[b].published <= store'[b].version
                 /\ store'[b].revision + store'[b].owed <= store'[b].version
      <3>1. /\ store[b].version \in Nat /\ store[b].owed \in Nat /\ store[b].revision \in Nat
            /\ store[b].version <= MaxCommit - bounds.commits
            /\ store[b].published <= store[b].version
            /\ store[b].revision + store[b].owed <= store[b].version
        BY <1>2 DEF Served, Version
      <3> QED
        BY <1>4, <3>1
    <2> QED
      BY <1>1, <1>4, <2>1 DEF Served
  <1>6. tab.source = "open" => tab.account \in Account
    BY DEF TabFits, Tabs, Connects
  <1>7. EventsAreNews'
    <2>1. tab.source = "open" => wire.sent <= store'[tab.account].revision
      <3>1. CASE tab.account = a
        BY <1>2, <1>4, <3>1 DEF EventsAreNews, Version
      <3>2. CASE tab.account # a
        BY <1>4, <1>6, <3>2 DEF EventsAreNews
      <3> QED
        BY <3>1, <3>2
    <2> QED
      BY <1>1, <2>1 DEF EventsAreNews
  <1>8. Current'
    <2>1. CASE tab.account = a
      BY <1>1, <1>2, <1>4, <2>1 DEF Current, Calm, EventsAreNews, Version
    <2>2. CASE tab.account # a
      BY <1>1, <1>4, <1>6, <2>2 DEF Current, Calm
    <2> QED
      BY <2>1, <2>2
  <1> QED
    BY <1>1, <1>5, <1>7, <1>8

\* The stream is cut or was not there.
LEMMA SourceGoes ==
  ASSUME LiveInv, NEW source \in {"none", "broken"}, source = "broken" => tab.source # "none"
  PROVE  LET u == [tab EXCEPT !.source = source] IN
           TabFits(u) /\ Connects(u) /\ u.source = source
  <1> DEFINE u == [tab EXCEPT !.source = source]
  <1>1. tab \in Tabs /\ TabFits(tab) /\ Connects(tab)
    BY DEF LiveInv, TabFits
  <1>2. /\ u \in Tabs /\ u.open = tab.open /\ u.hidden = tab.hidden /\ u.view = tab.view /\ u.account = tab.account
        /\ u.source = source /\ u.loading = tab.loading /\ u.fetch = tab.fetch /\ u.mutation = tab.mutation
    BY <1>1 DEF Tabs
  <1> HIDE DEF u
  <1>3. TabFits(u) /\ Connects(u)
    BY <1>1, <1>2 DEF TabFits, Connects, Looking
  <1> QED
    BY <1>2, <1>3 DEF u

LEMMA ServerRestartsKeeps ==
  ASSUME LiveInv, ServerRestarts
  PROVE  LiveInv'
  <1> USE DEF LiveInv
  <1>1. /\ Breaks /\ store' = [a \in Account |-> [store[a] EXCEPT !.owed = 0, !.revision = 0]]
        /\ Become([tab EXCEPT !.source = IF @ = "none" THEN "none" ELSE "broken"])
    BY DEF ServerRestarts
  <1>2. store \in [Account -> [version : Version, owed : Version, revision : Version, published : Version]]
        /\ 0 \in Version /\ << >> \in Seq(Version)
    BY LiveAssumption DEF Served, Version
  <1>3. /\ store' \in [Account -> [version : Version, owed : Version, revision : Version, published : Version]]
        /\ \A a \in Account : /\ store'[a].version = store[a].version /\ store'[a].published = store[a].published
                              /\ store'[a].owed = 0 /\ store'[a].revision = 0
    BY <1>1, <1>2
  <1>4. Served'
    <2>1. Spent
      BY <1>1, Spending
    <2>2. \A a \in Account : store[a].version \in Nat
      BY <1>2, LiveAssumption DEF Version
    <2>3. \A a \in Account : store'[a].revision + store'[a].owed <= store'[a].version
      BY <1>3, <2>2
    <2> QED
      BY <1>3, <2>1, <2>3 DEF Served, Spent
  <1>5. PICK source \in {"none", "broken"} :
          (source = "broken" => tab.source # "none") /\ Become([tab EXCEPT !.source = source])
    BY <1>1
  <1>6. TabFits(tab') /\ Connects(tab') /\ tab'.source = source
    BY <1>5, SourceGoes DEF Become
  <1>7. wire' = [sent |-> 0, events |-> << >>]
    BY <1>5, <1>6 DEF Become, Wired
  <1>8. EventsAreNews' /\ Current'
    BY <1>2, <1>6, <1>7 DEF EventsAreNews, Current, Calm
  <1> QED
    BY <1>4, <1>6, <1>8

LEMMA SubscribeKeeps ==
  ASSUME LiveInv, Subscribe
  PROVE  LiveInv'
  <1> USE DEF LiveInv
  <1> DEFINE revision == store[tab.account].revision
  <1>1. /\ tab.source = "opening" /\ tab' = [tab EXCEPT !.source = "open"]
        /\ wire' = [sent |-> revision, events |-> <<revision>>] /\ UNCHANGED <<store, bounds>>
    BY DEF Subscribe
  <1>2. tab \in Tabs /\ tab.awaiting /\ tab.account \in Account
    BY <1>1 DEF TabFits, Connects, Tabs
  <1>3. /\ tab' \in Tabs /\ tab'.open = tab.open /\ tab'.hidden = tab.hidden /\ tab'.view = tab.view
        /\ tab'.account = tab.account /\ tab'.source = "open" /\ tab'.awaiting
        /\ tab'.loading = tab.loading /\ tab'.fetch = tab.fetch /\ tab'.mutation = tab.mutation
    BY <1>1, <1>2 DEF Tabs
  <1>4. revision \in Version /\ revision \in Nat
    BY <1>2, LiveAssumption DEF Served, Version
  <1>5. Served'
    BY <1>1 DEF Served
  <1>6. EventsAreNews'
    <2> HIDE DEF revision
    <2>1. /\ <<revision>> \in Seq(Version) /\ Len(<<revision>>) = 1 /\ <<revision>>[1] = revision
          /\ <<revision>> # << >> /\ 1..1 = {1}
      BY <1>4
    <2>2. wire'.sent = revision /\ wire'.events = <<revision>>
      BY <1>1
    <2>3. wire' \in [sent : Version, events : Seq(Version)]
      BY <1>1, <1>4, <2>1
    <2>4. wire'.sent <= store'[tab'.account].revision
      BY <1>1, <1>3, <1>4, <2>2 DEF revision
    <2>5. \A i \in 1..Len(wire'.events) : i = 1 /\ wire'.events[i] = revision
      BY <2>1, <2>2
    <2> QED
      BY <1>3, <1>4, <2>1, <2>2, <2>3, <2>4, <2>5 DEF EventsAreNews
  <1>7. TabFits(tab') /\ Connects(tab')
    BY <1>1, <1>3 DEF TabFits, Connects, Looking
  <1>8. Current'
    BY <1>3 DEF Current, Calm
  <1> QED
    BY <1>5, <1>6, <1>7, <1>8

\* A revision greater than all on their way joins them in order.
LEMMA AppendGreater ==
  ASSUME NEW S \in SUBSET Nat, NEW es \in Seq(S), NEW m \in Nat, NEW n \in Nat, m < n,
         \A i \in 1..Len(es) : es[i] <= m,
         \A i \in 1..Len(es) : \A j \in 1..Len(es) : i < j => es[i] < es[j]
  PROVE  /\ \A i \in 1..Len(Append(es, n)) : Append(es, n)[i] <= n
         /\ \A i \in 1..Len(Append(es, n)) : \A j \in 1..Len(Append(es, n)) :
              i < j => Append(es, n)[i] < Append(es, n)[j]
         /\ \A k \in Nat : k <= m /\ (\A i \in 1..Len(es) : k < es[i]) =>
              \A i \in 1..Len(Append(es, n)) : k < Append(es, n)[i]
  <1> DEFINE fs == Append(es, n)
  <1>1. /\ Len(es) \in Nat /\ Len(fs) = Len(es) + 1 /\ fs[Len(es) + 1] = n
        /\ \A i \in 1..Len(es) : fs[i] = es[i] /\ es[i] \in Nat
    <2>1. n \in Nat /\ es \in Seq(S \cup {n})
      OBVIOUS
    <2>2. /\ Len(es) \in Nat /\ Len(fs) = Len(es) + 1 /\ fs[Len(es) + 1] = n
          /\ \A i \in 1..Len(es) : fs[i] = es[i]
      BY <2>1
    <2>3. \A i \in 1..Len(es) : es[i] \in S
      OBVIOUS
    <2> QED
      BY <2>2, <2>3
  <1> HIDE DEF fs
  <1>2. ASSUME NEW i \in 1..Len(fs)
        PROVE  /\ fs[i] <= n
               /\ \A j \in 1..Len(fs) : i < j => fs[i] < fs[j]
               /\ \A k \in Nat : k <= m /\ (\A l \in 1..Len(es) : k < es[l]) => k < fs[i]
    <2>1. CASE i = Len(es) + 1
      BY <1>1, <2>1
    <2>2. CASE i \in 1..Len(es)
      <3>1. fs[i] = es[i] /\ es[i] <= m /\ es[i] \in Nat
        BY <1>1, <2>2
      <3>2. ASSUME NEW j \in 1..Len(fs), i < j
            PROVE  fs[i] < fs[j]
        <4>1. CASE j = Len(es) + 1
          BY <1>1, <3>1, <4>1
        <4>2. CASE j \in 1..Len(es)
          BY <1>1, <2>2, <3>1, <3>2, <4>2
        <4> QED
          BY <1>1, <4>1, <4>2
      <3> QED
        BY <2>2, <3>1, <3>2
    <2> QED
      BY <1>1, <2>1, <2>2
  <1> QED
    BY <1>2 DEF fs

LEMMA YieldsKeeps ==
  ASSUME LiveInv, Yields
  PROVE  LiveInv'
  <1> USE DEF LiveInv
  <1> DEFINE revision == store[tab.account].revision
             es == wire.events
  <1>1. /\ tab.source = "open" /\ revision # wire.sent /\ UNCHANGED <<store, tab, bounds>>
        /\ wire' = [sent |-> revision, events |-> Append(es, revision)]
    BY DEF Yields
  <1>2. es \in Seq(Version) /\ revision \in Version /\ wire.sent \in Version /\ Version \subseteq Nat
    BY <1>1, LiveAssumption DEF EventsAreNews, Served, Version, TabFits, Tabs, Connects
  <1>3. /\ Append(es, revision) \in Seq(Version) /\ Append(es, revision) # << >>
        /\ Len(es) \in Nat /\ Len(Append(es, revision)) = Len(es) + 1
        /\ Append(es, revision)[Len(es) + 1] = revision
        /\ \A i \in 1..Len(es) : Append(es, revision)[i] = es[i] /\ es[i] \in Version
    <2> HIDE DEF revision, es
    <2> QED
      BY <1>2
  <1>4. wire.sent < revision
    <2>1. wire.sent <= revision
      BY <1>1 DEF EventsAreNews
    <2>2. revision \in Nat /\ wire.sent \in Nat /\ revision # wire.sent
      BY <1>1, <1>2
    <2> HIDE DEF revision
    <2> QED
      BY <2>1, <2>2
  <1>5. EventsAreNews'
    <2>1. wire'.sent = revision /\ wire'.events = Append(es, revision)
      BY <1>1
    <2>2. wire' \in [sent : Version, events : Seq(Version)] /\ wire'.sent <= store'[tab'.account].revision
      <3>1. wire'.sent <= store'[tab'.account].revision
        <4>1. store'[tab'.account].revision = revision
          BY <1>1
        <4>2. revision \in Nat
          BY <1>2
        <4> HIDE DEF revision
        <4> QED
          BY <2>1, <4>1, <4>2
      <3>2. wire' = [sent |-> revision, events |-> Append(es, revision)] /\ revision \in Version
        BY <1>1, <1>2
      <3>3. Append(es, revision) \in Seq(Version)
        BY <1>3
      <3> HIDE DEF revision, es
      <3>4. wire' \in [sent : Version, events : Seq(Version)]
        BY <3>2, <3>3
      <3> QED
        BY <3>1, <3>4
    <2>3. /\ \A i \in 1..Len(es) : es[i] <= wire.sent
          /\ \A i \in 1..Len(es) : \A j \in 1..Len(es) : i < j => es[i] < es[j]
          /\ tab.awaiting => es # << >>
          /\ ~tab.awaiting => tab.seen # None /\ tab.seen <= wire.sent /\ \A i \in 1..Len(es) : tab.seen < es[i]
      BY <1>1 DEF EventsAreNews
    <2>4. tab.seen \in Version \cup {None}
      BY DEF TabFits, Tabs
    <2> DEFINE fs == Append(es, revision)
    <2>a. wire.sent \in Nat /\ revision \in Nat
      BY <1>2
    <2> HIDE DEF revision, es
    <2>5. es \in Seq(Version) /\ Version \in SUBSET Nat
      BY <1>2
    <2>6. /\ \A i \in 1..Len(fs) : fs[i] <= revision
          /\ \A i \in 1..Len(fs) : \A j \in 1..Len(fs) : i < j => fs[i] < fs[j]
          /\ \A k \in Nat : k <= wire.sent /\ (\A i \in 1..Len(es) : k < es[i]) =>
               \A i \in 1..Len(fs) : k < fs[i]
      BY <1>4, <2>a, <2>3, <2>5, AppendGreater
    <2> HIDE DEF fs
    <2>7. ~tab.awaiting => tab.seen # None /\ tab.seen <= revision /\ \A i \in 1..Len(fs) : tab.seen < fs[i]
      <3> SUFFICES ASSUME ~tab.awaiting
                   PROVE  tab.seen # None /\ tab.seen <= revision /\ \A i \in 1..Len(fs) : tab.seen < fs[i]
        OBVIOUS
      <3>1. tab.seen # None /\ tab.seen \in Nat /\ tab.seen <= wire.sent
        BY <1>2, <2>3, <2>4
      <3>2. \A i \in 1..Len(es) : tab.seen < es[i]
        BY <2>3
      <3>3. tab.seen <= revision
        BY <1>4, <2>a, <3>1
      <3>4. \A i \in 1..Len(fs) : tab.seen < fs[i]
        BY <2>6, <3>1, <3>2
      <3> QED
        BY <3>1, <3>3, <3>4
    <2> QED
      BY <1>1, <1>3, <2>1, <2>2, <2>6, <2>7 DEF EventsAreNews, fs, es, revision
  <1>6. Current'
    BY <1>1, <1>3 DEF Current
  <1>7. Served'
    BY <1>1 DEF Served
  <1> QED
    BY <1>1, <1>5, <1>6, <1>7

LEMMA StreamBreaksKeeps ==
  ASSUME LiveInv, StreamBreaks
  PROVE  LiveInv'
  <1>1. /\ tab.source # "none" /\ Breaks /\ UNCHANGED store
        /\ Become([tab EXCEPT !.source = "broken"])
    BY DEF StreamBreaks
  <1> DEFINE u == [tab EXCEPT !.source = "broken"]
  <1>2. TabFits(u) /\ Connects(u) /\ u.source = "broken"
    BY <1>1, SourceGoes
  <1> HIDE DEF u
  <1>3. Follows(tab, u, store[tab.account].published)
    BY <1>2, NotOpenFollows
  <1> QED
    BY <1>1, <1>3, Becomes DEF u

\* The listener: in the stream's order every event is news, so it debounces.
LEMMA EventKeeps ==
  ASSUME LiveInv, Event
  PROVE  LiveInv'
  <1> USE DEF LiveInv
  <1> DEFINE es == wire.events
             revision == Head(es)
             told == [tab EXCEPT !.awaiting = FALSE]
             s == [told EXCEPT !.seen = revision]
  <1>1. /\ tab.source = "open" /\ es # << >> /\ UNCHANGED <<store, bounds>>
        /\ tab' = IF IsNews(tab.seen, revision, tab.awaiting) THEN Debounced(s) ELSE told
        /\ wire' = [wire EXCEPT !.events = Tail(es)]
    BY DEF Event
  <1>2. es \in Seq(Version) /\ wire.sent \in Version /\ Version \in SUBSET Nat /\ tab \in Tabs
    BY LiveAssumption DEF EventsAreNews, Version, TabFits
  <1>3. /\ revision = es[1] /\ revision \in Version /\ Tail(es) \in Seq(Version) /\ Len(es) \in Nat /\ Len(es) >= 1
        /\ Len(Tail(es)) = Len(es) - 1 /\ \A i \in 1..Len(Tail(es)) : Tail(es)[i] = es[i + 1]
    <2> HIDE DEF es
    <2>1. es # << >> /\ es \in Seq(Version)
      BY <1>1, <1>2
    <2> QED
      BY <2>1
  <1>4. /\ revision <= wire.sent
        /\ \A i \in 1..Len(es) : es[i] <= wire.sent
        /\ \A i \in 1..Len(es) : \A j \in 1..Len(es) : i < j => es[i] < es[j]
        /\ ~tab.awaiting => tab.seen < revision
    BY <1>1, <1>3 DEF EventsAreNews
  <1>5. IsNews(tab.seen, revision, tab.awaiting)
    BY <1>4 DEF IsNews
  <1> HIDE DEF revision
  <1>6. /\ s \in Tabs /\ s.open = tab.open /\ s.hidden = tab.hidden /\ s.view = tab.view /\ s.account = tab.account
        /\ s.source = tab.source /\ s.awaiting = FALSE /\ s.seen = revision
        /\ s.loading = tab.loading /\ s.fetch = tab.fetch /\ s.mutation = tab.mutation
    <2>1. revision \in Version \cup {None}
      BY <1>3
    <2> QED
      BY <1>2, <2>1 DEF Tabs
  <1>7. tab' = Debounced(s)
    BY <1>1, <1>5
  <1> HIDE DEF s, told
  <1>8. TabFits(s) /\ Connects(s)
    BY <1>1, <1>6 DEF TabFits, Connects, Looking
  <1>9. ~Calm(tab') /\ Follows(s, tab', 0)
    BY <1>7, <1>8, DebouncedFollows
  <1>10. /\ TabFits(tab') /\ Connects(tab')
         /\ tab'.source = "open" => tab'.account = tab.account /\ ~tab'.awaiting /\ tab'.seen = revision
    BY <1>6, <1>9 DEF Follows
  <1>11. wire' \in [sent : Version, events : Seq(Version)] /\ wire'.sent = wire.sent /\ wire'.events = Tail(es)
    <2>1. Tail(es) \in Seq(Version) /\ wire \in [sent : Version, events : Seq(Version)]
      BY <1>3 DEF EventsAreNews
    <2> HIDE DEF es
    <2> QED
      BY <1>1, <2>1
  <1>12. /\ \A i \in 1..Len(Tail(es)) : Tail(es)[i] <= wire.sent /\ revision < Tail(es)[i]
         /\ \A i \in 1..Len(Tail(es)) : \A j \in 1..Len(Tail(es)) : i < j => Tail(es)[i] < Tail(es)[j]
    <2> HIDE DEF es
    <2>1. \A i \in 1..Len(Tail(es)) : i \in Nat /\ i + 1 \in 1..Len(es) /\ 1 < i + 1 /\ 1 \in 1..Len(es)
      BY <1>3
    <2>2. \A i, j \in 1..Len(Tail(es)) : i < j => i + 1 < j + 1
      BY <2>1
    <2> QED
      BY <1>3, <1>4, <2>1, <2>2
  <1>13. revision # None
    BY <1>2, <1>3, LiveAssumption
  <1>14. EventsAreNews'
    BY <1>1, <1>4, <1>10, <1>11, <1>12, <1>13 DEF EventsAreNews
  <1>15. Served' /\ Current'
    BY <1>1, <1>9 DEF Served, Current
  <1> QED
    BY <1>10, <1>14, <1>15

LEMMA StreamFailsKeeps ==
  ASSUME LiveInv, StreamFails
  PROVE  LiveInv'
  <1> DEFINE s == [tab EXCEPT !.source = "none"]
             u == [tab EXCEPT !.source = "none", !.reconnect = Looking(tab)]
  <1>1. Become(u) /\ UNCHANGED <<store, bounds>>
    BY DEF StreamFails
  <1>2. tab \in Tabs /\ TabFits(tab) /\ Looking(tab) \in BOOLEAN
    BY DEF LiveInv, TabFits, Looking
  <1>3. /\ u \in Tabs /\ u.source = "none" /\ u.view = tab.view /\ u.account = tab.account
        /\ u.loading = tab.loading /\ u.fetch = tab.fetch /\ u.mutation = tab.mutation
    BY <1>2 DEF Tabs
  <1> HIDE DEF u
  <1>4. TabFits(u) /\ Connects(u)
    BY <1>2, <1>3 DEF TabFits, Connects
  <1> QED
    BY <1>1, <1>3, <1>4, NotOpenFollows, Becomes

LEMMA ReconnectKeeps ==
  ASSUME LiveInv, Reconnect
  PROVE  LiveInv'
  <1>1. Become(Connected(tab)) /\ UNCHANGED <<store, bounds>>
    BY DEF Reconnect
  <1>2. Follows(tab, Connected(tab), store[tab.account].published)
    BY ConnectedFollows DEF LiveInv
  <1> QED
    BY <1>1, <1>2, Becomes

\* The debounced refresh waits for a mutation, or reads everything anew.
LEMMA DebounceEndsKeeps ==
  ASSUME LiveInv, DebounceEnds
  PROVE  LiveInv'
  <1> DEFINE over == [tab EXCEPT !.debounce = FALSE]
             p == store[tab.account].published
  <1>1. Become(IF Busy(tab) THEN [over EXCEPT !.queued = TRUE] ELSE Refreshing(over)) /\ UNCHANGED <<store, bounds>>
    BY DEF DebounceEnds
  <1>2. tab \in Tabs /\ TabFits(tab) /\ Connects(tab)
    BY DEF LiveInv, TabFits
  <1>3. CASE Busy(tab)
    <2> DEFINE u == [over EXCEPT !.queued = TRUE]
    <2>1. /\ u \in Tabs /\ u.open = tab.open /\ u.hidden = tab.hidden /\ u.view = tab.view /\ u.account = tab.account
          /\ u.source = tab.source /\ u.awaiting = tab.awaiting /\ u.seen = tab.seen /\ u.queued
          /\ u.loading = tab.loading /\ u.fetch = tab.fetch /\ u.mutation = tab.mutation
      BY <1>2 DEF Tabs
    <2>2. Become(u)
      BY <1>1, <1>3
    <2> HIDE DEF u, over, p
    <2>3. TabFits(u) /\ Connects(u) /\ ~Calm(u)
      BY <1>2, <2>1 DEF TabFits, Connects, Looking, Calm
    <2>4. Follows(tab, u, p)
      BY <2>1, <2>3 DEF Follows
    <2> QED
      BY <1>1, <2>2, <2>4, Becomes DEF p
  <1>4. CASE ~Busy(tab)
    <2>1. /\ over \in Tabs /\ over.open = tab.open /\ over.hidden = tab.hidden /\ over.view = tab.view
          /\ over.account = tab.account /\ over.source = tab.source /\ over.awaiting = tab.awaiting
          /\ over.seen = tab.seen
          /\ over.loading = tab.loading /\ over.fetch = tab.fetch /\ over.mutation = tab.mutation
      BY <1>2 DEF Tabs
    <2>2. Become(Refreshing(over))
      BY <1>1, <1>4
    <2> DEFINE u == Refreshing(over)
    <2> HIDE DEF over, p
    <2>3. TabFits(over) /\ Connects(over) /\ over.mutation.read = None
      BY <1>2, <1>4, <2>1 DEF TabFits, Connects, Looking, Busy
    <2>4. /\ TabFits(u) /\ Connects(u) /\ Alike(over, u)
          /\ over.account # None /\ Looking(over) => Holds(u, p)
      BY <2>3, RefreshingFollows
    <2>5. Follows(tab, u, p)
      BY <2>1, <2>3, <2>4 DEF Follows, Alike, Calm, Connects
    <2> QED
      BY <1>1, <2>2, <2>5, Becomes DEF p
  <1> QED
    BY <1>3, <1>4

LEMMA PollFiresKeeps ==
  ASSUME LiveInv, PollFires
  PROVE  LiveInv'
  <1> DEFINE s == [tab EXCEPT !.poll = FALSE]
             p == store[tab.account].published
  <1>1. Become(Refreshing(s)) /\ UNCHANGED <<store, bounds>>
    BY DEF PollFires
  <1>2. tab \in Tabs /\ TabFits(tab) /\ Connects(tab)
    BY DEF LiveInv, TabFits
  <1>3. /\ s \in Tabs /\ Alike(tab, s) /\ s.loading = tab.loading /\ s.fetch = tab.fetch
        /\ s.mutation = tab.mutation /\ s.data = tab.data /\ s.failed = tab.failed
    BY <1>2 DEF Tabs, Alike
  <1> HIDE DEF s, p
  <1>4. Follows(tab, s, p)
    BY <1>2, <1>3 DEF Follows, Alike, TabFits, Connects, Looking, Calm, Holds
  <1>5. Follows(tab, Refreshing(s), p)
    BY <1>4, RefreshingFollows, FollowsOn DEF Follows
  <1> QED
    BY <1>1, <1>5, Becomes DEF p

\* A reply is put where it was asked for.
LEMMA ReplyFits ==
  ASSUME NEW f \in Fetches, NEW r \in DOMAIN f, NEW x \in Reply
  PROVE  LET g == [f EXCEPT ![r] = x] IN
           /\ g \in Fetches /\ DOMAIN g = DOMAIN f /\ g # << >>
           /\ \A q \in DOMAIN f : g[q] = IF q = r THEN x ELSE f[q]
  <1> DEFINE g == [f EXCEPT ![r] = x]
  <1>1. f # << >>
    OBVIOUS
  <1>2. CASE f \in [Shows("dashboard") -> Reply]
    BY <1>2 DEF Fetches
  <1>3. CASE f \in [Shows("settings") -> Reply]
    BY <1>3 DEF Fetches
  <1> QED
    BY <1>1, <1>2, <1>3 DEF Fetches

LEMMA ReadResourceKeeps ==
  ASSUME LiveInv, NEW r \in Resource, ReadResource(r)
  PROVE  LiveInv'
  <1> DEFINE p == store[tab.account].published
             v == store[tab.account].version
             read == [is |-> "read", at |-> v]
             failed == [tab.fetch[r] EXCEPT !.is = "failed"]
  <1>1. /\ r \in DOMAIN tab.fetch /\ UNCHANGED <<store, wire>>
        /\ Clicks \/ Breaks \/ UNCHANGED bounds
        /\ tab' = [tab EXCEPT !.fetch[r] = read] \/ tab' = [tab EXCEPT !.fetch[r].is = "failed"]
    BY DEF ReadResource
  <1>2. tab \in Tabs /\ TabFits(tab) /\ Connects(tab) /\ tab.fetch \in Fetches
    BY DEF LiveInv, TabFits, Tabs
  <1>3. tab.fetch # << >> /\ tab.account \in Account
    BY <1>1, <1>2 DEF TabFits, Tabs
  <1>4. read \in Reply /\ UpTo(v, p)
    BY <1>3, LiveAssumption DEF LiveInv, Served, Version, Reply, UpTo
  <1>5. tab.fetch[r] \in Reply
    BY <1>1, <1>2 DEF Fetches
  <1>6. failed \in Reply /\ failed.is = "failed"
    BY <1>5 DEF Reply
  <1>7. PICK x \in {read, failed} : tab' = [tab EXCEPT !.fetch = [tab.fetch EXCEPT ![r] = x]]
    BY <1>1
  <1> DEFINE g == [tab.fetch EXCEPT ![r] = x]
  <1>8. /\ g \in Fetches /\ DOMAIN g = DOMAIN tab.fetch /\ g # << >>
        /\ \A q \in DOMAIN tab.fetch : g[q] = IF q = r THEN x ELSE tab.fetch[q]
    BY <1>1, <1>2, <1>4, <1>6, <1>7, ReplyFits
  <1>9. x.is = "read" => UpTo(x.at, p)
    <2>1. read.at = v
      OBVIOUS
    <2> HIDE DEF read, failed, v, p
    <2> QED
      BY <1>4, <1>6, <1>7, <2>1
  <1> HIDE DEF g, read, failed, p, v
  <1>10. /\ tab' \in Tabs /\ Alike(tab, tab') /\ tab'.fetch = g /\ tab'.loading = tab.loading
         /\ tab'.mutation = tab.mutation /\ tab'.data = tab.data /\ tab'.failed = tab.failed
    BY <1>2, <1>7, <1>8 DEF Tabs, Alike, g
  <1>11. TabFits(tab') /\ Connects(tab')
    BY <1>2, <1>3, <1>8, <1>10 DEF TabFits, Connects, Alike, Looking
  <1>12. Holds(tab, p) => Holds(tab', p)
    BY <1>8, <1>9, <1>10 DEF Holds, Alike
  <1>13. Follows(tab, tab', p)
    BY <1>10, <1>11, <1>12 DEF Follows, Alike, Calm
  <1> QED
    BY <1>1, <1>13, Alters DEF p

\* refreshPulse's replies become what is shown, unless one failed.
LEMMA RefreshEndsKeeps ==
  ASSUME LiveInv, RefreshEnds
  PROVE  LiveInv'
  <1> DEFINE p == store[tab.account].published
             read == {r \in DOMAIN tab.fetch : tab.fetch[r].is = "read"}
             data == [r \in Resource |-> IF r \in read THEN tab.fetch[r].at ELSE tab.data[r]]
             failed == read # DOMAIN tab.fetch
             known == [tab EXCEPT !.data = data, !.failed = failed, !.loading = FALSE, !.fetch = << >>]
  <1>1. /\ tab.fetch # << >> /\ UNCHANGED <<store, bounds>>
        /\ Become(MutationOver(Flushed(Scheduled(known))))
    BY DEF RefreshEnds
  <1>2. tab \in Tabs /\ TabFits(tab) /\ Connects(tab) /\ tab.fetch \in Fetches /\ DOMAIN tab.fetch = Shows(tab.view)
        /\ tab.data \in [Resource -> Version \cup {None}]
    BY <1>1 DEF LiveInv, TabFits, Tabs
  <1>3. \A r \in DOMAIN tab.fetch : tab.fetch[r].at \in Version \cup {None} /\ r \in Resource
    BY <1>2 DEF Fetches, Reply, Shows, Resource
  <1>4. data \in [Resource -> Version \cup {None}] /\ failed \in BOOLEAN /\ << >> \in Fetches
    BY <1>2, <1>3 DEF Fetches
  <1>5. ~failed => \A r \in Shows(tab.view) : tab.fetch[r].is = "read" /\ data[r] = tab.fetch[r].at
    BY <1>2, <1>3
  <1> HIDE DEF data, failed
  <1>6. /\ known \in Tabs /\ Alike(tab, known) /\ known.fetch = << >> /\ ~known.loading
        /\ known.mutation = tab.mutation /\ known.data = data /\ known.failed = failed
    BY <1>2, <1>4 DEF Tabs, Alike
  <1> HIDE DEF known, p
  <1>7. TabFits(known) /\ Connects(known)
    BY <1>2, <1>6 DEF TabFits, Connects, Alike, Looking
  <1>8. Holds(tab, p) => Holds(known, p)
    BY <1>2, <1>5, <1>6 DEF Holds, Alike
  <1>9. Follows(tab, known, p)
    BY <1>6, <1>7, <1>8 DEF Follows, Alike, Calm
  <1>10. Follows(tab, Scheduled(known), p)
    BY <1>7, <1>9, ScheduledFollows, FollowsOn
  <1>11. Follows(tab, Flushed(Scheduled(known)), p)
    BY <1>10, FlushedFollows, FollowsOn DEF Follows
  <1>12. Follows(tab, MutationOver(Flushed(Scheduled(known))), p)
    <2> DEFINE t == Flushed(Scheduled(known))
    <2>1. TabFits(t) /\ Connects(t) /\ Follows(tab, t, p)
      BY <1>11 DEF Follows
    <2> HIDE DEF t
    <2>2. Follows(tab, Flushed([t EXCEPT !.mutation = NoMutation]), p)
      BY <2>1, MutationEnds, FollowsOn
    <2>3. Follows(tab, MutationOver(t), p)
      BY <2>1, <2>2 DEF MutationOver
    <2> QED
      BY <2>3 DEF t
  <1> QED
    BY <1>1, <1>12, Becomes DEF p

LEMMA AccountsKnownKeeps ==
  ASSUME LiveInv, AccountsKnown
  PROVE  LiveInv'
  <1> DEFINE p == store[tab.account].published
             known == [tab EXCEPT !.asking = FALSE, !.accounts = "loaded"]
  <1>1. /\ UNCHANGED <<store, bounds>>
        /\ \/ \E a \in Account : Become(Chosen(known, a))
           \/ Become(known)
           \/ Become(Connected(known))
           \/ Become(Refreshing(Connected(known)))
    BY DEF AccountsKnown
  <1>2. tab \in Tabs /\ TabFits(tab) /\ Connects(tab)
    BY DEF LiveInv, TabFits
  <1>3. /\ known \in Tabs /\ Alike(tab, known) /\ known.fetch = tab.fetch /\ known.loading = tab.loading
        /\ known.mutation = tab.mutation /\ known.data = tab.data /\ known.failed = tab.failed
    BY <1>2 DEF Tabs, Alike
  <1> HIDE DEF known, p
  <1>4. Follows(tab, known, p)
    BY <1>2, <1>3 DEF Follows, Alike, TabFits, Connects, Looking, Calm, Holds
  <1>5. TabFits(known)
    BY <1>4 DEF Follows
  <1>6. /\ Follows(tab, Connected(known), p) /\ Follows(tab, Refreshing(Connected(known)), p)
        /\ \A a \in Account : Follows(tab, Chosen(known, a), p)
    BY <1>4, <1>5, ConnectedFollows, RefreshingFollows, ChosenFollows, FollowsOn
  <1> QED
    BY <1>1, <1>4, <1>6, Becomes DEF p

LEMMA AccountsFailKeeps ==
  ASSUME LiveInv, AccountsFail
  PROVE  LiveInv'
  <1> DEFINE stale == tab.mutation.kind # "none"
             s == [tab EXCEPT !.asking = FALSE, !.accounts = "unknown", !.account = None,
                              !.fetch = << >>, !.mutation.stale = stale]
  <1>1. Become(Stopped(s)) /\ UNCHANGED store /\ Breaks
    BY DEF AccountsFail
  <1>2. tab \in Tabs /\ TabFits(tab) /\ tab.mutation \in Mutations /\ stale \in BOOLEAN /\ << >> \in Fetches
    BY DEF LiveInv, TabFits, Tabs, Fetches
  <1> HIDE DEF stale
  <1>3. s \in Tabs /\ s.fetch = << >>
    BY <1>2 DEF Tabs, Mutations
  <1>4. s.mutation.stale = stale /\ s.mutation.kind = tab.mutation.kind /\ s.mutation.read = tab.mutation.read
    BY <1>2 DEF Tabs, Mutations
  <1> HIDE DEF s
  <1>5. TabFits(s)
    BY <1>2, <1>3, <1>4 DEF TabFits, stale
  <1>6. Follows(tab, Stopped(s), store[tab.account].published)
    BY <1>5, StoppedFollows, NotOpenFollows
  <1> QED
    BY <1>1, <1>6, Becomes

----------------------------------------------------------------------------
LEMMA OpenPulseKeeps ==
  ASSUME LiveInv, OpenPulse
  PROVE  LiveInv'
  <1> DEFINE p == store[tab.account].published
             asking == tab.asking \/ FALSE \/ tab.accounts # "loaded"
             opened == [[tab EXCEPT !.open = TRUE] EXCEPT !.asking = asking]
  <1>1. Asked([tab EXCEPT !.open = TRUE], FALSE) = opened
    <2>1. tab \in Tabs
      BY DEF LiveInv, TabFits
    <2>2. [tab EXCEPT !.open = TRUE].accounts = tab.accounts /\ [tab EXCEPT !.open = TRUE].asking = tab.asking
      BY <2>1 DEF Tabs
    <2> QED
      BY <2>2 DEF Asked
  <1>2. /\ ~tab.hidden /\ UNCHANGED store /\ Clicks
        /\ Become(opened) \/ Become(Refreshing(Connected(opened))) \/ Become(Scheduled(Connected(opened)))
    BY <1>1 DEF OpenPulse
  <1>3. tab \in Tabs /\ TabFits(tab) /\ Connects(tab)
    BY DEF LiveInv, TabFits
  <1>4. asking \in BOOLEAN
    BY <1>3 DEF Tabs
  <1> HIDE DEF asking
  <1>5. /\ opened \in Tabs /\ opened.open /\ opened.hidden = tab.hidden /\ opened.view = tab.view
        /\ opened.account = tab.account /\ opened.source = tab.source /\ opened.awaiting = tab.awaiting
        /\ opened.seen = tab.seen /\ opened.debounce = tab.debounce /\ opened.queued = tab.queued
        /\ opened.fetch = tab.fetch /\ opened.loading = tab.loading
        /\ opened.mutation = tab.mutation /\ opened.data = tab.data /\ opened.failed = tab.failed
    BY <1>3, <1>4 DEF Tabs
  <1> HIDE DEF opened, p
  <1>6. TabFits(opened) /\ Connects(opened)
    BY <1>2, <1>3, <1>5 DEF TabFits, Connects, Looking
  <1>7. Follows(tab, opened, p)
    BY <1>5, <1>6 DEF Follows, Calm, Holds
  <1>8. Follows(tab, Connected(opened), p) /\ TabFits(Connected(opened)) /\ Connects(Connected(opened))
    BY <1>6, <1>7, ConnectedFollows, FollowsOn
  <1>9. Follows(tab, Refreshing(Connected(opened)), p) /\ Follows(tab, Scheduled(Connected(opened)), p)
    BY <1>8, RefreshingFollows, ScheduledFollows, FollowsOn
  <1> QED
    BY <1>2, <1>7, <1>9, Becomes DEF p

LEMMA LooksAway ==
  ASSUME LiveInv, ClosePulse \/ Hide
  PROVE  LiveInv'
  <1>1. PICK open \in BOOLEAN, hidden \in BOOLEAN :
          /\ Become(Stopped([tab EXCEPT !.open = open, !.hidden = hidden, !.poll = FALSE]))
          /\ UNCHANGED store /\ Clicks
    <2>1. tab \in Tabs
      BY DEF LiveInv, TabFits
    <2>2. CASE ClosePulse
      <3>1. [tab EXCEPT !.open = FALSE, !.poll = FALSE] = [tab EXCEPT !.open = FALSE, !.hidden = tab.hidden, !.poll = FALSE]
        BY <2>1 DEF Tabs
      <3> QED
        BY <2>1, <2>2, <3>1 DEF ClosePulse, Tabs
    <2>3. CASE Hide
      <3>1. [tab EXCEPT !.hidden = TRUE, !.poll = FALSE] = [tab EXCEPT !.open = tab.open, !.hidden = TRUE, !.poll = FALSE]
        BY <2>1 DEF Tabs
      <3> QED
        BY <2>1, <2>3, <3>1 DEF Hide, Tabs
    <2> QED
      BY <2>2, <2>3
  <1> DEFINE s == [tab EXCEPT !.open = open, !.hidden = hidden, !.poll = FALSE]
  <1>2. tab \in Tabs /\ TabFits(tab)
    BY DEF LiveInv, TabFits
  <1>3. /\ s \in Tabs /\ s.view = tab.view /\ s.account = tab.account
        /\ s.fetch = tab.fetch /\ s.loading = tab.loading /\ s.mutation = tab.mutation
    BY <1>2, ZenonT(40) DEF Tabs
  <1> HIDE DEF s
  <1>4. TabFits(s)
    BY <1>2, <1>3 DEF TabFits
  <1>5. Follows(tab, Stopped(s), store[tab.account].published)
    BY <1>4, StoppedFollows, NotOpenFollows
  <1> QED
    BY <1>1, <1>5, Becomes DEF s

LEMMA ShowKeeps ==
  ASSUME LiveInv, Show
  PROVE  LiveInv'
  <1> DEFINE p == store[tab.account].published
             shown == [tab EXCEPT !.hidden = FALSE]
  <1>1. /\ tab.hidden /\ UNCHANGED <<store, bounds>>
        /\ Become(shown) \/ Become(Asked(shown, TRUE))
    BY DEF Show
  <1>2. tab \in Tabs /\ TabFits(tab) /\ Connects(tab)
    BY DEF LiveInv, TabFits
  <1>3. /\ shown \in Tabs /\ shown.source = tab.source /\ shown.view = tab.view /\ shown.account = tab.account
        /\ shown.fetch = tab.fetch /\ shown.loading = tab.loading /\ shown.mutation = tab.mutation
    BY <1>2 DEF Tabs
  <1>4. tab.source = "none"
    BY <1>1, <1>2 DEF Connects, Looking
  <1> HIDE DEF shown, p
  <1>5. /\ Asked(shown, TRUE) \in Tabs /\ Asked(shown, TRUE).source = shown.source
        /\ Asked(shown, TRUE).view = shown.view /\ Asked(shown, TRUE).account = shown.account
        /\ Asked(shown, TRUE).fetch = shown.fetch /\ Asked(shown, TRUE).loading = shown.loading
        /\ Asked(shown, TRUE).mutation = shown.mutation
    BY <1>3 DEF Tabs, Asked
  <1>6. Follows(tab, shown, p)
    BY <1>2, <1>3, <1>4 DEF Follows, TabFits, Connects, Calm
  <1>7. Follows(tab, Asked(shown, TRUE), p)
    BY <1>2, <1>3, <1>4, <1>5 DEF Follows, TabFits, Connects, Calm
  <1> QED
    BY <1>1, <1>6, <1>7, Becomes DEF p

\* The refresh of the view before is superseded: nothing of it is shown.
LEMMA SwitchViewKeeps ==
  ASSUME LiveInv, NEW view \in {"dashboard", "settings"}, SwitchView(view)
  PROVE  LiveInv'
  <1> DEFINE p == store[tab.account].published
             s == Superseded(tab)
             t == [s EXCEPT !.view = view]
             u == Refreshing(t)
  <1>1. Looking(tab) /\ Become(u) /\ UNCHANGED store /\ Clicks
    BY DEF SwitchView
  <1>2. tab \in Tabs /\ TabFits(tab) /\ Connects(tab)
    BY DEF LiveInv, TabFits
  <1>3. /\ s \in Tabs /\ TabFits(s) /\ Alike(tab, s) /\ s.fetch = << >> /\ s.mutation.read = tab.mutation.read
    BY <1>2, SupersededFollows DEF TabFits
  <1> HIDE DEF s, p
  <1>4. /\ t \in Tabs /\ t.open = s.open /\ t.hidden = s.hidden /\ t.account = s.account /\ t.source = s.source
        /\ t.awaiting = s.awaiting /\ t.seen = s.seen /\ t.debounce = s.debounce /\ t.queued = s.queued
        /\ t.fetch = << >> /\ t.mutation = s.mutation
    BY <1>3 DEF Tabs
  <1> HIDE DEF t
  <1>5. TabFits(t) /\ Connects(t)
    BY <1>2, <1>3, <1>4 DEF TabFits, Connects, Alike, Looking
  <1>6. /\ Alike(t, u) /\ TabFits(u) /\ Connects(u)
        /\ t.account # None /\ Looking(t) /\ (t.mutation.read # None => UpTo(t.mutation.read, p)) => Holds(u, p)
    BY <1>5, RefreshingFollows
  <1> HIDE DEF u
  <1>7. Follows(tab, u, p)
    BY <1>2, <1>3, <1>4, <1>5, <1>6 DEF Follows, Alike, Calm, Holds, Connects
  <1> QED
    BY <1>1, <1>7, Becomes DEF p, u

LEMMA SwitchAccountKeeps ==
  ASSUME LiveInv, NEW a \in Account, SwitchAccount(a)
  PROVE  LiveInv'
  <1>1. Become(Chosen(tab, a)) /\ UNCHANGED store /\ Clicks
    BY DEF SwitchAccount
  <1>2. Follows(tab, Chosen(tab, a), store[tab.account].published)
    BY ChosenFollows DEF LiveInv
  <1> QED
    BY <1>1, <1>2, Becomes

LEMMA RefreshNowKeeps ==
  ASSUME LiveInv, RefreshNow
  PROVE  LiveInv'
  <1>1. Become(Refreshing(tab)) /\ UNCHANGED store /\ Clicks
    BY DEF RefreshNow
  <1>2. Follows(tab, Refreshing(tab), store[tab.account].published)
    BY RefreshingFollows DEF LiveInv
  <1> QED
    BY <1>1, <1>2, Becomes

----------------------------------------------------------------------------
LEMMA StartMutationKeeps ==
  ASSUME LiveInv, NEW kind \in {"mutate", "token"}, StartMutation(kind)
  PROVE  LiveInv'
  <1> DEFINE p == store[tab.account].published
             m == [NoMutation EXCEPT !.kind = kind, !.at = "sent"]
  <1>1. /\ tab.account # None /\ tab.mutation.kind = "none" /\ Clicks /\ UNCHANGED <<store, wire>>
        /\ tab' = [tab EXCEPT !.mutation = m]
    BY DEF StartMutation
  <1>2. tab \in Tabs /\ TabFits(tab) /\ Connects(tab)
    BY DEF LiveInv, TabFits
  <1>3. NoMutation \in Mutations
    BY DEF NoMutation, Mutations
  <1>4. m \in Mutations /\ m.kind = kind /\ m.read = None /\ m.stale = FALSE
    BY <1>3 DEF NoMutation, Mutations
  <1> HIDE DEF m, p
  <1>5. /\ tab' \in Tabs /\ Alike(tab, tab') /\ tab'.fetch = tab.fetch /\ tab'.loading = tab.loading
        /\ tab'.mutation = m /\ tab'.data = tab.data /\ tab'.failed = tab.failed
    BY <1>1, <1>2, <1>4 DEF Tabs, Alike
  <1>6. TabFits(tab') /\ Connects(tab')
    BY <1>1, <1>2, <1>4, <1>5 DEF TabFits, Connects, Alike, Looking
  <1>7. Holds(tab, p) => Holds(tab', p)
    BY <1>4, <1>5 DEF Holds, Alike
  <1>8. Follows(tab, tab', p)
    BY <1>5, <1>6, <1>7 DEF Follows, Alike, Calm
  <1> QED
    BY <1>1, <1>8, Alters DEF p

LEMMA MutationDoneKeeps ==
  ASSUME LiveInv, MutationDone
  PROVE  LiveInv'
  <1> DEFINE p == store[tab.account].published
             r == Refreshing(tab)
             u == [r EXCEPT !.mutation.at = "refresh", !.mutation.stale = FALSE]
             over == Flushed([tab EXCEPT !.mutation = NoMutation])
  <1>1. /\ tab.mutation.kind = "mutate" /\ UNCHANGED <<store, bounds>>
        /\ \/ ~tab.mutation.stale /\ Become(u)
           \/ Become(over)
    BY DEF MutationDone
  <1>2. tab \in Tabs /\ TabFits(tab) /\ Connects(tab)
    BY DEF LiveInv, TabFits
  <1>3. Follows(tab, over, p)
    BY <1>2, MutationEnds
  <1>4. ASSUME ~tab.mutation.stale
        PROVE  Follows(tab, u, p)
    <2>1. tab.account # None
      BY <1>1, <1>2, <1>4 DEF TabFits
    <2>2. /\ r \in Tabs /\ r.mutation \in Mutations /\ Alike(tab, r) /\ TabFits(r) /\ Connects(r)
          /\ r.mutation.kind = "mutate" /\ Follows(tab, r, p)
      BY <1>1, <1>2, RefreshingFollows DEF TabFits, Tabs
    <2> HIDE DEF r, p
    <2>3. /\ u \in Tabs /\ Alike(r, u) /\ u.fetch = r.fetch /\ u.loading = r.loading
          /\ u.data = r.data /\ u.failed = r.failed
      BY <2>2 DEF Tabs, Mutations, Alike
    <2>4. u.mutation.kind = r.mutation.kind /\ u.mutation.read = r.mutation.read
      BY <2>2 DEF Tabs, Mutations
    <2> HIDE DEF u
    <2>5. TabFits(u) /\ Connects(u)
      BY <2>1, <2>2, <2>3, <2>4 DEF TabFits, Connects, Alike, Looking
    <2>6. Holds(r, p) => Holds(u, p)
      BY <2>3, <2>4 DEF Holds, Alike
    <2>7. Follows(r, u, p)
      BY <2>3, <2>5, <2>6 DEF Follows, Alike, Calm
    <2> QED
      BY <2>2, <2>7, FollowsOn
  <1> QED
    BY <1>1, <1>3, <1>4, Becomes

LEMMA MutationGivesUp ==
  ASSUME LiveInv, MutationSuperseded \/ MutationFails
  PROVE  LiveInv'
  <1> DEFINE over == Flushed([tab EXCEPT !.mutation = NoMutation])
  <1>1. Become(over) /\ UNCHANGED store /\ (Breaks \/ UNCHANGED bounds)
    BY DEF MutationSuperseded, MutationFails
  <1>2. Follows(tab, over, store[tab.account].published)
    BY MutationEnds DEF LiveInv
  <1> QED
    BY <1>1, <1>2, Becomes

LEMMA TokenIssuedKeeps ==
  ASSUME LiveInv, TokenIssued
  PROVE  LiveInv'
  <1> DEFINE p == store[tab.account].published
             v == store[tab.account].version
  <1>1. /\ tab.mutation.kind = "token" /\ ~tab.mutation.stale /\ UNCHANGED <<store, wire, bounds>>
        /\ tab' = [tab EXCEPT !.mutation.at = "read", !.mutation.read = v]
    BY DEF TokenIssued
  <1>2. tab \in Tabs /\ TabFits(tab) /\ Connects(tab) /\ tab.mutation \in Mutations
    BY DEF LiveInv, TabFits, Tabs
  <1>3. tab.account \in Account
    BY <1>1, <1>2 DEF TabFits, Tabs
  <1>4. v \in Version /\ UpTo(v, p)
    BY <1>3, LiveAssumption DEF LiveInv, Served, Version, UpTo
  <1> HIDE DEF v, p
  <1>5. /\ tab' \in Tabs /\ Alike(tab, tab') /\ tab'.fetch = tab.fetch /\ tab'.loading = tab.loading
        /\ tab'.data = tab.data /\ tab'.failed = tab.failed
    BY <1>1, <1>2, <1>4 DEF Tabs, Mutations, Alike
  <1>6. tab'.mutation.kind = "token" /\ tab'.mutation.read = v /\ tab'.mutation.stale = tab.mutation.stale
    BY <1>1, <1>2 DEF Tabs, Mutations
  <1>7. TabFits(tab') /\ Connects(tab')
    BY <1>2, <1>3, <1>5, <1>6, LiveAssumption DEF TabFits, Connects, Alike, Looking
  <1>8. Holds(tab, p) => Holds(tab', p)
    BY <1>4, <1>5, <1>6 DEF Holds, Alike
  <1>9. Follows(tab, tab', p)
    BY <1>5, <1>7, <1>8 DEF Follows, Alike, Calm
  <1> QED
    BY <1>1, <1>9, Alters DEF p

\* The tokens' page goes to the data it was read for.
LEMMA TokenOverKeeps ==
  ASSUME LiveInv, TokenOver
  PROVE  LiveInv'
  <1> DEFINE p == store[tab.account].published
             plain == [tab EXCEPT !.mutation = NoMutation]
             page == IF tab.mutation.read = None THEN tab.data["ingestTokens"] ELSE tab.mutation.read
             data == [tab.data EXCEPT !["ingestTokens"] = page]
             shown == [tab EXCEPT !.mutation = NoMutation, !.data = data]
  <1>1. /\ UNCHANGED <<store, wire>> /\ (Breaks \/ UNCHANGED bounds)
        /\ tab' = plain \/ tab' = shown
    BY DEF TokenOver
  <1>2. tab \in Tabs /\ TabFits(tab) /\ Connects(tab) /\ tab.mutation \in Mutations
        /\ tab.data \in [Resource -> Version \cup {None}]
    BY DEF LiveInv, TabFits, Tabs
  <1>3. Follows(tab, plain, p)
    BY <1>2, MutationEnds
  <1>4. Follows(tab, shown, p)
    <2>1. /\ data \in [Resource -> Version \cup {None}] /\ NoMutation \in Mutations
          /\ \A r \in Resource : data[r] = tab.data[r] \/ (tab.mutation.read # None /\ data[r] = tab.mutation.read)
      BY <1>2 DEF Mutations, NoMutation, Resource
    <2> HIDE DEF data, p
    <2>2. /\ shown \in Tabs /\ Alike(tab, shown) /\ shown.fetch = tab.fetch /\ shown.loading = tab.loading
          /\ shown.mutation = NoMutation /\ shown.data = data /\ shown.failed = tab.failed
      BY <1>2, <2>1 DEF Tabs, Alike
    <2> HIDE DEF shown
    <2>3. TabFits(shown) /\ Connects(shown)
      BY <1>2, <2>2 DEF TabFits, Connects, Alike, Looking, NoMutation
    <2>4. Holds(tab, p) => Holds(shown, p)
      BY <2>1, <2>2 DEF Holds, Alike, NoMutation, Shows, Resource
    <2> QED
      BY <2>2, <2>3, <2>4 DEF Follows, Alike, Calm
  <1> QED
    BY <1>1, <1>3, <1>4, Alters

----------------------------------------------------------------------------
LEMMA LiveKeeps ==
  ASSUME LiveInv, [LiveNext]_liveVars
  PROVE  LiveInv'
  <1>1. CASE ServerStep
    BY <1>1, CommitKeeps, PublishRevisionKeeps, ServerRestartsKeeps, SubscribeKeeps, YieldsKeeps, StreamBreaksKeeps
       DEF ServerStep
  <1>2. CASE TabStep
    BY <1>2, EventKeeps, StreamFailsKeeps, ReconnectKeeps, DebounceEndsKeeps, PollFiresKeeps, ReadResourceKeeps,
       RefreshEndsKeeps, AccountsKnownKeeps, AccountsFailKeeps, MutationDoneKeeps, MutationGivesUp, TokenIssuedKeeps,
       TokenOverKeeps DEF TabStep
  <1>3. CASE UserStep
    BY <1>3, OpenPulseKeeps, LooksAway, ShowKeeps, RefreshNowKeeps, SwitchViewKeeps, SwitchAccountKeeps,
       StartMutationKeeps DEF UserStep
  <1>4. CASE UNCHANGED liveVars
    <2>1. store' = store /\ wire' = wire /\ tab' = tab /\ bounds' = bounds
      BY <1>4 DEF liveVars
    <2> QED
      BY <2>1 DEF LiveInv, Served, EventsAreNews, Current
  <1> QED
    BY <1>1, <1>2, <1>3, <1>4 DEF LiveNext

LEMMA LiveStart ==
  ASSUME LiveInit
  PROVE  LiveInv
  <1>1. MaxCommit \in Nat /\ MaxClick \in Nat /\ MaxBreak \in Nat /\ 0 \in Version /\ << >> \in Seq(Version)
    BY LiveAssumption DEF Version
  <1>2. Served
    BY <1>1 DEF LiveInit, Served, Version
  <1>3. NoMutation \in Mutations /\ << >> \in Fetches /\ [r \in Resource |-> None] \in [Resource -> Version \cup {None}]
    BY DEF NoMutation, Mutations, Fetches
  <1>4. tab \in Tabs /\ tab.source = "none" /\ tab.fetch = << >> /\ tab.mutation = NoMutation
    BY <1>3 DEF LiveInit, Tabs
  <1>5. EventsAreNews
    BY <1>1, <1>4 DEF LiveInit, EventsAreNews
  <1>6. TabFits(tab) /\ Connects(tab) /\ Current
    BY <1>4 DEF TabFits, Connects, Current, Calm, NoMutation
  <1> QED
    BY <1>2, <1>5, <1>6 DEF LiveInv

\* The invariant holds in every state of every behaviour.
THEOREM LiveInvariant == LiveSpec => []LiveInv
  BY LiveStart, LiveKeeps, PTL DEF LiveSpec

\* No invalidation is lost to a debounce, a queue, a reconnection, a hidden tab,
\* a switch of view or account, a server that counts from zero, or a late page:
\* a tab at rest shows what was last published (pulseInvalidationAction,
\* queuePulseInvalidationRefresh, flushPulseInvalidationRefresh, refreshPulse).
THEOREM QuietTabsAreCurrent == LiveSpec => [](LiveTypeOK /\ QuietIsCurrent)
  <1>1. LiveInv => LiveTypeOK /\ QuietIsCurrent
    <2> SUFFICES ASSUME LiveInv
                 PROVE  LiveTypeOK /\ QuietIsCurrent
      OBVIOUS
    <2>1. LiveTypeOK
      <3>1. \A a \in Account : /\ store[a].version \in 0..MaxCommit /\ store[a].published \in 0..store[a].version
                               /\ store[a].revision \in 0..MaxCommit /\ store[a].owed \in 0..MaxCommit
        <4>1. ASSUME NEW a \in Account
              PROVE  /\ store[a].version \in Version /\ store[a].published \in Version
                     /\ store[a].revision \in Version /\ store[a].owed \in Version
                     /\ store[a].published <= store[a].version
          BY DEF LiveInv, Served
        <4>2. \A v \in Version, p \in Version : p <= v => p \in 0..v
          BY LiveAssumption DEF Version
        <4> QED
          BY <4>1, <4>2 DEF Version
      <3>2. wire.sent \in 0..MaxCommit /\ wire.events \in Seq(0..MaxCommit)
        BY DEF LiveInv, EventsAreNews, Version
      <3>3. tab \in Tabs /\ TabFits(tab) /\ Connects(tab) /\ tab.mutation \in Mutations
        BY DEF LiveInv, TabFits, Tabs
      <3>4. /\ tab.account \in Account \cup {None} /\ tab.accounts \in {"unknown", "loaded"}
            /\ tab.source \in {"none", "opening", "open", "broken"}
            /\ tab.mutation.kind \in {"none", "mutate", "token"}
            /\ tab.mutation.at \in {"none", "sent", "refresh", "read"}
            /\ \A r \in Resource : tab.data[r] \in 0..MaxCommit \cup {None}
        BY <3>3 DEF Tabs, Mutations, Version
      <3>5. /\ tab.source # "none" => Looking(tab) /\ tab.account # None
            /\ tab.fetch # << >> => tab.loading /\ DOMAIN tab.fetch = Shows(tab.view)
        BY <3>3 DEF TabFits, Connects
      <3>6. bounds \in [commits : 0..MaxCommit, clicks : 0..MaxClick, breaks : 0..MaxBreak]
        BY DEF LiveInv, Served
      <3> QED
        BY <3>1, <3>2, <3>4, <3>5, <3>6 DEF LiveTypeOK
    <2>2. QuietIsCurrent
      BY DEF LiveInv, Current, Calm, Holds, UpTo, Busy, QuietIsCurrent
    <2> QED
      BY <2>1, <2>2
  <1> QED
    BY <1>1, LiveInvariant, PTL

-----------------------------------------------------------------------------
(* Proof that token totals never shrink and that a reader behind the       *)
(* backfill's cursor misses nothing.  The argument: a revision is reserved  *)
(* before the transcripts are read, so that of two totals the one of the    *)
(* greater revision was read later, or is no smaller; and a page is applied *)
(* only if the transcripts it was read from are those the scan began with.  *)

\* What the variables hold.
TokenRows == UNION {[keys -> 1..MaxAppend + 1] : keys \in SUBSET TokenKey}
States == [generation : Nat, source : 0..SourceGeneration, revision : 0..tokenRevision,
           cursor : 0..NumTokenKey, complete : BOOLEAN]
TokenPages == [source : 0..SourceGeneration, rows : TokenRows, complete : BOOLEAN]
Histories == [at : {"idle", "begin", "collect", "page"}, read : 0..SourceGeneration, after : 0..NumTokenKey,
              state : States, page : TokenPages, restarts : 0..BackfillRestarts]
Tallies == [at : {"idle", "scan", "store"}, revision : 0..tokenRevision, rows : TokenRows]

\* The transcripts only grow, and the bound counts their changes and the
\* revisions.
SourceOK ==
  /\ asOf \in Seq([TokenKey -> Nat]) /\ Len(asOf) >= 1
  /\ \A g \in 1..Len(asOf) : \A k \in TokenKey : asOf[g][k] <= g
  /\ \A g, h \in 1..Len(asOf) : g <= h => \A k \in TokenKey : asOf[g][k] <= asOf[h][k]
  /\ tokenRevision \in Nat /\ Len(asOf) - 1 + tokenRevision <= MaxAppend

\* No row is ahead of the transcripts, nor of the revisions.
RowsOK ==
  /\ tokenRow \in [TokenKey -> [total : Nat, revision : Nat]]
  /\ \A k \in TokenKey : tokenRow[k].total <= Transcripts[k] /\ tokenRow[k].revision <= tokenRevision

\* A row that was written since the scan began has what the scan would write,
\* or more.
Counted ==
  progress.source > 0 =>
    \A k \in TokenKey : tokenRow[k].total > 0 /\ tokenRow[k].revision >= progress.revision =>
      tokenRow[k].total >= asOf[progress.source][k]

\* A page leaves out only keys beyond its last, and says so.
PageOK(h) ==
  /\ h.page.source \in 1..SourceGeneration
  /\ \A k \in DOMAIN h.page.rows : h.page.rows[k] = asOf[h.page.source][k] /\ k > h.after
  /\ \A k \in TokenKey : k \notin DOMAIN h.page.rows /\ k > h.after /\ asOf[h.page.source][k] > 0 =>
       ~h.page.complete /\ \A j \in DOMAIN h.page.rows : j < k

\* A page of the scan under way: what it may overwrite is no newer than the page.
PageIsNewest(h) ==
  h.page.source = h.state.source /\ h.state.source = progress.source /\ h.state.revision = progress.revision =>
    \A k \in TokenKey : tokenRow[k].revision < progress.revision =>
      tokenRow[k].total <= asOf[progress.source][k]

HistoryFits(h) ==
  /\ h \in Histories
  /\ h.at = "begin" => h.read >= 1
  /\ h.at \in {"collect", "page"} => h.after <= h.state.cursor
  /\ h.at = "page" => PageOK(h) /\ PageIsNewest(h)

HistoriesOK == history \in [Backfill -> Histories] /\ \A b \in Backfill : HistoryFits(history[b])

\* An observer whose revision is the newest has read totals no older than those
\* stored and than those of the scan under way.
TallyFits(t) ==
  t.at = "store" /\ t.revision = tokenRevision =>
    \A k \in DOMAIN t.rows :
      /\ tokenRow[k].total <= t.rows[k] /\ t.rows[k] <= Transcripts[k]
      /\ progress.source > 0 => asOf[progress.source][k] <= t.rows[k]

TalliesOK ==
  /\ tally \in [Observer -> Tallies]
  /\ \A o \in Observer : TallyFits(tally[o])
  /\ \A o, p \in Observer : o # p /\ tally[o].at # "idle" /\ tally[p].at # "idle" =>
       tally[o].revision # tally[p].revision

BackfillInv ==
  /\ SourceOK /\ RowsOK /\ progress \in States /\ Counted /\ BehindCursorCovered
  /\ HistoriesOK /\ TalliesOK

-------------------------------------------------------------------------------
(* Numbers, rows and pages.                                                *)

\* A set of numbers with a bound has a greatest one.
LEMMA GreatestKey ==
  ASSUME NEW S \in SUBSET TokenKey, S # {}
  PROVE  \E k \in S : \A j \in S : j <= k
  <1> DEFINE T == {NumTokenKey - k : k \in S}
  <1> DEFINE R == OpToRel(<, Nat)
  <1>1. NumTokenKey \in Nat /\ S \subseteq 1..NumTokenKey
    BY BackfillAssumption DEF TokenKey
  <1>2. T \in SUBSET Nat /\ T # {}
    <2>1. PICK k \in S : TRUE
      OBVIOUS
    <2>2. NumTokenKey - k \in T
      OBVIOUS
    <2> QED BY <1>1, <2>2
  <1>3. \E x \in T : \A y \in T : <<y, x>> \notin R
    <2> HIDE DEF T
    <2> QED BY <1>2, NatLessThanWellFounded, WFMin
  <1>4. \A x, y \in Nat : y < x => <<y, x>> \in R
    BY DEF OpToRel
  <1> HIDE DEF R
  <1>5. PICK k \in S : \A j \in S : <<NumTokenKey - j, NumTokenKey - k>> \notin R
    BY <1>3
  <1>6. ASSUME NEW j \in S PROVE j <= k
    <2>1. NumTokenKey - j \in Nat /\ NumTokenKey - k \in Nat /\ j \in Nat /\ k \in Nat
      BY <1>1
    <2>2. ~(NumTokenKey - j < NumTokenKey - k)
      BY <1>4, <1>5, <2>1
    <2> QED
      BY <1>1, <2>1, <2>2
  <1> QED
    BY <1>6

LEMMA RowsAre ==
  /\ \A r \in TokenRows : DOMAIN r \subseteq TokenKey /\ \A k \in DOMAIN r : r[k] \in 1..MaxAppend + 1
  /\ \A keys \in SUBSET TokenKey : [keys -> 1..MaxAppend + 1] \subseteq TokenRows
  /\ NoRows \in TokenRows /\ DOMAIN NoRows = {}
  BY DEF TokenRows, NoRows

\* The bounds grow with the transcripts and the revisions.
LEMMA Wider ==
  ASSUME Len(asOf) \in Nat, Len(asOf)' \in Nat, tokenRevision \in Nat, tokenRevision' \in Nat,
         Len(asOf) <= Len(asOf)', tokenRevision <= tokenRevision'
  PROVE  States \subseteq States' /\ TokenPages \subseteq TokenPages' /\ Histories \subseteq Histories' /\ Tallies \subseteq Tallies'
  <1>1. 0..Len(asOf) \subseteq 0..Len(asOf)' /\ 0..tokenRevision \subseteq 0..tokenRevision'
    OBVIOUS
  <1>2. TokenRows' = TokenRows
    BY DEF TokenRows, TokenKey
  <1>3. States \subseteq States' /\ TokenPages \subseteq TokenPages' /\ Tallies \subseteq Tallies'
    BY <1>1, <1>2 DEF States, TokenPages, Tallies, SourceGeneration
  <1>4. Histories \subseteq Histories'
    BY <1>1, <1>3 DEF Histories, SourceGeneration
  <1> QED
    BY <1>3, <1>4

\* The transcripts as they are now, and as they were.
LEMMA TranscriptsAre ==
  ASSUME SourceOK
  PROVE  /\ SourceGeneration \in Nat /\ SourceGeneration >= 1 /\ SourceGeneration <= MaxAppend + 1
         /\ \A g \in 1..SourceGeneration : \A k \in TokenKey :
              /\ asOf[g][k] \in Nat /\ asOf[g][k] <= Transcripts[k] /\ asOf[g][k] <= MaxAppend + 1
         /\ \A k \in TokenKey : Transcripts[k] \in Nat /\ Transcripts[k] <= MaxAppend + 1
  <1>1. /\ SourceGeneration \in Nat /\ SourceGeneration >= 1 /\ SourceGeneration <= MaxAppend + 1
        /\ SourceGeneration \in 1..SourceGeneration /\ MaxAppend \in Nat
    BY BackfillAssumption DEF SourceOK, SourceGeneration
  <1>2. \A g \in 1..SourceGeneration : \A k \in TokenKey :
          asOf[g][k] \in Nat /\ asOf[g][k] <= g /\ asOf[g][k] <= Transcripts[k]
    BY <1>1 DEF SourceOK, SourceGeneration, Transcripts
  <1>3. \A g \in 1..SourceGeneration : \A k \in TokenKey : asOf[g][k] <= MaxAppend + 1
    BY <1>1, <1>2
  <1> QED
    BY <1>1, <1>2, <1>3 DEF Transcripts

\* What a tally of some keys reads.
LEMMA TalliedRows ==
  ASSUME SourceOK, NEW keys \in SUBSET TokenKey, \A k \in keys : Transcripts[k] > 0
  PROVE  Tallied(keys) \in TokenRows /\ DOMAIN Tallied(keys) = keys /\ \A k \in keys : Tallied(keys)[k] = Transcripts[k]
  <1>1. \A k \in keys : Transcripts[k] \in 1..MaxAppend + 1
    BY TranscriptsAre, BackfillAssumption
  <1>2. Tallied(keys) \in [keys -> 1..MaxAppend + 1]
    BY <1>1 DEF Tallied
  <1> QED
    BY <1>2, RowsAre DEF Tallied

\* A page takes the first keys after the cursor.
LEMMA PageReads ==
  ASSUME SourceOK, NEW cursor \in 0..NumTokenKey
  PROVE  /\ Page(cursor) \in TokenPages /\ Page(cursor).source = SourceGeneration
         /\ \A k \in DOMAIN Page(cursor).rows : Page(cursor).rows[k] = Transcripts[k] /\ k > cursor
         /\ \A k \in TokenKey : k \notin DOMAIN Page(cursor).rows /\ k > cursor /\ Transcripts[k] > 0 =>
              ~Page(cursor).complete /\ \A j \in DOMAIN Page(cursor).rows : j < k
  <1> DEFINE after == {k \in TokenKey : k > cursor /\ Transcripts[k] > 0}
             first == {k \in after : Cardinality({j \in after : j < k}) < BackfillRows}
  <1>1. first \in SUBSET TokenKey /\ first \subseteq after /\ \A k \in first : Transcripts[k] > 0
    OBVIOUS
  <1>2. Page(cursor) = [source |-> SourceGeneration, rows |-> Tallied(first), complete |-> after = first]
    BY DEF Page
  <1>3. ASSUME NEW k \in after, k \notin first, NEW j \in first PROVE j < k
    <2> DEFINE below(x) == {i \in after : i < x}
    <2>1. SUFFICES ASSUME k <= j PROVE FALSE
      BY BackfillAssumption DEF TokenKey
    <2>2. IsFiniteSet(below(k)) /\ IsFiniteSet(below(j))
      <3>1. IsFiniteSet(1..NumTokenKey)
        BY FS_Interval, BackfillAssumption
      <3> QED
        BY <3>1, FS_Subset DEF TokenKey
    <2>3. below(k) \subseteq below(j)
      BY <2>1, BackfillAssumption DEF TokenKey
    <2>4. Cardinality(below(k)) <= Cardinality(below(j)) /\ Cardinality(below(k)) \in Nat /\ Cardinality(below(j)) \in Nat
      <3> HIDE DEF below
      <3> QED BY <2>2, <2>3, FS_Subset, FS_CardinalityType
    <2>5. Cardinality(below(j)) < BackfillRows /\ ~(Cardinality(below(k)) < BackfillRows)
      BY <1>3
    <2> HIDE DEF below
    <2> QED
      BY <2>4, <2>5, BackfillAssumption
  <1> HIDE DEF first
  <1>4. Tallied(first) \in TokenRows /\ DOMAIN Tallied(first) = first /\ \A k \in first : Tallied(first)[k] = Transcripts[k]
    BY <1>1, TalliedRows
  <1>5. Page(cursor) \in TokenPages /\ Page(cursor).source = SourceGeneration
    BY <1>2, <1>4 DEF TokenPages, SourceOK, SourceGeneration
  <1>6. \A k \in after : k \notin first => (after # first) /\ \A j \in first : j < k
    BY <1>3
  <1>7. after = first \/ after # first
    OBVIOUS
  <1>8. Page(cursor).rows = Tallied(first) /\ Page(cursor).complete = (after = first)
    BY <1>2
  <1>9. \A k \in first : k > cursor
    BY <1>1
  <1>10. \A k \in TokenKey : k > cursor /\ Transcripts[k] > 0 => k \in after
    OBVIOUS
  <1> HIDE DEF after
  <1> QED
    BY <1>4, <1>5, <1>6, <1>8, <1>9, <1>10
-------------------------------------------------------------------------------
(* The backfills.                                                          *)

LEMMA BackfillInitial == BackfillInit => BackfillInv
  <1> SUFFICES ASSUME BackfillInit PROVE BackfillInv
    OBVIOUS
  <1>1. PICK n \in TokenKey : asOf = <<[k \in TokenKey |-> IF k <= n THEN 1 ELSE 0]>>
    BY DEF BackfillInit
  <1> DEFINE first == [k \in TokenKey |-> IF k <= n THEN 1 ELSE 0]
  <1>2. /\ asOf \in Seq([TokenKey -> Nat]) /\ Len(asOf) = 1 /\ asOf[1] = first
        /\ \A k \in TokenKey : first[k] \in {0, 1}
    <2>1. first \in [TokenKey -> Nat] /\ \A k \in TokenKey : first[k] \in {0, 1}
      OBVIOUS
    <2> HIDE DEF first
    <2> QED BY <1>1, <2>1 DEF first
  <1> HIDE DEF first
  <1>3. SourceOK
    BY <1>2, BackfillAssumption DEF SourceOK, BackfillInit
  <1>4. RowsOK
    BY <1>2 DEF RowsOK, BackfillInit, Transcripts, SourceGeneration
  <1>5. NoProgress \in States /\ progress = NoProgress /\ tokenRevision = 0
    BY <1>2, BackfillAssumption DEF States, NoProgress, SourceGeneration, BackfillInit
  <1>6. Counted /\ BehindCursorCovered
    BY <1>5 DEF Counted, BehindCursorCovered, NoProgress
  <1>7. NoPage \in TokenPages
    BY <1>2, RowsAre DEF NoPage, TokenPages, SourceGeneration
  <1>8. NoHistory \in Histories /\ NoHistory.at = "idle"
    BY <1>2, <1>5, <1>7, BackfillAssumption DEF NoHistory, Histories, SourceGeneration
  <1>9. HistoriesOK
    BY <1>8 DEF HistoriesOK, HistoryFits, BackfillInit
  <1>10. NoTally \in Tallies /\ NoTally.at = "idle"
    BY <1>5, RowsAre DEF NoTally, Tallies
  <1>11. TalliesOK
    BY <1>10 DEF TalliesOK, TallyFits, BackfillInit
  <1> QED
    BY <1>3, <1>4, <1>5, <1>6, <1>9, <1>11 DEF BackfillInv

LEMMA NothingHeld ==
  ASSUME BackfillInv
  PROVE  /\ NoPage \in TokenPages /\ HistoryFits(NoHistory) /\ NoHistory \in Histories
         /\ NoTally \in Tallies /\ TallyFits(NoTally) /\ NoTally.at = "idle"
         /\ NoHistory.at = "idle" /\ NoHistory.after = 0 /\ NoHistory.read = 0 /\ NoHistory.restarts = 0
         /\ NoHistory.page = NoPage
  <1>0. SourceGeneration \in Nat /\ tokenRevision \in Nat
    BY TranscriptsAre DEF BackfillInv, SourceOK
  <1>1. NoProgress \in States
    BY <1>0, BackfillAssumption DEF States, NoProgress
  <1>2. NoPage \in TokenPages
    BY <1>0, RowsAre DEF NoPage, TokenPages
  <1>3. NoHistory \in Histories
    BY <1>0, <1>1, <1>2, BackfillAssumption DEF NoHistory, Histories
  <1>4. NoTally \in Tallies /\ NoTally.at = "idle"
    BY <1>0, RowsAre DEF NoTally, Tallies
  <1> QED
    BY <1>2, <1>3, <1>4 DEF HistoryFits, TallyFits, NoHistory

\* A step that changes one backfill's own record only.
LEMMA HistoryMoves ==
  ASSUME BackfillInv, NEW b \in Backfill, NEW h, HistoryFits(h),
         asOf' = asOf, tokenRevision' = tokenRevision, tokenRow' = tokenRow, progress' = progress,
         tally' = tally, history' = [history EXCEPT ![b] = h]
  PROVE  BackfillInv'
  <1>1. /\ SourceOK' /\ RowsOK' /\ progress' \in States' /\ Counted' /\ BehindCursorCovered' /\ TalliesOK'
        /\ Histories' = Histories
    BY DEF BackfillInv, SourceOK, RowsOK, States, Counted, BehindCursorCovered, TalliesOK, TallyFits, Tallies,
       TokenRows, TokenKey, Transcripts, SourceGeneration, Histories, TokenPages
  <1>2. \A c : HistoryFits(c) => HistoryFits(c)'
    BY <1>1 DEF HistoryFits, PageOK, PageIsNewest, SourceGeneration, TokenKey
  <1>3. history' \in [Backfill -> Histories] /\ \A c \in Backfill : HistoryFits(history'[c])
    BY DEF BackfillInv, HistoriesOK, HistoryFits
  <1>4. HistoriesOK'
    BY <1>1, <1>2, <1>3 DEF HistoriesOK
  <1> QED
    BY <1>1, <1>4 DEF BackfillInv

LEMMA StartBackfillKeeps ==
  ASSUME BackfillInv, NEW b \in Backfill, StartBackfill(b)
  PROVE  BackfillInv'
  <1> DEFINE h == [history[b] EXCEPT !.at = "begin", !.read = SourceGeneration]
  <1>1. history[b] \in Histories /\ SourceGeneration \in Nat /\ SourceGeneration >= 1
    BY TranscriptsAre DEF BackfillInv, HistoriesOK
  <1>2. h \in Histories /\ h.at = "begin" /\ h.read = SourceGeneration
    <2>1. SourceGeneration \in 0..SourceGeneration
      BY <1>1
    <2> QED
      BY <1>1, <2>1, Zenon DEF Histories
  <1>3. history' = [history EXCEPT ![b] = h]
    BY DEF StartBackfill, BackfillInv, HistoriesOK
  <1> HIDE DEF h
  <1>4. HistoryFits(h)
    BY <1>1, <1>2 DEF HistoryFits
  <1> QED
    BY <1>3, <1>4, HistoryMoves DEF StartBackfill

LEMMA StopBackfillKeeps ==
  ASSUME BackfillInv, NEW b \in Backfill, StopBackfill(b)
  PROVE  BackfillInv'
  BY NothingHeld, HistoryMoves DEF StopBackfill, EndHistory

\* What is collected now is as new as anything stored.
LEMMA CollectPageKeeps ==
  ASSUME BackfillInv, NEW b \in Backfill, CollectPage(b)
  PROVE  BackfillInv'
  <1> DEFINE p == Page(history[b].after)
             h == [history[b] EXCEPT !.at = "page", !.page = p]
  <1>1. history[b] \in Histories /\ history[b].at = "collect" /\ history[b].after <= history[b].state.cursor
    BY DEF BackfillInv, HistoriesOK, HistoryFits, CollectPage
  <1>2. history[b].after \in 0..NumTokenKey /\ history[b].state \in States
    BY <1>1 DEF Histories
  <1>3. /\ p \in TokenPages /\ p.source = SourceGeneration
        /\ \A k \in DOMAIN p.rows : p.rows[k] = Transcripts[k] /\ k > history[b].after
        /\ \A k \in TokenKey : k \notin DOMAIN p.rows /\ k > history[b].after /\ Transcripts[k] > 0 =>
             ~p.complete /\ \A j \in DOMAIN p.rows : j < k
    BY <1>2, PageReads DEF BackfillInv
  <1> HIDE DEF p
  <1>4. /\ h \in Histories /\ h.at = "page" /\ h.page = p /\ h.after = history[b].after
        /\ h.state = history[b].state
    BY <1>1, <1>3 DEF Histories
  <1>5. history' = [history EXCEPT ![b] = h]
    BY DEF CollectPage, BackfillInv, HistoriesOK, p
  <1> HIDE DEF h
  <1>6. PageOK(h)
    BY <1>3, <1>4, TranscriptsAre DEF PageOK, BackfillInv, Transcripts
  <1>7. PageIsNewest(h)
    BY <1>3, <1>4 DEF PageIsNewest, BackfillInv, RowsOK, Transcripts
  <1>8. HistoryFits(h)
    BY <1>1, <1>4, <1>6, <1>7 DEF HistoryFits
  <1> QED
    BY <1>5, <1>8, HistoryMoves DEF CollectPage

\* A revision is reserved: what is stored, and what is held, has older ones.
LEMMA RevisionReserved ==
  ASSUME BackfillInv, asOf' = asOf, tokenRow' = tokenRow, tokenRevision' = tokenRevision + 1, Bounded,
         progress' = progress \/ \E source \in 1..SourceGeneration : progress' = Begun(source)
  PROVE  /\ SourceOK' /\ RowsOK' /\ progress' \in States' /\ Counted' /\ BehindCursorCovered'
         /\ \A h : HistoryFits(h) => HistoryFits(h)'
         /\ Tallies \subseteq Tallies' /\ \A t \in Tallies : TallyFits(t)'
  <1>0. /\ tokenRevision \in Nat /\ SourceGeneration \in Nat /\ SourceGeneration >= 1
        /\ SourceGeneration' = SourceGeneration /\ Transcripts' = Transcripts
    BY TranscriptsAre DEF BackfillInv, SourceOK, SourceGeneration, Transcripts
  <1>1. SourceOK'
    BY <1>0, BackfillAssumption DEF BackfillInv, SourceOK, Bounded, SourceGeneration, TokenKey
  <1>2. RowsOK'
    BY <1>0 DEF BackfillInv, RowsOK, TokenKey
  <1>3. States \subseteq States' /\ Histories \subseteq Histories' /\ Tallies \subseteq Tallies'
    BY <1>0, Wider DEF SourceGeneration
  <1>4. progress' = progress \/ /\ progress' \in States' /\ progress'.revision = tokenRevision + 1
                                /\ progress'.cursor = 0 /\ ~progress'.complete
    <2>1. ASSUME NEW source \in 1..SourceGeneration, progress' = Begun(source)
          PROVE  /\ progress' \in States' /\ progress'.revision = tokenRevision + 1
                 /\ progress'.cursor = 0 /\ ~progress'.complete
      <3>1. progress.generation + 1 \in Nat /\ 0 \in 0..NumTokenKey /\ tokenRevision + 1 \in 0..tokenRevision'
        BY <1>0, BackfillAssumption DEF BackfillInv, States
      <3> QED
        BY <1>0, <2>1, <3>1 DEF Begun, States
    <2> QED
      BY <2>1
  <1>5. progress' \in States'
    BY <1>3, <1>4 DEF BackfillInv
  <1>6. Counted' /\ BehindCursorCovered'
    <2>1. CASE progress' = progress
      BY <2>1 DEF BackfillInv, Counted, BehindCursorCovered, TokenKey
    <2>2. CASE progress'.revision = tokenRevision + 1 /\ progress'.cursor = 0 /\ ~progress'.complete
      <3>1. \A k \in TokenKey : tokenRow[k].revision \in Nat /\ tokenRow[k].revision <= tokenRevision /\ ~(k <= 0)
        BY BackfillAssumption DEF BackfillInv, RowsOK, TokenKey
      <3> QED
        BY <1>0, <2>2, <3>1 DEF Counted, BehindCursorCovered, TokenKey
    <2> QED
      BY <1>4, <2>1, <2>2
  <1>7. ASSUME NEW h, HistoryFits(h) PROVE HistoryFits(h)'
    <2>1. h \in Histories' /\ h \in Histories
      BY <1>3, <1>7 DEF HistoryFits
    <2>2. h.state.revision \in 0..tokenRevision
      BY <2>1 DEF Histories, States
    <2>3. h.at = "page" => PageOK(h)'
      BY <1>0, <1>7 DEF HistoryFits, PageOK, TokenKey
    <2>4. h.at = "page" => PageIsNewest(h)'
      <3>1. CASE progress' = progress
        BY <1>7, <3>1 DEF HistoryFits, PageIsNewest, TokenKey
      <3>2. CASE progress'.revision = tokenRevision + 1
        BY <1>0, <2>2, <3>2 DEF PageIsNewest
      <3> QED
        BY <1>4, <3>1, <3>2
    <2> QED
      BY <1>7, <2>1, <2>3, <2>4 DEF HistoryFits
  <1>8. ASSUME NEW t \in Tallies PROVE TallyFits(t)'
    BY <1>0 DEF Tallies, TallyFits
  <1> QED
    BY <1>1, <1>2, <1>3, <1>5, <1>6, <1>7, <1>8
\* The profile's scan is begun, or the one that is stored goes on.
LEMMA ScanBegins ==
  ASSUME BackfillInv, NEW source \in 1..SourceGeneration, NEW again \in BOOLEAN, BeginScan(source, again),
         asOf' = asOf, tokenRow' = tokenRow, tally' = tally
  PROVE  /\ SourceOK' /\ RowsOK' /\ progress' \in States' /\ Counted' /\ BehindCursorCovered'
         /\ \A h : HistoryFits(h) => HistoryFits(h)'
         /\ TalliesOK'
  <1>1. CASE Restarts(source, again)
    <2>1. Bounded /\ progress' = Begun(source) /\ tokenRevision' = tokenRevision + 1
      BY <1>1 DEF BeginScan
    <2>2. TalliesOK'
      BY <2>1, RevisionReserved DEF BackfillInv, TalliesOK
    <2> QED
      BY <2>1, <2>2, RevisionReserved
  <1>2. CASE ~Restarts(source, again)
    <2>1. progress' = progress /\ tokenRevision' = tokenRevision
      BY <1>2 DEF BeginScan
    <2> QED
      BY <2>1 DEF BackfillInv, SourceOK, RowsOK, States, Counted, BehindCursorCovered, TalliesOK, TallyFits, Tallies,
         TokenRows, TokenKey, Transcripts, SourceGeneration, Histories, TokenPages, HistoryFits, PageOK, PageIsNewest
  <1> QED
    BY <1>1, <1>2

\* One backfill's record changes, the others' keep what they had.
LEMMA HistoriesFollow ==
  ASSUME HistoriesOK, NEW b \in Backfill, NEW g, HistoryFits(g)', \A h : HistoryFits(h) => HistoryFits(h)',
         history' = [history EXCEPT ![b] = g]
  PROVE  HistoriesOK'
  <1>1. \A c \in Backfill : HistoryFits(history[c])
    BY DEF HistoriesOK
  <1>2. ASSUME NEW c \in Backfill PROVE \E h : h = history'[c] /\ HistoryFits(h)'
    BY <1>1 DEF HistoriesOK
  <1>3. ASSUME NEW c \in Backfill, NEW h, h = history'[c], HistoryFits(h)'
        PROVE  history'[c] \in Histories' /\ HistoryFits(history[c])'
    BY <1>3 DEF HistoryFits, PageOK, PageIsNewest
  <1>4. \A c \in Backfill : history'[c] \in Histories' /\ HistoryFits(history[c])'
    BY <1>2, <1>3
  <1>5. history' = [c \in Backfill |-> history'[c]]
    BY DEF HistoriesOK
  <1> QED
    BY <1>4, <1>5 DEF HistoriesOK

LEMMA BeginProfileKeeps ==
  ASSUME BackfillInv, NEW b \in Backfill, BeginProfile(b)
  PROVE  BackfillInv'
  <1>1. history[b].read \in 1..SourceGeneration
    BY TranscriptsAre DEF BackfillInv, HistoriesOK, HistoryFits, Histories, BeginProfile
  <1>2. /\ SourceOK' /\ RowsOK' /\ progress' \in States' /\ Counted' /\ BehindCursorCovered'
        /\ \A h : HistoryFits(h) => HistoryFits(h)'
        /\ TalliesOK'
    BY <1>1, ScanBegins DEF BeginProfile
  <1>3. /\ NoHistory \in Histories' /\ HistoryFits(NoHistory)'
        /\ progress'.cursor \in 0..NumTokenKey
    BY <1>2, NothingHeld DEF HistoryFits, States
  <1>4. CASE history' = [history EXCEPT ![b] = NoHistory]
    BY <1>2, <1>3, <1>4, HistoriesFollow DEF BackfillInv
  <1>5. ASSUME NEW h, h = [NoHistory EXCEPT !.at = "collect", !.state = progress', !.after = progress'.cursor],
               history' = [history EXCEPT ![b] = h]
        PROVE  BackfillInv'
    <2>1. h \in Histories' /\ h.at = "collect" /\ h.after = h.state.cursor
      BY <1>2, <1>3, <1>5 DEF Histories
    <2>2. HistoryFits(h)'
      BY <1>3, <2>1 DEF HistoryFits, Histories, States
    <2> QED
      BY <1>2, <1>5, <2>2, HistoriesFollow DEF BackfillInv
  <1> QED
    BY <1>4, <1>5 DEF BeginProfile, EndHistory
LEMMA RestartGenerationKeeps ==
  ASSUME BackfillInv, NEW b \in Backfill, RestartGeneration(b)
  PROVE  BackfillInv'
  <1>1. /\ history[b].page.source \in 1..SourceGeneration /\ history[b].restarts \in 0..BackfillRestarts
    BY DEF BackfillInv, HistoriesOK, HistoryFits, Histories, PageOK, RestartGeneration
  <1>2. CASE history[b].restarts = BackfillRestarts
    BY <1>2, NothingHeld, HistoryMoves DEF RestartGeneration, EndHistory
  <1>3. ASSUME NEW h, history[b].restarts # BackfillRestarts,
               h = [NoHistory EXCEPT !.at = "collect", !.state = progress', !.restarts = history[b].restarts + 1],
               history' = [history EXCEPT ![b] = h]
        PROVE  BackfillInv'
    <2>1. /\ SourceOK' /\ RowsOK' /\ progress' \in States' /\ Counted' /\ BehindCursorCovered'
          /\ \A c : HistoryFits(c) => HistoryFits(c)'
          /\ TalliesOK'
      BY <1>1, <1>3, ScanBegins DEF RestartGeneration
    <2>2. NoHistory \in Histories' /\ history[b].restarts + 1 \in 0..BackfillRestarts
      BY <1>1, <1>3, <2>1, NothingHeld, BackfillAssumption DEF HistoryFits
    <2>3. h \in Histories' /\ h.at = "collect" /\ h.after = 0
      BY <1>3, <2>1, <2>2, NothingHeld DEF Histories
    <2>4. h.state.cursor \in Nat
      BY <2>3, BackfillAssumption DEF Histories, States
    <2>5. HistoryFits(h)'
      BY <2>3, <2>4 DEF HistoryFits
    <2> QED
      BY <1>3, <2>1, <2>5, HistoriesFollow DEF BackfillInv
  <1> QED
    BY <1>2, <1>3 DEF RestartGeneration

-------------------------------------------------------------------------------
(* Rows are written.                                                       *)

\* A row as the step leaves it: as it was, or with a revision of the scan under way
\* or a later one and a total no less than it had and the scan's source had.
Written(k) ==
  \/ tokenRow'[k] = tokenRow[k]
  \/ /\ tokenRow[k].total <= tokenRow'[k].total /\ tokenRow'[k].total <= Transcripts[k]
     /\ progress.revision <= tokenRow'[k].revision /\ tokenRow'[k].revision <= tokenRevision
     /\ progress.source > 0 => asOf[progress.source][k] <= tokenRow'[k].total

LEMMA RowsWritten ==
  ASSUME BackfillInv, tokenRow' \in [TokenKey -> [total : Nat, revision : Nat]], \A k \in TokenKey : Written(k),
         asOf' = asOf, tokenRevision' = tokenRevision, progress'.source = progress.source,
         progress'.revision = progress.revision
  PROVE  /\ SourceOK' /\ RowsOK' /\ Counted' /\ \A k \in TokenKey : tokenRow[k].total <= tokenRow'[k].total
         /\ \A h : HistoryFits(h) => HistoryFits(h)'
         /\ States' = States /\ Histories' = Histories /\ Tallies' = Tallies
  <1>1. SourceOK' /\ States' = States /\ Histories' = Histories /\ Tallies' = Tallies
    BY DEF BackfillInv, SourceOK, States, Histories, Tallies, TokenPages, TokenRows, TokenKey, SourceGeneration
  <1>2. /\ tokenRow \in [TokenKey -> [total : Nat, revision : Nat]]
        /\ \A k \in TokenKey : tokenRow[k].total \in Nat /\ tokenRow[k].revision \in Nat
        /\ \A k \in TokenKey : tokenRow'[k].total \in Nat /\ tokenRow'[k].revision \in Nat
        /\ progress.revision \in Nat /\ progress.source \in Nat /\ tokenRevision \in Nat
        /\ \A k \in TokenKey : Transcripts[k] \in Nat
        /\ progress.source > 0 => \A k \in TokenKey : asOf[progress.source][k] \in Nat
    <2>1. /\ tokenRow \in [TokenKey -> [total : Nat, revision : Nat]] /\ tokenRevision \in Nat
          /\ progress.source \in 0..SourceGeneration /\ progress.revision \in 0..tokenRevision
      BY DEF BackfillInv, RowsOK, States, SourceOK
    <2>2. /\ \A k \in TokenKey : Transcripts[k] \in Nat
          /\ progress.source > 0 => \A k \in TokenKey : asOf[progress.source][k] \in Nat
      BY <2>1, TranscriptsAre DEF BackfillInv
    <2>3. SourceGeneration \in Nat
      BY TranscriptsAre DEF BackfillInv
    <2> QED
      BY <2>1, <2>2, <2>3
  <1>3. \A k \in TokenKey : tokenRow[k].total <= tokenRow'[k].total
    BY <1>2 DEF Written
  <1>4. RowsOK'
    BY <1>2 DEF BackfillInv, RowsOK, Written, Transcripts, SourceGeneration, TokenKey
  <1>5. Counted'
    BY <1>2 DEF BackfillInv, Counted, Written, TokenKey
  <1>6. ASSUME NEW h, HistoryFits(h) PROVE HistoryFits(h)'
    <2>1. h.at = "page" => PageOK(h)'
      BY <1>6 DEF HistoryFits, PageOK, TokenKey, SourceGeneration
    <2>2. h.at = "page" => PageIsNewest(h)'
      BY <1>2, <1>6 DEF HistoryFits, PageIsNewest, Written, TokenKey
    <2> QED
      BY <1>1, <1>6, <2>1, <2>2 DEF HistoryFits
  <1> QED
    BY <1>1, <1>3, <1>4, <1>5, <1>6

\* A page that is applied.
LEMMA PageWrites ==
  ASSUME BackfillInv, NEW b \in Backfill, history[b].at = "page", ~OtherSource(b),
         Valid(history[b].state, history[b].page), IsExpected(history[b].state),
         tokenRow' = UpsertRows(tokenRow, history[b].page.rows, history[b].state.revision)
  PROVE  /\ tokenRow' \in [TokenKey -> [total : Nat, revision : Nat]]
         /\ \A k \in TokenKey : Written(k)
         /\ progress.source \in 1..SourceGeneration
         /\ \A k \in TokenKey : tokenRow'[k] = tokenRow[k] \/ tokenRow'[k].total = asOf[progress.source][k]
         /\ \A k \in DOMAIN history[b].page.rows :
              k \in TokenKey /\ asOf[progress.source][k] <= tokenRow'[k].total
  <1> DEFINE h == history[b]
             rows == history[b].page.rows
  <1>1. h \in Histories /\ PageOK(h) /\ PageIsNewest(h)
    BY DEF BackfillInv, HistoriesOK, HistoryFits
  <1>2. /\ progress = h.state /\ h.page.source = progress.source /\ progress.source \in 1..SourceGeneration
        /\ rows \in TokenRows
    BY <1>1 DEF IsExpected, OtherSource, PageOK, Histories, TokenPages
  <1>3. \A k \in DOMAIN rows : k \in TokenKey /\ rows[k] = asOf[progress.source][k]
    BY <1>1, <1>2, RowsAre DEF PageOK
  <1>4. /\ progress.revision \in Nat /\ progress.revision <= tokenRevision
        /\ \A k \in TokenKey : tokenRow[k].total \in Nat /\ tokenRow[k].revision \in Nat
        /\ tokenRow \in [TokenKey -> [total : Nat, revision : Nat]]
    BY DEF BackfillInv, States, RowsOK, SourceOK
  <1>5. \A k \in TokenKey : asOf[progress.source][k] \in Nat /\ asOf[progress.source][k] <= Transcripts[k]
    BY <1>2, TranscriptsAre DEF BackfillInv
  <1>6. \A k \in TokenKey : tokenRow[k].revision < progress.revision => tokenRow[k].total <= asOf[progress.source][k]
    BY <1>1, <1>2 DEF PageIsNewest
  <1> HIDE DEF rows, h
  <1>7. tokenRow' = UpsertRows(tokenRow, rows, progress.revision)
    BY <1>2 DEF rows, h
  <1>8. /\ \A k \in TokenKey :
             IF k \in DOMAIN rows /\ ~(tokenRow[k].total > 0 /\ tokenRow[k].revision >= progress.revision)
             THEN tokenRow'[k].total = rows[k] /\ tokenRow'[k].revision = progress.revision
             ELSE tokenRow'[k] = tokenRow[k]
        /\ tokenRow' \in [TokenKey -> [total : Nat, revision : Nat]]
    <2>1. \A k \in DOMAIN rows : rows[k] \in Nat
      BY <1>3, <1>5
    <2>2. ASSUME NEW k \in TokenKey, k \in DOMAIN rows,
                 ~(tokenRow[k].total > 0 /\ tokenRow[k].revision >= progress.revision)
          PROVE  /\ tokenRow'[k] \in [total : Nat, revision : Nat]
                 /\ tokenRow'[k].total = rows[k] /\ tokenRow'[k].revision = progress.revision
      <3>1. tokenRow'[k] = [total |-> rows[k], revision |-> progress.revision]
        BY <1>7, <2>2 DEF UpsertRows
      <3> QED
        BY <1>4, <2>1, <2>2, <3>1
    <2>3. ASSUME NEW k \in TokenKey,
                 ~(k \in DOMAIN rows /\ ~(tokenRow[k].total > 0 /\ tokenRow[k].revision >= progress.revision))
          PROVE  tokenRow'[k] = tokenRow[k]
      BY <1>7, <2>3 DEF UpsertRows
    <2>4. \A k \in TokenKey : tokenRow'[k] \in [total : Nat, revision : Nat]
      BY <1>4, <2>2, <2>3
    <2>5. tokenRow' = [k \in TokenKey |-> tokenRow'[k]]
      BY <1>7 DEF UpsertRows
    <2>6. tokenRow' \in [TokenKey -> [total : Nat, revision : Nat]]
      BY <2>4, <2>5
    <2> QED
      BY <2>2, <2>3, <2>6
  <1>9. ASSUME NEW k \in TokenKey
        PROVE  /\ Written(k)
               /\ tokenRow'[k] = tokenRow[k] \/ tokenRow'[k].total = asOf[progress.source][k]
               /\ k \in DOMAIN rows => asOf[progress.source][k] <= tokenRow'[k].total
    <2>1. CASE k \in DOMAIN rows /\ ~(tokenRow[k].total > 0 /\ tokenRow[k].revision >= progress.revision)
      <3>1. tokenRow'[k].total = asOf[progress.source][k] /\ tokenRow'[k].revision = progress.revision
        BY <1>3, <1>8, <2>1
      <3>2. tokenRow[k].total <= asOf[progress.source][k]
        BY <1>4, <1>5, <1>6, <2>1
      <3> QED
        BY <1>4, <1>5, <3>1, <3>2 DEF Written
    <2>2. CASE ~(k \in DOMAIN rows /\ ~(tokenRow[k].total > 0 /\ tokenRow[k].revision >= progress.revision))
      <3>1. tokenRow'[k] = tokenRow[k]
        BY <1>8, <2>2
      <3>2. progress.source > 0
        BY <1>2, TranscriptsAre DEF BackfillInv
      <3> QED
        BY <1>4, <2>2, <3>1, <3>2 DEF Written, BackfillInv, Counted
    <2> QED
      BY <2>1, <2>2
  <1> QED
    BY <1>2, <1>3, <1>8, <1>9 DEF rows
\* The cursor moves to the last key of the page.
LEMMA CursorMoves ==
  ASSUME NEW state \in States, NEW page \in TokenPages, Valid(state, page)
  PROVE  /\ CursorAfter(state, page) \in 0..NumTokenKey /\ state.cursor <= CursorAfter(state, page)
         /\ \A k \in DOMAIN page.rows : k <= CursorAfter(state, page)
         /\ CursorAfter(state, page) \in DOMAIN page.rows \/ (DOMAIN page.rows = {} /\ CursorAfter(state, page) = state.cursor)
  <1>1. DOMAIN page.rows \subseteq TokenKey /\ state.cursor \in 0..NumTokenKey /\ NumTokenKey \in Nat
    BY RowsAre, BackfillAssumption DEF TokenPages, States
  <1>2. CASE DOMAIN page.rows = {}
    BY <1>1, <1>2 DEF CursorAfter
  <1>3. CASE DOMAIN page.rows # {}
    <2>1. PICK k \in DOMAIN page.rows : \A j \in DOMAIN page.rows : j <= k
      BY <1>1, <1>3, GreatestKey
    <2>2. CursorAfter(state, page) \in DOMAIN page.rows /\ \A j \in DOMAIN page.rows : j <= CursorAfter(state, page)
      BY <1>3, <2>1 DEF CursorAfter
    <2>3. state.cursor < CursorAfter(state, page)
      BY <2>2 DEF Valid
    <2> QED
      BY <1>1, <2>2, <2>3 DEF TokenKey
  <1> QED
    BY <1>2, <1>3

LEMMA ApplyScannedKeeps ==
  ASSUME BackfillInv, NEW b \in Backfill, ApplyScanned(b)
  PROVE  BackfillInv' /\ \A k \in TokenKey : tokenRow[k].total <= tokenRow'[k].total
  <1> DEFINE state == history[b].state
             page == history[b].page
             next == [state EXCEPT !.cursor = CursorAfter(state, page), !.complete = page.complete]
  <1>0. /\ asOf' = asOf /\ tokenRevision' = tokenRevision /\ tally' = tally
        /\ history[b].at = "page" /\ ~OtherSource(b)
    BY DEF ApplyScanned
  <1>1. CASE Valid(state, page) /\ IsExpected(state)
    <2>1. /\ tokenRow' = UpsertRows(tokenRow, page.rows, state.revision)
          /\ progress' = [progress EXCEPT !.cursor = next.cursor, !.complete = next.complete]
          /\ IF next.complete THEN history' = [history EXCEPT ![b] = NoHistory]
             ELSE history' = [history EXCEPT ![b].at = "collect", ![b].state = next,
                                             ![b].after = next.cursor, ![b].page = NoPage]
      BY <1>1 DEF ApplyScanned, EndHistory
    <2>2. /\ history \in [Backfill -> Histories] /\ history[b] \in Histories /\ PageOK(history[b])
          /\ state \in States /\ page \in TokenPages /\ progress = state /\ page.source = state.source
          /\ history[b].after <= state.cursor
      BY <1>0, <1>1 DEF BackfillInv, HistoriesOK, HistoryFits, Histories, IsExpected, OtherSource
    <2>3. /\ CursorAfter(state, page) \in 0..NumTokenKey /\ state.cursor <= CursorAfter(state, page)
          /\ \A k \in DOMAIN page.rows : k <= CursorAfter(state, page)
          /\ CursorAfter(state, page) \in DOMAIN page.rows \/ (DOMAIN page.rows = {} /\ CursorAfter(state, page) = state.cursor)
      BY <1>1, <2>2, CursorMoves
    <2>4. /\ tokenRow' \in [TokenKey -> [total : Nat, revision : Nat]]
          /\ \A k \in TokenKey : Written(k)
          /\ progress.source \in 1..SourceGeneration
          /\ \A k \in TokenKey : tokenRow'[k] = tokenRow[k] \/ tokenRow'[k].total = asOf[progress.source][k]
          /\ \A k \in DOMAIN page.rows : k \in TokenKey /\ asOf[progress.source][k] <= tokenRow'[k].total
      BY <1>0, <1>1, <2>1, PageWrites
    <2>5. /\ next \in States /\ next.cursor = CursorAfter(state, page) /\ next.complete = page.complete
          /\ next.source = state.source /\ next.revision = state.revision
      BY <2>2, <2>3 DEF States, TokenPages
    <2>6. progress' = next
      BY <2>1, <2>2, <2>5
    <2> HIDE DEF next
    <2>7. /\ SourceOK' /\ RowsOK' /\ Counted' /\ \A k \in TokenKey : tokenRow[k].total <= tokenRow'[k].total
          /\ \A h : HistoryFits(h) => HistoryFits(h)'
          /\ States' = States /\ Histories' = Histories /\ Tallies' = Tallies
      BY <1>0, <2>2, <2>4, <2>5, <2>6, RowsWritten
    <2>8. /\ \A k \in TokenKey : tokenRow[k].total \in Nat /\ tokenRow'[k].total \in Nat /\ k \in Nat
          /\ \A k \in TokenKey : asOf[progress.source][k] \in Nat
          /\ state.cursor \in Nat /\ history[b].after \in Nat /\ progress.source > 0
      <3>1. \A k \in TokenKey : tokenRow[k].total \in Nat /\ tokenRow'[k].total \in Nat
        BY <2>4 DEF BackfillInv, RowsOK
      <3>2. /\ \A k \in TokenKey : k \in Nat /\ asOf[progress.source][k] \in Nat
            /\ progress.source > 0
        BY <2>4, TranscriptsAre, BackfillAssumption DEF BackfillInv, TokenKey
      <3>3. state.cursor \in Nat /\ history[b].after \in Nat
        BY <2>2, BackfillAssumption DEF States, Histories
      <3> QED
        BY <3>1, <3>2, <3>3
    <2>9. BehindCursorCovered'
      <3>1. ASSUME NEW k \in TokenKey, k <= next.cursor \/ next.complete
            PROVE  asOf[progress.source][k] <= tokenRow'[k].total
        <4>1. CASE k \in DOMAIN page.rows
          BY <2>4, <4>1
        <4>2. CASE k <= state.cursor
          <5>1. asOf[progress.source][k] <= tokenRow[k].total
            BY <2>2, <2>8, <4>2 DEF BackfillInv, BehindCursorCovered
          <5> QED
            BY <2>7, <2>8, <5>1
        <4>3. CASE k \notin DOMAIN page.rows /\ ~(k <= state.cursor)
          <5>1. k > history[b].after
            BY <2>2, <2>8, <4>3
          <5>2. asOf[progress.source][k] > 0 => ~page.complete /\ \A j \in DOMAIN page.rows : j < k
            BY <2>2, <4>3, <5>1 DEF PageOK
          <5>3. asOf[progress.source][k] > 0 => CursorAfter(state, page) < k
            BY <2>3, <2>8, <4>3, <5>2
          <5>4. ~(asOf[progress.source][k] > 0)
            BY <2>3, <2>5, <2>8, <3>1, <5>2, <5>3
          <5> QED
            BY <2>8, <5>4
        <4> QED
          BY <4>1, <4>2, <4>3
      <3> QED
        BY <1>0, <2>2, <2>5, <2>6, <3>1, <2>8 DEF BehindCursorCovered, TokenKey
    <2>10. HistoriesOK'
      <3>1. CASE history' = [history EXCEPT ![b] = NoHistory]
        BY <2>7, <3>1, NothingHeld, HistoriesFollow DEF BackfillInv
      <3>2. ASSUME NEW h, h = [history[b] EXCEPT !.at = "collect", !.state = next, !.after = next.cursor, !.page = NoPage],
                   history' = [history EXCEPT ![b] = h]
            PROVE  HistoriesOK'
        <4>1. next.cursor \in 0..NumTokenKey /\ NoPage \in TokenPages
          BY <2>3, <2>5, NothingHeld
        <4>2. h \in Histories /\ h.at = "collect" /\ h.after = next.cursor /\ h.state = next
          BY <2>2, <2>5, <3>2, <4>1 DEF Histories
        <4>3. HistoryFits(h)'
          BY <2>7, <4>1, <4>2, BackfillAssumption DEF HistoryFits
        <4> QED
          BY <2>7, <3>2, <4>3, HistoriesFollow DEF BackfillInv
      <3> QED
        BY <2>1, <2>2, <3>1, <3>2, ZenonT(40)
    <2>11. TalliesOK'
      <3>1. ASSUME NEW t \in Tallies, TallyFits(t) PROVE TallyFits(t)'
        <4>1. SUFFICES ASSUME t.at = "store", t.revision = tokenRevision, NEW k \in DOMAIN t.rows
                       PROVE  /\ tokenRow'[k].total <= t.rows[k] /\ t.rows[k] <= Transcripts[k]
                              /\ asOf[progress.source][k] <= t.rows[k]
          BY <1>0, <2>2, <2>5, <2>6 DEF TallyFits, Transcripts, SourceGeneration
        <4>2. /\ tokenRow[k].total <= t.rows[k] /\ t.rows[k] <= Transcripts[k]
              /\ asOf[progress.source][k] <= t.rows[k]
          BY <2>8, <3>1, <4>1 DEF TallyFits
        <4>3. k \in TokenKey
          BY <4>1, RowsAre DEF Tallies
        <4> QED
          BY <2>4, <4>2, <4>3
      <3> QED
        BY <1>0, <2>7, <3>1 DEF BackfillInv, TalliesOK
    <2> QED
      BY <2>5, <2>6, <2>7, <2>9, <2>10, <2>11 DEF BackfillInv
  <1>2. CASE ~(Valid(state, page) /\ IsExpected(state))
    <2>1. history' = [history EXCEPT ![b] = NoHistory] /\ tokenRow' = tokenRow /\ progress' = progress
      BY <1>2 DEF ApplyScanned, EndHistory
    <2>2. BackfillInv'
      BY <1>0, <2>1, NothingHeld, HistoryMoves
    <2>3. \A k \in TokenKey : tokenRow[k].total \in Nat
      BY DEF BackfillInv, RowsOK
    <2> QED
      BY <2>1, <2>2, <2>3
  <1> QED
    BY <1>1, <1>2
-------------------------------------------------------------------------------
(* The observers, and the agents.                                          *)

LEMMA BeginTallyKeeps ==
  ASSUME BackfillInv, NEW o \in Observer, BeginTally(o)
  PROVE  BackfillInv'
  <1> SUFFICES ASSUME NEW t, t = [NoTally EXCEPT !.at = "scan", !.revision = tokenRevision + 1]
               PROVE  BackfillInv'
    OBVIOUS
  <1>1. /\ Bounded /\ tokenRevision' = tokenRevision + 1 /\ tally' = [tally EXCEPT ![o] = t]
        /\ asOf' = asOf /\ tokenRow' = tokenRow /\ progress' = progress /\ history' = history
    BY DEF BeginTally
  <1>2. /\ SourceOK' /\ RowsOK' /\ progress' \in States' /\ Counted' /\ BehindCursorCovered'
        /\ \A h : HistoryFits(h) => HistoryFits(h)'
        /\ Tallies \subseteq Tallies' /\ \A u \in Tallies : TallyFits(u)'
    BY <1>1, RevisionReserved
  <1>3. HistoriesOK'
    BY <1>1, <1>2 DEF BackfillInv, HistoriesOK, HistoryFits
  <1>4. tally \in [Observer -> Tallies] /\ tokenRevision \in Nat
    BY DEF BackfillInv, TalliesOK, SourceOK
  <1>5. t \in Tallies' /\ t.at = "scan" /\ t.revision = tokenRevision + 1
    <2>1. NoTally \in Tallies' /\ tokenRevision + 1 \in 0..tokenRevision'
      BY <1>1, <1>2, <1>4, NothingHeld
    <2> QED
      BY <2>1 DEF Tallies
  <1>6. TallyFits(t)'
    BY <1>5 DEF TallyFits
  <1>7. \A p \in Observer : tally[p].revision <= tokenRevision /\ tally[p].revision \in Nat
    BY <1>4 DEF Tallies
  <1>8. TalliesOK'
    <2>1. tally' \in [Observer -> Tallies'] /\ tally'[o] = t /\ \A p \in Observer : p # o => tally'[p] = tally[p]
      BY <1>1, <1>2, <1>4, <1>5
    <2>2. \A p \in Observer : TallyFits(tally[p])'
      <3>1. ASSUME NEW p \in Observer, NEW u, u = tally'[p] PROVE u.at = "store" => u.revision # tokenRevision'
        BY <1>1, <1>4, <1>5, <1>7, <2>1, <3>1
      <3> QED
        BY <3>1 DEF TallyFits
    <2>3. \A p, q \in Observer : p # q /\ tally'[p].at # "idle" /\ tally'[q].at # "idle" =>
            tally'[p].revision # tally'[q].revision
      <3>1. \A p \in Observer : tally[p].revision # t.revision
        BY <1>4, <1>5, <1>7
      <3>2. \A p \in Observer : p = o \/ tally'[p] = tally[p]
        BY <2>1
      <3> QED
        BY <2>1, <3>1, <3>2, ZenonT(40) DEF BackfillInv, TalliesOK
    <2> QED
      BY <2>1, <2>2, <2>3 DEF TalliesOK
  <1> QED
    BY <1>2, <1>3, <1>8 DEF BackfillInv

\* A step that changes one observer's own record only, and not its revision.
LEMMA TallyMoves ==
  ASSUME BackfillInv, NEW o \in Observer, NEW t \in Tallies, TallyFits(t),
         t.at = "idle" \/ (t.revision = tally[o].revision /\ tally[o].at # "idle"),
         asOf' = asOf, tokenRevision' = tokenRevision, tokenRow' = tokenRow, progress' = progress,
         history' = history, tally' = [tally EXCEPT ![o] = t]
  PROVE  BackfillInv'
  <1>1. /\ SourceOK' /\ RowsOK' /\ progress' \in States' /\ Counted' /\ BehindCursorCovered' /\ HistoriesOK'
    BY DEF BackfillInv, SourceOK, RowsOK, States, Counted, BehindCursorCovered, HistoriesOK, HistoryFits, Histories,
       TokenPages, TokenRows, TokenKey, Transcripts, SourceGeneration, PageOK, PageIsNewest
  <1>2. /\ tally' \in [Observer -> Tallies] /\ tally'[o] = t /\ \A p \in Observer : p # o => tally'[p] = tally[p]
        /\ Tallies' = Tallies
    BY DEF BackfillInv, TalliesOK, Tallies, TokenRows, TokenKey
  <1>3. \A p \in Observer : TallyFits(tally'[p])
    BY <1>2 DEF BackfillInv, TalliesOK
  <1>4. \A p \in Observer : TallyFits(tally[p])'
    BY <1>3 DEF TallyFits, Transcripts, SourceGeneration
  <1>5. \A p, q \in Observer : p # q /\ tally'[p].at # "idle" /\ tally'[q].at # "idle" =>
          tally'[p].revision # tally'[q].revision
    BY <1>2 DEF BackfillInv, TalliesOK
  <1>6. TalliesOK'
    BY <1>2, <1>4, <1>5 DEF TalliesOK
  <1> QED
    BY <1>1, <1>6 DEF BackfillInv

LEMMA ScanRecentKeeps ==
  ASSUME BackfillInv, NEW o \in Observer, ScanRecent(o)
  PROVE  BackfillInv'
  <1>1. PICK since \in TokenKey :
          tally' = [tally EXCEPT ![o].at = "store", ![o].rows = Tallied({k \in TokenKey : k >= since /\ Transcripts[k] > 0})]
    BY DEF ScanRecent
  <1> DEFINE recent == {k \in TokenKey : k >= since /\ Transcripts[k] > 0}
  <1>2. /\ Tallied(recent) \in TokenRows /\ DOMAIN Tallied(recent) = recent
        /\ \A k \in recent : Tallied(recent)[k] = Transcripts[k]
    BY TalliedRows DEF BackfillInv
  <1>3. tally \in [Observer -> Tallies] /\ tally[o] \in Tallies /\ tally[o].at = "scan"
    BY DEF BackfillInv, TalliesOK, ScanRecent
  <1> DEFINE rows == Tallied(recent)
             t == [tally[o] EXCEPT !.at = "store", !.rows = rows]
  <1>4. tally' = [tally EXCEPT ![o] = t]
    BY <1>1, <1>3
  <1> HIDE DEF rows
  <1>5. t \in Tallies /\ t.at = "store" /\ t.rows = rows /\ t.revision = tally[o].revision
    BY <1>2, <1>3 DEF Tallies, rows
  <1> HIDE DEF t
  <1>6. TallyFits(t)
    <2>1. \A k \in recent : k \in TokenKey
      OBVIOUS
    <2>2. progress.source \in 0..SourceGeneration
      BY DEF BackfillInv, States
    <2>3. \A k \in TokenKey : /\ tokenRow[k].total <= Transcripts[k] /\ Transcripts[k] <= Transcripts[k]
                              /\ progress.source > 0 => asOf[progress.source][k] <= Transcripts[k]
      BY <2>2, TranscriptsAre DEF BackfillInv, RowsOK
    <2> HIDE DEF recent
    <2> QED
      BY <1>2, <1>5, <2>1, <2>3 DEF TallyFits, rows
  <1> QED
    BY <1>3, <1>4, <1>5, <1>6, TallyMoves DEF ScanRecent

LEMMA EndObservationKeeps ==
  ASSUME BackfillInv, NEW o \in Observer, EndObservation(o)
  PROVE  BackfillInv'
  BY NothingHeld, TallyMoves DEF EndObservation, EndTally

LEMMA StoreTallyKeeps ==
  ASSUME BackfillInv, NEW o \in Observer, StoreTally(o)
  PROVE  BackfillInv' /\ \A k \in TokenKey : tokenRow[k].total <= tokenRow'[k].total
  <1> DEFINE rows == tally[o].rows
  <1>1. PICK k \in DOMAIN rows :
          /\ tokenRow' = IF tokenRevision = tally[o].revision
                         THEN UpsertRows(tokenRow, [j \in {k} |-> rows[j]], tally[o].revision) ELSE tokenRow
          /\ tally' = [tally EXCEPT ![o].rows = [j \in DOMAIN rows \ {k} |-> rows[j]]]
    BY DEF StoreTally
  <1>2. /\ tally \in [Observer -> Tallies] /\ tally[o] \in Tallies /\ tally[o].at = "store" /\ TallyFits(tally[o])
        /\ asOf' = asOf /\ tokenRevision' = tokenRevision /\ progress' = progress /\ history' = history
    BY DEF BackfillInv, TalliesOK, StoreTally
  <1>3. rows \in TokenRows /\ k \in TokenKey /\ DOMAIN rows \subseteq TokenKey /\ \A j \in DOMAIN rows : rows[j] \in 1..MaxAppend + 1
    BY <1>2, RowsAre DEF Tallies
  <1>4. /\ \A j \in TokenKey : tokenRow[j].total \in Nat /\ tokenRow[j].revision \in Nat
        /\ tokenRow \in [TokenKey -> [total : Nat, revision : Nat]]
        /\ progress.revision \in Nat /\ progress.revision <= tokenRevision /\ tokenRevision \in Nat
        /\ rows[k] \in Nat
    <2>1. tokenRow \in [TokenKey -> [total : Nat, revision : Nat]]
      BY DEF BackfillInv, RowsOK
    <2>2. progress.revision \in Nat /\ progress.revision <= tokenRevision /\ tokenRevision \in Nat
      BY DEF BackfillInv, States, RowsOK, SourceOK
    <2>3. rows[k] \in Nat
      BY <1>3, BackfillAssumption
    <2> QED
      BY <2>1, <2>2, <2>3
  <1>5. /\ tokenRow' \in [TokenKey -> [total : Nat, revision : Nat]]
        /\ \A j \in TokenKey : j # k => tokenRow'[j] = tokenRow[j]
        /\ \/ tokenRow'[k] = tokenRow[k]
           \/ /\ tokenRevision = tally[o].revision
              /\ tokenRow'[k].total = rows[k] /\ tokenRow'[k].revision = tokenRevision
    <2>1. CASE tokenRevision = tally[o].revision
      <3> DEFINE row == [total |-> rows[k], revision |-> tokenRevision]
      <3>1. row \in [total : Nat, revision : Nat] /\ row.total = rows[k] /\ row.revision = tokenRevision
        BY <1>4
      <3>2. /\ tokenRow' = [j \in TokenKey |-> tokenRow'[j]]
            /\ \A j \in TokenKey : j # k => tokenRow'[j] = tokenRow[j]
            /\ tokenRow'[k] \in {row, tokenRow[k]}
        BY <1>1, <1>3, <2>1 DEF UpsertRows
      <3> HIDE DEF row
      <3>3. \A j \in TokenKey : tokenRow'[j] \in [total : Nat, revision : Nat]
        BY <1>4, <3>1, <3>2
      <3>4. tokenRow' \in [TokenKey -> [total : Nat, revision : Nat]]
        BY <3>2, <3>3
      <3> QED
        BY <2>1, <3>1, <3>2, <3>4
    <2>2. CASE tokenRevision # tally[o].revision
      BY <1>1, <1>3, <1>4, <2>2
    <2> QED
      BY <2>1, <2>2
  <1>6. tokenRevision = tally[o].revision =>
          /\ tokenRow[k].total <= rows[k] /\ rows[k] <= Transcripts[k]
          /\ progress.source > 0 => asOf[progress.source][k] <= rows[k]
    BY <1>2 DEF TallyFits
  <1>7. \A j \in TokenKey : Written(j)
    BY <1>4, <1>5, <1>6 DEF Written
  <1>8. /\ SourceOK' /\ RowsOK' /\ Counted' /\ \A j \in TokenKey : tokenRow[j].total <= tokenRow'[j].total
        /\ \A h : HistoryFits(h) => HistoryFits(h)'
        /\ States' = States /\ Histories' = Histories /\ Tallies' = Tallies
    BY <1>2, <1>5, <1>7, RowsWritten
  <1>9. HistoriesOK'
    BY <1>2, <1>8 DEF BackfillInv, HistoriesOK
  <1>10. BehindCursorCovered'
    <2>1. progress.source > 0 => \A j \in TokenKey : asOf[progress.source][j] \in Nat
      BY TranscriptsAre DEF BackfillInv, States
    <2>2. \A j \in TokenKey : tokenRow'[j].total \in Nat
      BY <1>5
    <2> QED
      BY <1>2, <1>4, <1>8, <2>1, <2>2 DEF BackfillInv, BehindCursorCovered, TokenKey
  <1>11. TalliesOK'
    <2> DEFINE left == [j \in DOMAIN rows \ {k} |-> rows[j]]
    <2>1. left \in TokenRows /\ DOMAIN left = DOMAIN rows \ {k} /\ \A j \in DOMAIN left : left[j] = rows[j]
      <3>1. DOMAIN rows \ {k} \in SUBSET TokenKey /\ left \in [DOMAIN rows \ {k} -> 1..MaxAppend + 1]
        BY <1>3
      <3> QED
        BY <3>1, RowsAre
    <2> HIDE DEF left
    <2>2. ASSUME NEW t, t = [tally[o] EXCEPT !.rows = left] PROVE TalliesOK'
      <3>1. t \in Tallies /\ t.at = "store" /\ t.revision = tally[o].revision /\ t.rows = left
        BY <1>2, <2>1, <2>2 DEF Tallies
      <3>2. tally' = [tally EXCEPT ![o] = t]
        BY <1>1, <1>2, <2>2 DEF left
      <3>3. tally' \in [Observer -> Tallies] /\ tally'[o] = t /\ \A p \in Observer : p # o => tally'[p] = tally[p]
        BY <1>2, <3>1, <3>2
      <3>4. \A p, q \in Observer : p # q /\ tally'[p].at # "idle" /\ tally'[q].at # "idle" =>
              tally'[p].revision # tally'[q].revision
        BY <1>2, <3>1, <3>3 DEF BackfillInv, TalliesOK
      <3>5. ASSUME NEW p \in Observer PROVE TallyFits(tally[p])'
        <4>1. SUFFICES ASSUME tally'[p].at = "store", tally'[p].revision = tokenRevision,
                              NEW j \in DOMAIN tally'[p].rows
                       PROVE  /\ tokenRow'[j].total <= tally'[p].rows[j] /\ tally'[p].rows[j] <= Transcripts[j]
                              /\ progress.source > 0 => asOf[progress.source][j] <= tally'[p].rows[j]
          BY <1>2 DEF TallyFits, Transcripts, SourceGeneration
        <4>2. tally[p] \in Tallies /\ TallyFits(tally[p])
          BY <1>2 DEF BackfillInv, TalliesOK
        <4>3. CASE p = o
          <5>1. j \in DOMAIN rows /\ j # k /\ tally'[p].rows[j] = rows[j] /\ j \in TokenKey
            BY <1>3, <2>1, <3>1, <3>3, <4>1, <4>3
          <5>2. tally[o].revision = tokenRevision
            BY <3>1, <3>3, <4>1, <4>3
          <5> QED
            BY <1>2, <1>5, <5>1, <5>2 DEF TallyFits
        <4>4. CASE p # o
          <5>1. tally'[p] = tally[p] /\ j \in DOMAIN tally[p].rows /\ j \in TokenKey
            BY <3>3, <4>1, <4>2, <4>4, RowsAre DEF Tallies
          <5>2. tally[p].at # "idle" /\ tally[o].revision # tokenRevision
            BY <1>2, <4>1, <4>4, <5>1 DEF BackfillInv, TalliesOK
          <5>3. tokenRow'[j] = tokenRow[j]
            BY <1>5, <5>1, <5>2
          <5> QED
            BY <4>1, <4>2, <5>1, <5>3 DEF TallyFits
        <4> QED
          BY <4>3, <4>4
      <3> QED
        BY <1>8, <3>3, <3>4, <3>5 DEF TalliesOK
    <2> QED
      BY <2>2
  <1> QED
    BY <1>2, <1>8, <1>9, <1>10, <1>11 DEF BackfillInv
LEMMA GrowKeeps ==
  ASSUME BackfillInv, NEW k \in TokenKey, Grow(k)
  PROVE  BackfillInv'
  <1> DEFINE n == SourceGeneration
             grown == [Transcripts EXCEPT ![k] = @ + 1]
  <1>1. /\ Bounded /\ asOf' = Append(asOf, grown) /\ tokenRevision' = tokenRevision /\ tokenRow' = tokenRow
        /\ progress' = progress /\ history' = history /\ tally' = tally
    BY DEF Grow
  <1>2. /\ asOf \in Seq([TokenKey -> Nat]) /\ n \in Nat /\ n >= 1 /\ Transcripts \in [TokenKey -> Nat]
        /\ tokenRevision \in Nat
    BY TranscriptsAre DEF BackfillInv, SourceOK, Transcripts, SourceGeneration
  <1>3. grown \in [TokenKey -> Nat] /\ \A j \in TokenKey : Transcripts[j] <= grown[j] /\ grown[j] <= n + 1
    <2>1. \A j \in TokenKey : Transcripts[j] <= n
      BY <1>2 DEF BackfillInv, SourceOK, Transcripts, SourceGeneration
    <2> QED
      BY <1>2, <2>1
  <1> HIDE DEF grown
  <1>4. /\ asOf' \in Seq([TokenKey -> Nat]) /\ Len(asOf)' = n + 1 /\ SourceGeneration' = n + 1
        /\ asOf'[n + 1] = grown /\ \A g \in 1..n : asOf'[g] = asOf[g]
        /\ Transcripts' = grown
    BY <1>1, <1>2, <1>3 DEF SourceGeneration, Transcripts
  <1>5. SourceOK'
    <2>1. \A g \in 1..n : \A j \in TokenKey : asOf[g][j] \in Nat /\ asOf[g][j] <= grown[j] /\ asOf[g][j] <= g
      BY <1>2, <1>3, TranscriptsAre, SMTT(30) DEF BackfillInv, SourceOK, SourceGeneration
    <2>2. \A g \in 1..(n + 1) : g \in 1..n \/ g = n + 1
      BY <1>2
    <2>3. \A g \in 1..(n + 1) : \A j \in TokenKey : asOf'[g][j] <= g
      BY <1>3, <1>4, <2>1, <2>2
    <2>4. \A g, h \in 1..(n + 1) : g <= h => \A j \in TokenKey : asOf'[g][j] <= asOf'[h][j]
      <3>1. SUFFICES ASSUME NEW g \in 1..(n + 1), NEW h \in 1..(n + 1), g <= h, NEW j \in TokenKey
                     PROVE  asOf'[g][j] <= asOf'[h][j]
        OBVIOUS
      <3>2. CASE h = n + 1
        <4>1. asOf'[h][j] = grown[j] /\ grown[j] \in Nat
          BY <1>3, <1>4, <3>2
        <4>2. CASE g \in 1..n
          BY <1>4, <2>1, <4>1, <4>2
        <4>3. CASE g = n + 1
          BY <1>4, <4>1, <4>3
        <4> QED
          BY <2>2, <4>2, <4>3
      <3>3. CASE h \in 1..n
        <4>1. g \in 1..n
          BY <1>2, <3>1, <3>3
        <4> QED
          BY <1>4, <3>1, <3>3, <4>1 DEF BackfillInv, SourceOK, SourceGeneration
      <3> QED
        BY <2>2, <3>2, <3>3
    <2>5. Len(asOf)' - 1 + tokenRevision <= MaxAppend
      BY <1>1, <1>2, <1>4, BackfillAssumption DEF Bounded
    <2> QED
      BY <1>1, <1>2, <1>4, <2>3, <2>4, <2>5 DEF SourceOK, TokenKey
  <1>6. /\ States \subseteq States' /\ Histories \subseteq Histories' /\ Tallies \subseteq Tallies'
    BY <1>1, <1>2, <1>4, Wider DEF SourceGeneration
  <1>7. progress' \in States' /\ progress.source \in 0..n
    BY <1>1, <1>6 DEF BackfillInv, States
  <1>8. progress.source > 0 => progress.source \in 1..n /\ asOf'[progress.source] = asOf[progress.source]
    BY <1>2, <1>4, <1>7
  <1>9. RowsOK'
    <2>1. \A j \in TokenKey : tokenRow[j].total \in Nat /\ Transcripts[j] \in Nat /\ grown[j] \in Nat
                              /\ tokenRow[j].total <= Transcripts[j] /\ Transcripts[j] <= grown[j]
      BY <1>2, <1>3 DEF BackfillInv, RowsOK
    <2>2. \A j \in TokenKey : tokenRow[j].total <= grown[j]
      BY <2>1
    <2> QED
      BY <1>1, <1>4, <2>2 DEF BackfillInv, RowsOK, TokenKey
  <1>10. Counted' /\ BehindCursorCovered'
    BY <1>1, <1>8 DEF BackfillInv, Counted, BehindCursorCovered, TokenKey
  <1>11. HistoriesOK'
    <2>1. ASSUME NEW h, HistoryFits(h) PROVE HistoryFits(h)'
      <3>1. h.at = "page" => PageOK(h)'
        <4>1. 1..n \subseteq 1..(n + 1)
          BY <1>2
        <4> QED
          BY <1>4, <2>1, <4>1 DEF HistoryFits, PageOK, TokenKey
      <3>2. h.at = "page" => PageIsNewest(h)'
        <4>1. h.at = "page" => h.page.source \in 1..n
          BY <2>1 DEF HistoryFits, PageOK
        <4> QED
          BY <1>1, <1>4, <2>1, <4>1 DEF HistoryFits, PageIsNewest, TokenKey
      <3> QED
        BY <1>6, <2>1, <3>1, <3>2 DEF HistoryFits
    <2> QED
      BY <1>1, <1>6, <2>1 DEF BackfillInv, HistoriesOK
  <1>12. TalliesOK'
    <2>1. ASSUME NEW t \in Tallies, TallyFits(t) PROVE TallyFits(t)'
      <3>1. \A j \in DOMAIN t.rows : j \in TokenKey /\ t.rows[j] \in Nat
        BY RowsAre, BackfillAssumption DEF Tallies
      <3>2. SUFFICES ASSUME t.at = "store", t.revision = tokenRevision, NEW j \in DOMAIN t.rows
                     PROVE  /\ tokenRow[j].total <= t.rows[j] /\ t.rows[j] <= grown[j]
                            /\ progress.source > 0 => asOf'[progress.source][j] <= t.rows[j]
        BY <1>1, <1>4 DEF TallyFits
      <3>3. /\ tokenRow[j].total <= t.rows[j] /\ t.rows[j] <= Transcripts[j]
            /\ progress.source > 0 => asOf[progress.source][j] <= t.rows[j]
        BY <2>1, <3>2 DEF TallyFits
      <3>4. t.rows[j] <= grown[j]
        BY <1>2, <1>3, <3>1, <3>3
      <3> QED
        BY <1>8, <3>3, <3>4
    <2> QED
      BY <1>1, <1>6, <2>1 DEF BackfillInv, TalliesOK
  <1> QED
    BY <1>5, <1>7, <1>9, <1>10, <1>11, <1>12 DEF BackfillInv

-------------------------------------------------------------------------------
(* The theorems.                                                           *)

LEMMA BackfillStutters ==
  ASSUME BackfillInv, UNCHANGED backfillVars
  PROVE  BackfillInv'
  BY ZenonT(40) DEF backfillVars, BackfillInv, SourceOK, RowsOK, States, Counted, BehindCursorCovered, HistoriesOK, HistoryFits,
     Histories, TokenPages, TokenRows, TokenKey, Transcripts, SourceGeneration, PageOK, PageIsNewest, TalliesOK, TallyFits, Tallies

LEMMA BackfillSteps ==
  ASSUME BackfillInv, [BackfillNext]_backfillVars
  PROVE  BackfillInv' /\ \A k \in TokenKey : tokenRow[k].total <= tokenRow'[k].total
  <1>0. \A k \in TokenKey : tokenRow[k].total \in Nat
    BY DEF BackfillInv, RowsOK
  <1>1. ASSUME NEW k \in TokenKey, Grow(k) PROVE BackfillInv' /\ tokenRow' = tokenRow
    BY <1>1, GrowKeeps DEF Grow
  <1>2. ASSUME NEW b \in Backfill, StartBackfill(b) PROVE BackfillInv' /\ tokenRow' = tokenRow
    BY <1>2, StartBackfillKeeps DEF StartBackfill
  <1>3. ASSUME NEW b \in Backfill, BeginProfile(b) PROVE BackfillInv' /\ tokenRow' = tokenRow
    BY <1>3, BeginProfileKeeps DEF BeginProfile
  <1>4. ASSUME NEW b \in Backfill, CollectPage(b) PROVE BackfillInv' /\ tokenRow' = tokenRow
    BY <1>4, CollectPageKeeps DEF CollectPage
  <1>5. ASSUME NEW b \in Backfill, RestartGeneration(b) PROVE BackfillInv' /\ tokenRow' = tokenRow
    BY <1>5, RestartGenerationKeeps DEF RestartGeneration
  <1>6. ASSUME NEW b \in Backfill, StopBackfill(b) PROVE BackfillInv' /\ tokenRow' = tokenRow
    BY <1>6, StopBackfillKeeps DEF StopBackfill
  <1>7. ASSUME NEW o \in Observer, BeginTally(o) PROVE BackfillInv' /\ tokenRow' = tokenRow
    BY <1>7, BeginTallyKeeps DEF BeginTally
  <1>8. ASSUME NEW o \in Observer, ScanRecent(o) PROVE BackfillInv' /\ tokenRow' = tokenRow
    BY <1>8, ScanRecentKeeps DEF ScanRecent
  <1>9. ASSUME NEW o \in Observer, EndObservation(o) PROVE BackfillInv' /\ tokenRow' = tokenRow
    BY <1>9, EndObservationKeeps DEF EndObservation
  <1>10. CASE UNCHANGED backfillVars
    BY <1>10, BackfillStutters, <1>0 DEF backfillVars
  <1>11. CASE BackfillInv' /\ tokenRow' = tokenRow
    BY <1>0, <1>11
  <1> QED
    BY <1>1, <1>2, <1>3, <1>4, <1>5, <1>6, <1>7, <1>8, <1>9, <1>10, <1>11, ApplyScannedKeeps, StoreTallyKeeps
       DEF BackfillNext, BackfillStep

LEMMA TypesFollow == BackfillInv => BackfillTypeOK
  <1> SUFFICES ASSUME BackfillInv PROVE BackfillTypeOK
    OBVIOUS
  <1>1. \A g \in 1..SourceGeneration : asOf[g] \in [TokenKey -> 0..MaxAppend + 1]
    <2>1. \A g \in 1..SourceGeneration : asOf[g] \in [TokenKey -> Nat]
      BY DEF BackfillInv, SourceOK, SourceGeneration
    <2>2. \A g \in 1..SourceGeneration : \A k \in TokenKey : asOf[g][k] \in 0..MaxAppend + 1
      BY TranscriptsAre, BackfillAssumption DEF BackfillInv
    <2> QED
      BY <2>1, <2>2
  <1>2. tokenRevision \in 0..MaxAppend
    BY BackfillAssumption DEF BackfillInv, SourceOK
  <1>3. tokenRow \in [TokenKey -> [total : 0..MaxAppend + 1, revision : 0..tokenRevision]]
    <2>1. \A k \in TokenKey : tokenRow[k].total \in 0..MaxAppend + 1 /\ tokenRow[k].revision \in 0..tokenRevision
      BY <1>2, TranscriptsAre, BackfillAssumption DEF BackfillInv, RowsOK
    <2> QED
      BY <2>1 DEF BackfillInv, RowsOK
  <1>4. progress \in States
    BY DEF BackfillInv
  <1>5. \A b \in Backfill :
          /\ history[b].at \in {"idle", "begin", "collect", "page"}
          /\ history[b].state \in States /\ history[b].page.rows \in TokenRows
          /\ history[b].restarts \in 0..BackfillRestarts
    BY DEF BackfillInv, HistoriesOK, Histories, TokenPages
  <1>6. \A o \in Observer : tally[o].at \in {"idle", "scan", "store"} /\ tally[o].rows \in TokenRows
    BY DEF BackfillInv, TalliesOK, Tallies
  <1> QED
    BY <1>1, <1>2, <1>3, <1>4, <1>5, <1>6 DEF BackfillTypeOK, States, TokenRows

\* The invariant holds of every behaviour, and with it the types of the variables
\* and what a reader behind the cursor relies on (ops.rs, store/sqlite.rs).
THEOREM BackfillInvariant == BackfillSpec => [](BackfillInv /\ BackfillTypeOK /\ BehindCursorCovered)
  <1>1. BackfillInv /\ [BackfillNext]_backfillVars => BackfillInv'
    BY BackfillSteps
  <1>2. BackfillInv => BackfillTypeOK /\ BehindCursorCovered
    BY TypesFollow DEF BackfillInv
  <1> QED
    BY BackfillInitial, <1>1, <1>2, PTL DEF BackfillSpec

\* No writer, however slow, replaces a total by one that was read earlier
\* (upsert_token_at_revision, apply_sqlite_token_backfill_page).
THEOREM TotalsOnlyGrow == BackfillSpec => TotalsNeverShrink
  <1>1. BackfillInv /\ [BackfillNext]_backfillVars =>
          [\A k \in TokenKey : tokenRow'[k].total >= tokenRow[k].total]_backfillVars
    <2> SUFFICES ASSUME BackfillInv, [BackfillNext]_backfillVars
                 PROVE  \A k \in TokenKey : tokenRow'[k].total >= tokenRow[k].total
      OBVIOUS
    <2>1. BackfillInv' /\ \A k \in TokenKey : tokenRow[k].total <= tokenRow'[k].total
      BY BackfillSteps
    <2>2. \A k \in TokenKey : tokenRow[k].total \in Nat /\ tokenRow'[k].total \in Nat
      BY <2>1 DEF BackfillInv, RowsOK, TokenKey
    <2> QED
      BY <2>1, <2>2
  <1> QED
    BY <1>1, BackfillInvariant, PTL DEF BackfillSpec, TotalsNeverShrink

-----------------------------------------------------------------------------
(* The PostgreSQL store's caps.  Every operation decides on what it has    *)
(* read and writes at its commit, so its caps rest on its locks: the proof *)
(* says, for each operation and each of its statements, what it has read   *)
(* and that it is still so in the committed rows while its locks are held  *)
(* (ImportSafe ... OutboxSafe).  A statement keeps that (...Runs); a       *)
(* commit, given that, keeps the caps (...Commits) and what the open       *)
(* transactions of the other callers have read, as no two of them hold a   *)
(* lock both (...Stay).                                                    *)

\* Writes, rows and scripts: an operation's statements are a short sequence.

LEMMA OverApplies ==
  ASSUME NEW f, NEW g
  PROVE  /\ DOMAIN Over(f, g) = DOMAIN f \cup DOMAIN g
         /\ \A x \in DOMAIN f : Over(f, g)[x] = f[x]
         /\ \A x \in DOMAIN g : x \notin DOMAIN f => Over(f, g)[x] = g[x]
  BY DEF Over

LEMMA OverNothing ==
  ASSUME NEW f
  PROVE  DOMAIN Over(<< >>, f) = DOMAIN f /\ \A x \in DOMAIN f : Over(<< >>, f)[x] = f[x]
  BY DEF Over

\* Writing one row, and writing two.
LEMMA OneWrite ==
  ASSUME NEW a, NEW v, NEW d, a \in DOMAIN d
  PROVE  /\ DOMAIN Over(Put(a, v), d) = DOMAIN d /\ Over(Put(a, v), d)[a] = v
         /\ \A x \in DOMAIN d : x # a => Over(Put(a, v), d)[x] = d[x]
  BY DEF Over, Put

LEMMA OverAt ==
  ASSUME NEW f, NEW g
  PROVE  \A x \in DOMAIN g : Over(f, g)[x] = IF x \in DOMAIN f THEN f[x] ELSE g[x]
  BY DEF Over

LEMMA PutOver ==
  ASSUME NEW a, NEW v, NEW d
  PROVE  \A x \in DOMAIN d : Over(Put(a, v), d)[x] = IF x = a THEN v ELSE d[x]
  BY DEF Over, Put

LEMMA TwoWrites ==
  ASSUME NEW a, NEW v, NEW b, NEW w, NEW d, a \in DOMAIN d, b \in DOMAIN d, a # b
  PROVE  LET e == Over(Over(Put(a, v), Put(b, w)), d) IN
         /\ DOMAIN e = DOMAIN d /\ e[a] = v /\ e[b] = w
         /\ \A x \in DOMAIN d : x # a /\ x # b => e[x] = d[x]
         /\ Over(Put(a, v), Put(b, w)) # << >>
  <1>1. DOMAIN Over(Put(a, v), Put(b, w)) = {a, b} /\ Over(Put(a, v), Put(b, w))[a] = v
        /\ Over(Put(a, v), Put(b, w))[b] = w
    BY DEF Over, Put
  <1> DEFINE g == Over(Put(a, v), Put(b, w))
  <1> HIDE DEF g
  <1>2. DOMAIN g = {a, b} /\ g[a] = v /\ g[b] = w
    BY <1>1 DEF g
  <1>3. g # << >>
    BY <1>2
  <1>4. DOMAIN Over(g, d) = DOMAIN d /\ \A x \in DOMAIN g : Over(g, d)[x] = g[x]
    <2>1. DOMAIN Over(g, d) = DOMAIN g \cup DOMAIN d
      BY OverApplies
    <2>2. {a, b} \cup DOMAIN d = DOMAIN d
      OBVIOUS
    <2> QED
      BY <1>2, <2>1, <2>2, OverApplies
  <1>5. \A x \in DOMAIN d : x \notin DOMAIN g => Over(g, d)[x] = d[x]
    BY OverApplies
  <1> QED
    BY <1>2, <1>3, <1>4, <1>5 DEF g

\* The statements of an operation: its reads, then its writes.
LEMMA SameSequence ==
  ASSUME NEW S, NEW s \in Seq(S), NEW t \in Seq(S), Len(s) = Len(t), \A i \in 1..Len(s) : s[i] = t[i]
  PROVE  s = t
  OBVIOUS

LEMMA Append11 == ASSUME NEW a, NEW b PROVE <<a>> \o <<b>> = <<a, b>>
  <1> DEFINE S == {a, b}
  <1>1. <<a>> \in Seq(S) /\ <<b>> \in Seq(S) /\ <<a, b>> \in Seq(S) /\ Len(<<a>>) = 1 /\ Len(<<b>>) = 1
    OBVIOUS
  <1>2. Len(<<a>> \o <<b>>) = 2 /\ <<a>> \o <<b>> \in Seq(S)
    BY <1>1
  <1>3. \A i \in 1..2 : (<<a>> \o <<b>>)[i] = <<a, b>>[i]
    BY <1>1
  <1> QED
    BY <1>1, <1>2, <1>3, SameSequence

LEMMA Append12 == ASSUME NEW a, NEW b, NEW c PROVE <<a>> \o <<b, c>> = <<a, b, c>>
  <1> DEFINE S == {a, b, c}
  <1>1. <<a>> \in Seq(S) /\ <<b, c>> \in Seq(S) /\ <<a, b, c>> \in Seq(S) /\ Len(<<a>>) = 1
        /\ Len(<<b, c>>) = 2
    OBVIOUS
  <1>2. Len(<<a>> \o <<b, c>>) = 3 /\ <<a>> \o <<b, c>> \in Seq(S)
    BY <1>1
  <1>3. \A i \in 1..3 : (<<a>> \o <<b, c>>)[i] = <<a, b, c>>[i]
    BY <1>1
  <1> QED
    BY <1>1, <1>2, <1>3, SameSequence

LEMMA Append21 == ASSUME NEW a, NEW b, NEW c PROVE <<a, b>> \o <<c>> = <<a, b, c>>
  <1> DEFINE S == {a, b, c}
  <1>1. <<a, b>> \in Seq(S) /\ <<c>> \in Seq(S) /\ <<a, b, c>> \in Seq(S) /\ Len(<<a, b>>) = 2
        /\ Len(<<c>>) = 1
    OBVIOUS
  <1>2. Len(<<a, b>> \o <<c>>) = 3 /\ <<a, b>> \o <<c>> \in Seq(S)
    BY <1>1
  <1>3. \A i \in 1..3 : (<<a, b>> \o <<c>>)[i] = <<a, b, c>>[i]
    BY <1>1
  <1> QED
    BY <1>1, <1>2, <1>3, SameSequence

LEMMA Append22 == ASSUME NEW a, NEW b, NEW c, NEW d PROVE <<a, b>> \o <<c, d>> = <<a, b, c, d>>
  <1> DEFINE S == {a, b, c, d}
  <1>1. <<a, b>> \in Seq(S) /\ <<c, d>> \in Seq(S) /\ <<a, b, c, d>> \in Seq(S) /\ Len(<<a, b>>) = 2
        /\ Len(<<c, d>>) = 2
    OBVIOUS
  <1>2. Len(<<a, b>> \o <<c, d>>) = 4 /\ <<a, b>> \o <<c, d>> \in Seq(S)
    BY <1>1
  <1>3. \A i \in 1..4 : (<<a, b>> \o <<c, d>>)[i] = <<a, b, c, d>>[i]
    BY <1>1
  <1> QED
    BY <1>1, <1>2, <1>3, SameSequence

LEMMA Append31 == ASSUME NEW a, NEW b, NEW c, NEW d PROVE <<a, b, c>> \o <<d>> = <<a, b, c, d>>
  <1> DEFINE S == {a, b, c, d}
  <1>1. <<a, b, c>> \in Seq(S) /\ <<d>> \in Seq(S) /\ <<a, b, c, d>> \in Seq(S)
        /\ Len(<<a, b, c>>) = 3 /\ Len(<<d>>) = 1
    OBVIOUS
  <1>2. Len(<<a, b, c>> \o <<d>>) = 4 /\ <<a, b, c>> \o <<d>> \in Seq(S)
    BY <1>1
  <1>3. \A i \in 1..4 : (<<a, b, c>> \o <<d>>)[i] = <<a, b, c, d>>[i]
    BY <1>1
  <1> QED
    BY <1>1, <1>2, <1>3, SameSequence

LEMMA Append23 == ASSUME NEW a, NEW b, NEW c, NEW d, NEW e PROVE <<a, b>> \o <<c, d, e>> = <<a, b, c, d, e>>
  <1> DEFINE S == {a, b, c, d, e}
  <1>1. <<a, b>> \in Seq(S) /\ <<c, d, e>> \in Seq(S) /\ <<a, b, c, d, e>> \in Seq(S)
        /\ Len(<<a, b>>) = 2 /\ Len(<<c, d, e>>) = 3
    OBVIOUS
  <1>2. Len(<<a, b>> \o <<c, d, e>>) = 5 /\ <<a, b>> \o <<c, d, e>> \in Seq(S)
    BY <1>1
  <1>3. \A i \in 1..5 : (<<a, b>> \o <<c, d, e>>)[i] = <<a, b, c, d, e>>[i]
    BY <1>1
  <1> QED
    BY <1>1, <1>2, <1>3, SameSequence

LEMMA Append43 ==
  ASSUME NEW a, NEW b, NEW c, NEW d, NEW e, NEW f, NEW g
  PROVE  <<a, b, c, d>> \o <<e, f, g>> = <<a, b, c, d, e, f, g>>
  <1> DEFINE S == {a, b, c, d, e, f, g}
  <1>1. /\ <<a, b, c, d>> \in Seq(S) /\ <<e, f, g>> \in Seq(S) /\ <<a, b, c, d, e, f, g>> \in Seq(S)
        /\ Len(<<a, b, c, d>>) = 4 /\ Len(<<e, f, g>>) = 3
    OBVIOUS
  <1>2. Len(<<a, b, c, d>> \o <<e, f, g>>) = 7 /\ <<a, b, c, d>> \o <<e, f, g>> \in Seq(S)
    BY <1>1
  <1>3. \A i \in 1..7 : (<<a, b, c, d>> \o <<e, f, g>>)[i] = <<a, b, c, d, e, f, g>>[i]
    BY <1>1
  <1> QED
    BY <1>1, <1>2, <1>3, SameSequence

LEMMA AppendNone ==
  ASSUME NEW a, NEW b, NEW c, NEW d
  PROVE  /\ <<a>> \o << >> = <<a>> /\ <<a, b>> \o << >> = <<a, b>> /\ <<a, b, c>> \o << >> = <<a, b, c>>
         /\ <<a, b, c, d>> \o << >> = <<a, b, c, d>>
  OBVIOUS

\* A transaction on its own: the statements of its operation, whether it has
\* read all it decides on, and what it is after its next statement.
ScriptOf(t) == Plan(t.request, t.read).reads \o Plan(t.request, t.read).writes
Quiet(t) ==
  t.run >= Len(Plan(t.request, t.read).reads) /\ Outcome(t.request, t.read).writes = << >>
Grown(t, got, locked) ==
  [request |-> t.request, run |-> t.run + 1, read |-> Over(got, t.read), held |-> t.held \cup locked]
Ended(t) == t.run = Len(ScriptOf(t))

\* What a statement reads and locks.
Effect(t, s, got, locked) ==
  \/ s.kind = "lock" /\ got = << >> /\ locked = s.rows
  \/ s.kind = "select" /\ got = [row \in s.rows |-> db[row]] /\ locked = {}
  \/ /\ s.kind = "for_update" /\ got = [row \in s.rows |-> db[row]]
     /\ locked = {row \in s.rows : db[row] # NoRow /\ Wanted(t.request, row)}
  \/ /\ s.kind = "skip_locked"
     /\ \E free \in SUBSET s.rows :
          /\ got = [row \in s.rows |-> IF row \in free THEN db[row] ELSE NoRow]
          /\ locked = {row \in free : db[row] # NoRow /\ Wanted(t.request, row)}
  \/ s.kind = "if_absent" /\ got = << >> /\ locked = {row \in s.rows : db[row] = NoRow}
  \/ s.kind = "insert" /\ got = << >> /\ locked = s.rows
  \/ s.kind = "upsert" /\ got = [row \in s.rows |-> db[row]] /\ locked = s.rows
  \/ s.kind = "identity" /\ got = Put(Id, sequence + 1) /\ locked = {}

\* u is t after its statement s.
Steps(t, s, u) ==
  \E got, locked : Effect(t, s, got, locked) /\ u = Grown(t, got, locked)

LEMMA GrownFields ==
  ASSUME NEW t, NEW got, NEW locked, NEW u, u = Grown(t, got, locked)
  PROVE  /\ u.request = t.request /\ u.run = t.run + 1 /\ u.held = t.held \cup locked
         /\ \A x \in DOMAIN got : x \in DOMAIN u.read /\ u.read[x] = got[x]
         /\ \A x \in DOMAIN t.read : x \notin DOMAIN got => x \in DOMAIN u.read /\ u.read[x] = t.read[x]
  <1>1. u.request = t.request /\ u.run = t.run + 1 /\ u.held = t.held \cup locked
        /\ u.read = Over(got, t.read)
    BY DEF Grown
  <1>2. /\ DOMAIN Over(got, t.read) = DOMAIN got \cup DOMAIN t.read
        /\ \A x \in DOMAIN got : Over(got, t.read)[x] = got[x]
        /\ \A x \in DOMAIN t.read : x \notin DOMAIN got => Over(got, t.read)[x] = t.read[x]
    BY OverApplies
  <1> QED
    BY <1>1, <1>2

\* What every statement does, and what each kind of statement does.
GoesOn(t, u) ==
  u.request = t.request /\ u.run = t.run + 1 /\ t.held \subseteq u.held
SameRead(t, u) == \A x \in DOMAIN t.read : x \in DOMAIN u.read /\ u.read[x] = t.read[x]
Reads(t, u, S) ==
  /\ \A x \in S : x \in DOMAIN u.read /\ u.read[x] = db[x]
  /\ \A x \in DOMAIN t.read \ S : x \in DOMAIN u.read /\ u.read[x] = t.read[x]

LEMMA LockSteps ==
  ASSUME NEW t, NEW u, NEW name, Steps(t, AdvisoryLock(name), u)
  PROVE  GoesOn(t, u) /\ SameRead(t, u) /\ <<name, 0>> \in u.held
  <1>1. PICK got, locked : Effect(t, AdvisoryLock(name), got, locked) /\ u = Grown(t, got, locked)
    BY DEF Steps
  <1>2. got = << >> /\ locked = {<<name, 0>>}
    BY <1>1 DEF Effect, AdvisoryLock
  <1> QED
    BY <1>1, <1>2, GrownFields DEF GoesOn, SameRead

LEMMA SelectSteps ==
  ASSUME NEW t, NEW u, NEW S, Steps(t, Select(S), u)
  PROVE  GoesOn(t, u) /\ Reads(t, u, S)
  <1>1. PICK got, locked : Effect(t, Select(S), got, locked) /\ u = Grown(t, got, locked)
    BY DEF Steps
  <1>2. got = [row \in S |-> db[row]] /\ locked = {}
    BY <1>1 DEF Effect, Select
  <1> QED
    BY <1>1, <1>2, GrownFields DEF GoesOn, Reads

LEMMA ForUpdateSteps ==
  ASSUME NEW t, NEW u, NEW S, Steps(t, SelectForUpdate(S), u)
  PROVE  /\ GoesOn(t, u) /\ Reads(t, u, S)
         /\ \A row \in S : db[row] # NoRow /\ Wanted(t.request, row) => row \in u.held
  <1>1. PICK got, locked : Effect(t, SelectForUpdate(S), got, locked) /\ u = Grown(t, got, locked)
    BY DEF Steps
  <1>2. /\ got = [row \in S |-> db[row]]
        /\ locked = {row \in S : db[row] # NoRow /\ Wanted(t.request, row)}
    BY <1>1 DEF Effect, SelectForUpdate
  <1> QED
    BY <1>1, <1>2, GrownFields DEF GoesOn, Reads

LEMMA SkipLockedSteps ==
  ASSUME NEW t, NEW u, NEW S, Steps(t, SkipLocked(S), u)
  PROVE  /\ GoesOn(t, u)
         /\ \A x \in S : x \in DOMAIN u.read /\ u.read[x] \in {NoRow, db[x]}
         /\ \A x \in S : u.read[x] # NoRow /\ Wanted(t.request, x) => x \in u.held
  <1>1. PICK got, locked : Effect(t, SkipLocked(S), got, locked) /\ u = Grown(t, got, locked)
    BY DEF Steps
  <1>2. PICK free \in SUBSET S :
          /\ got = [row \in S |-> IF row \in free THEN db[row] ELSE NoRow]
          /\ locked = {row \in free : db[row] # NoRow /\ Wanted(t.request, row)}
    BY <1>1 DEF Effect, SkipLocked
  <1>3. \A x \in S : x \in DOMAIN u.read /\ u.read[x] = IF x \in free THEN db[x] ELSE NoRow
    BY <1>1, <1>2, GrownFields
  <1>4. GoesOn(t, u) /\ locked \subseteq u.held
    BY <1>1, GrownFields DEF GoesOn
  <1>5. ASSUME NEW x \in S, u.read[x] # NoRow, Wanted(t.request, x) PROVE x \in locked
    BY <1>2, <1>3, <1>5
  <1> QED
    BY <1>3, <1>4, <1>5

LEMMA InsertSteps ==
  ASSUME NEW t, NEW u, NEW x, Steps(t, Insert(x), u)
  PROVE  GoesOn(t, u) /\ SameRead(t, u) /\ x \in u.held
  <1>1. PICK got, locked : Effect(t, Insert(x), got, locked) /\ u = Grown(t, got, locked)
    BY DEF Steps
  <1>2. got = << >> /\ locked = {x}
    BY <1>1 DEF Effect, Insert
  <1> QED
    BY <1>1, <1>2, GrownFields DEF GoesOn, SameRead

LEMMA UpsertSteps ==
  ASSUME NEW t, NEW u, NEW x, Steps(t, Upsert(x), u)
  PROVE  GoesOn(t, u) /\ Reads(t, u, {x}) /\ x \in u.held
  <1>1. PICK got, locked : Effect(t, Upsert(x), got, locked) /\ u = Grown(t, got, locked)
    BY DEF Steps
  <1>2. got = [row \in {x} |-> db[row]] /\ locked = {x}
    BY <1>1 DEF Effect, Upsert
  <1> QED
    BY <1>1, <1>2, GrownFields DEF GoesOn, Reads

LEMMA Long2 == ASSUME NEW s, NEW a, NEW b, s = <<a, b>> PROVE Len(s) = 2 /\ s[1] = a /\ s[2] = b
  OBVIOUS
LEMMA Long3 ==
  ASSUME NEW s, NEW a, NEW b, NEW c, s = <<a, b, c>>
  PROVE  Len(s) = 3 /\ s[1] = a /\ s[2] = b /\ s[3] = c
  OBVIOUS
LEMMA Long4 ==
  ASSUME NEW s, NEW a, NEW b, NEW c, NEW d, s = <<a, b, c, d>>
  PROVE  Len(s) = 4 /\ s[1] = a /\ s[2] = b /\ s[3] = c /\ s[4] = d
  OBVIOUS
LEMMA Long5 ==
  ASSUME NEW s, NEW a, NEW b, NEW c, NEW d, NEW e, s = <<a, b, c, d, e>>
  PROVE  Len(s) = 5 /\ s[1] = a /\ s[2] = b /\ s[3] = c /\ s[4] = d /\ s[5] = e
  OBVIOUS
LEMMA Long7 ==
  ASSUME NEW s, NEW a, NEW b, NEW c, NEW d, NEW e, NEW f, NEW g, s = <<a, b, c, d, e, f, g>>
  PROVE  Len(s) = 7 /\ s[1] = a /\ s[2] = b /\ s[3] = c /\ s[4] = d /\ s[5] = e /\ s[6] = f /\ s[7] = g
  OBVIOUS

LEMMA Numbers ==
  /\ Number \subseteq Nat /\ 0 \notin Number /\ IsFiniteSet(Number)
  /\ \A g \in Group : 1..MaxRequest[g] \subseteq Number
  /\ \A q \in Number : 1..(q - 1) \subseteq Number
  <1>1. \A g \in Group : MaxRequest[g] \in Nat
    BY StoreAssumption
  <1>2. IsFiniteSet({1..MaxRequest[g] : g \in Group})
    <2> DEFINE f == [g \in Group |-> 1..MaxRequest[g]]
    <2>1. IsFiniteSet(Group)
      <3> DEFINE h == [i \in 1..9 |->
             CASE i = 1 -> "alerts" [] i = 2 -> "resets" [] i = 3 -> "receivers" [] i = 4 -> "reports"
               [] i = 5 -> "outbox" [] i = 6 -> "tokens" [] i = 7 -> "peers" [] i = 8 -> "usage" [] i = 9 -> "imports"]
      <3>1. /\ h[1] = "alerts" /\ h[2] = "resets" /\ h[3] = "receivers" /\ h[4] = "reports" /\ h[5] = "outbox"
            /\ h[6] = "tokens" /\ h[7] = "peers" /\ h[8] = "usage" /\ h[9] = "imports"
        OBVIOUS
      <3>2. \A g \in Group : \E i \in 1..9 : h[i] = g
        BY <3>1 DEF Group
      <3>3. \A i \in 1..9 : h[i] \in Group
        BY <3>1 DEF Group
      <3>4. h \in [1..9 -> Group]
        BY <3>3
      <3>5. h \in Surjection(1..9, Group)
        BY <3>2, <3>4 DEF Surjection
      <3>6. IsFiniteSet(1..9)
        BY 1 \in Int, 9 \in Int, FS_Interval
      <3> QED
        BY <3>5, <3>6, FS_Surjection
    <2>2. \A g \in Group : f[g] = 1..MaxRequest[g]
      OBVIOUS
    <2>3. f \in Surjection(Group, {1..MaxRequest[g] : g \in Group})
      BY <2>2 DEF Surjection
    <2> QED
      BY <2>1, <2>3, FS_Surjection
  <1>3. \A S \in {1..MaxRequest[g] : g \in Group} : IsFiniteSet(S)
    BY <1>1, FS_Interval
  <1>4. IsFiniteSet(UNION {1..MaxRequest[g] : g \in Group})
    BY <1>2, <1>3, FS_UNION
  <1>5. \A q \in Number : 1..(q - 1) \subseteq Number
    <2> SUFFICES ASSUME NEW q \in Number, NEW k \in 1..(q - 1) PROVE k \in Number
      OBVIOUS
    <2>1. PICK g \in Group : q \in 1..MaxRequest[g]
      BY DEF Number
    <2>2. k \in 1..MaxRequest[g]
      BY <1>1, <2>1
    <2> QED
      BY <2>2 DEF Number
  <1> QED
    BY <1>1, <1>4, <1>5 DEF Number

LEMMA NoRowIsNone ==
  /\ NoRow \notin Nat /\ NoRow \notin Number /\ NoRow \notin Keys /\ NoRow # "account"
  /\ NoRow \notin EventRow /\ NoRow \notin JobRow /\ NoRow \notin ReceiverRow
  /\ NoRow \notin CursorRow /\ NoRow \notin PageRow
  <1>1. NoRow \notin Nat /\ NoRow # "account"
    BY StoreAssumption
  <1>2. NoRow \notin EventRow /\ NoRow \notin JobRow /\ NoRow \notin ReceiverRow
    BY StoreAssumption
  <1>3. NoRow \notin CursorRow /\ NoRow \notin PageRow
    BY StoreAssumption
  <1>4. NoRow \notin Number
    BY <1>1, Numbers
  <1>5. NoRow \notin Keys
    BY <1>1 DEF Keys
  <1> QED
    BY <1>1, <1>2, <1>3, <1>4, <1>5

\* The rows of a table are finitely many.
LEMMA FiniteRows ==
  /\ IsFiniteSet(Receivers) /\ IsFiniteSet(Replies) /\ IsFiniteSet(Jobs) /\ IsFiniteSet(Cursors)
  <1>1. \A name : IsFiniteSet(Table(name, Number)) /\ IsFiniteSet(Table(name, Keys))
    <2> SUFFICES ASSUME NEW name PROVE IsFiniteSet(Table(name, Number)) /\ IsFiniteSet(Table(name, Keys))
      OBVIOUS
    <2>1. IsFiniteSet({name}) /\ IsFiniteSet({1})
      BY FS_Singleton
    <2>2. IsFiniteSet({1} \cup {2}) /\ {1} \cup {2} = Keys
      BY <2>1, FS_AddElement DEF Keys
    <2> QED
      BY <2>1, <2>2, Numbers, FS_Product DEF Table
  <1> QED
    BY <1>1 DEF Receivers, Replies, Jobs, Cursors

LEMMA Fewer ==
  ASSUME NEW S, NEW T, IsFiniteSet(S), T \subseteq S, Cardinality(S) <= Cap
  PROVE  Cardinality(T) <= Cap
  <1>1. Cardinality(T) <= Cardinality(S) /\ Cardinality(T) \in Nat /\ Cardinality(S) \in Nat
    BY FS_Subset, FS_CardinalityType
  <1> QED
    BY <1>1, StoreAssumption

LEMMA OneMore ==
  ASSUME NEW S, NEW T, NEW x, IsFiniteSet(S), T \subseteq S \cup {x}, ~(Cardinality(S) >= Cap)
  PROVE  Cardinality(T) <= Cap
  <1>0. Cardinality(S) \in Nat
    BY FS_CardinalityType
  <1>a. /\ IsFiniteSet(S \cup {x})
        /\ Cardinality(S \cup {x}) = IF x \in S THEN Cardinality(S) ELSE Cardinality(S) + 1
    BY FS_AddElement
  <1>1. Cardinality(S \cup {x}) <= Cardinality(S) + 1 /\ IsFiniteSet(S \cup {x})
    <2>1. CASE x \in S
      BY <1>0, <1>a, <2>1
    <2>2. CASE x \notin S
      BY <1>0, <1>a, <2>2
    <2> QED
      BY <2>1, <2>2
  <1>2. Cardinality(S \cup {x}) \in Nat
    BY <1>1, FS_CardinalityType
  <1>3. Cardinality(S \cup {x}) <= Cap
    BY <1>0, <1>1, <1>2, StoreAssumption
  <1> QED
    BY <1>1, <1>3, Fewer

-----------------------------------------------------------------------------
(* Imports: import_claude_profile takes the lock of all imports, so the    *)
(* claim it has looked for is as it was found.                             *)

ImportSafe(t, d) ==
  /\ t.request.op = "import" /\ t.request.q \in Number
  /\ t.request.target \in Keys /\ t.request.payload \in Keys
  /\ t.run >= 1 => <<"import", 0>> \in t.held
  /\ t.run >= 2 =>
       LET claim == <<"claim", t.request.target>> IN claim \in DOMAIN t.read /\ t.read[claim] = d[claim]

\* What was imported has its claim, and no two rows have the same.
ImportsFit(d) ==
  /\ \A x \in Present(d, Imported) : d[x] \in Keys /\ d[<<"claim", d[x]>>] # NoRow
  /\ \A x, y \in Present(d, Imported) : d[x] = d[y] => x = y

LEMMA ImportScript ==
  ASSUME NEW t, t.request.op = "import"
  PROVE  /\ Len(ScriptOf(t)) = 5
         /\ ScriptOf(t)[1] = AdvisoryLock("import")
         /\ ScriptOf(t)[2] = SelectForUpdate({<<"claim", t.request.target>>})
         /\ ScriptOf(t)[3] = Insert(<<"claim", t.request.target>>)
         /\ ScriptOf(t)[4] = AdvisoryLock("profile")
         /\ ScriptOf(t)[5] = Insert(<<"imported", t.request.q>>)
  <1>1. Plan(t.request, t.read) = ImportPlan(t.request, t.read)
    BY DEF Plan
  <1>2. ScriptOf(t) = <<AdvisoryLock("import"), SelectForUpdate({<<"claim", t.request.target>>}),
          Insert(<<"claim", t.request.target>>), AdvisoryLock("profile"), Insert(<<"imported", t.request.q>>)>>
    BY <1>1, Append23 DEF ScriptOf, ImportPlan, Statements
  <1> QED
    BY <1>2, Long5

LEMMA ImportRuns ==
  ASSUME NEW t, NEW u, ImportSafe(t, db), t.run \in Nat, t.run < Len(ScriptOf(t)),
         Steps(t, ScriptOf(t)[t.run + 1], u)
  PROVE  ImportSafe(u, db)
  <1>1. t.request.op = "import"
    BY DEF ImportSafe
  <1> DEFINE claim == <<"claim", t.request.target>>
  <1>s. /\ Len(ScriptOf(t)) = 5
        /\ ScriptOf(t)[1] = AdvisoryLock("import")
        /\ ScriptOf(t)[2] = SelectForUpdate({claim})
        /\ ScriptOf(t)[3] = Insert(claim)
        /\ ScriptOf(t)[4] = AdvisoryLock("profile")
        /\ ScriptOf(t)[5] = Insert(<<"imported", t.request.q>>)
    BY <1>1, ImportScript
  <1>2. t.run = 0 \/ t.run = 1 \/ t.run \in 2..4
    BY <1>s
  <1>3. CASE t.run = 0
    <2>1. Steps(t, AdvisoryLock("import"), u)
      BY <1>s, <1>3
    <2>2. GoesOn(t, u) /\ <<"import", 0>> \in u.held
      BY <2>1, LockSteps
    <2> QED
      BY <1>3, <2>2 DEF ImportSafe, GoesOn
  <1>4. CASE t.run = 1
    <2>1. Steps(t, SelectForUpdate({claim}), u)
      BY <1>s, <1>4
    <2>2. GoesOn(t, u) /\ Reads(t, u, {claim})
      BY <2>1, ForUpdateSteps
    <2> QED
      BY <1>4, <2>2 DEF ImportSafe, GoesOn, Reads
  <1>5. CASE t.run \in 2..4
    <2>1. Steps(t, Insert(claim), u) \/ Steps(t, AdvisoryLock("profile"), u)
            \/ Steps(t, Insert(<<"imported", t.request.q>>), u)
      <3>1. t.run = 2 \/ t.run = 3 \/ t.run = 4
        BY <1>5
      <3> QED
        BY <1>s, <3>1
    <2>2. GoesOn(t, u) /\ SameRead(t, u)
      BY <2>1, LockSteps, InsertSteps
    <2> QED
      BY <1>5, <2>2 DEF ImportSafe, GoesOn, SameRead
  <1> QED
    BY <1>2, <1>3, <1>4, <1>5

LEMMA ImportCommits ==
  ASSUME NEW t, NEW d, NEW e, ImportSafe(t, d), t.run \in Nat, t.run = Len(ScriptOf(t)),
         Rows["imports"] \subseteq DOMAIN d, ImportsFit(d), e = Over(Outcome(t.request, t.read).writes, d)
  PROVE  ImportsFit(e)
  <1> DEFINE r == t.request
             claim == <<"claim", r.target>>
             row == <<"imported", r.q>>
  <1>0. /\ r.op = "import" /\ r.target \in Keys /\ r.q \in Number
        /\ claim \in DOMAIN d /\ row \in DOMAIN d /\ claim # row
        /\ Claims \subseteq DOMAIN d /\ Imported \subseteq DOMAIN d
    BY DEF ImportSafe, Rows, Claims, Imported, Table
  <1>1. t.read[claim] = d[claim]
    <2>1. Len(ScriptOf(t)) = 5
      BY <1>0, ImportScript
    <2>2. t.run = 5
      BY <2>1
    <2> QED
      BY <2>2 DEF ImportSafe
  <1>2. Outcome(r, t.read) = ImportRow(r, t.read)
    BY <1>0 DEF Outcome
  <1>3. CASE d[claim] # NoRow
    <2>1. Outcome(r, t.read).writes = << >>
      BY <1>1, <1>2, <1>3 DEF ImportRow, Told
    <2>2. \A x \in DOMAIN d : e[x] = d[x]
      BY <2>1, OverNothing
    <2>3. \A x \in Imported : e[x] = d[x]
      BY <1>0, <2>2
    <2>4. \A k \in Keys : e[<<"claim", k>>] = d[<<"claim", k>>]
      BY <1>0, <2>2 DEF Claims, Table
    <2> QED
      BY <2>3, <2>4 DEF ImportsFit, Present
  <1>4. CASE d[claim] = NoRow
    <2>1. Outcome(r, t.read).writes = Over(Put(claim, r.payload), Put(row, r.target))
      BY <1>1, <1>2, <1>4 DEF ImportRow, Writes
    <2>2. e[claim] = r.payload /\ e[row] = r.target /\ \A x \in DOMAIN d : x # claim /\ x # row => e[x] = d[x]
      BY <1>0, <2>1, TwoWrites
    <2>3. \A x \in Imported : x # row => e[x] = d[x]
      BY <1>0, <2>2 DEF Imported, Table
    <2>4. \A k \in Keys : k # r.target => e[<<"claim", k>>] = d[<<"claim", k>>]
      BY <1>0, <2>2 DEF Claims, Table
    <2>5. e[claim] # NoRow
      BY <1>0, <2>2, NoRowIsNone DEF ImportSafe
    <2>6. \A x \in Present(d, Imported) : d[x] # r.target
      BY <1>4 DEF ImportsFit
    <2> QED
      BY <1>0, <2>2, <2>3, <2>4, <2>5, <2>6 DEF ImportsFit, Present
  <1> QED
    BY <1>3, <1>4

-----------------------------------------------------------------------------
(* Reports: ingest_report takes the lock of all reports, so the request id *)
(* it has looked for is as it was found.                                   *)

IngestSafe(t, d) ==
  /\ t.request.op = "ingest" /\ t.request.q \in Number
  /\ t.request.id \in Keys /\ t.request.payload \in Keys
  /\ t.run >= 1 => <<"ingest", 0>> \in t.held
  /\ t.run >= 2 =>
       LET replay == <<"replay", t.request.id>> IN replay \in DOMAIN t.read /\ t.read[replay] = d[replay]

\* What was reported has its request id, and no two reports have the same.
ReportsFit(d) ==
  /\ \A x \in Present(d, Reports) : d[x] \in Keys /\ d[<<"replay", d[x]>>] # NoRow
  /\ \A x, y \in Present(d, Reports) : d[x] = d[y] => x = y

LEMMA IngestScript ==
  ASSUME NEW t, t.request.op = "ingest"
  PROVE  /\ Len(ScriptOf(t)) = 5 \/ Len(ScriptOf(t)) = 7
         /\ ScriptOf(t)[1] = AdvisoryLock("ingest")
         /\ ScriptOf(t)[2] = Select({<<"replay", t.request.id>>})
         /\ \A i \in 3..Len(ScriptOf(t)) :
              ScriptOf(t)[i] \in {Select(Replays), Select(Reports), AdvisoryLock("profile"),
                Insert(<<"report", t.request.q>>), Insert(<<"replay", t.request.id>>)}
  <1> DEFINE replay == <<"replay", t.request.id>>
             report == <<"report", t.request.q>>
  <1>1. Plan(t.request, t.read) = IngestPlan(t.request, t.read)
    BY DEF Plan
  <1>2. CASE Found(t.read, replay) = NoRow
    <2>a. /\ Plan(t.request, t.read).reads
               = <<AdvisoryLock("ingest"), Select({replay})>> \o <<Select(Replays), Select(Reports)>>
          /\ Plan(t.request, t.read).writes = <<AdvisoryLock("profile"), Insert(report), Insert(replay)>>
      BY <1>1, <1>2 DEF IngestPlan, Statements, If
    <2>b. Plan(t.request, t.read).reads
            = <<AdvisoryLock("ingest"), Select({replay}), Select(Replays), Select(Reports)>>
      BY <2>a, Append22
    <2>1. ScriptOf(t) = <<AdvisoryLock("ingest"), Select({replay}), Select(Replays), Select(Reports),
            AdvisoryLock("profile"), Insert(report), Insert(replay)>>
      <3>1. ScriptOf(t) = <<AdvisoryLock("ingest"), Select({replay}), Select(Replays), Select(Reports)>>
              \o <<AdvisoryLock("profile"), Insert(report), Insert(replay)>>
        BY <2>a, <2>b DEF ScriptOf
      <3> QED
        BY <3>1, Append43
    <2>2. /\ Len(ScriptOf(t)) = 7 /\ ScriptOf(t)[1] = AdvisoryLock("ingest")
             /\ ScriptOf(t)[2] = Select({replay})
          /\ ScriptOf(t)[3] = Select(Replays) /\ ScriptOf(t)[4] = Select(Reports)
          /\ ScriptOf(t)[5] = AdvisoryLock("profile") /\ ScriptOf(t)[6] = Insert(report)
          /\ ScriptOf(t)[7] = Insert(replay)
      BY <2>1, Long7
    <2>3. \A i \in 3..7 : i = 3 \/ i = 4 \/ i = 5 \/ i = 6 \/ i = 7
      OBVIOUS
    <2> QED
      BY <2>2, <2>3
  <1>3. CASE Found(t.read, replay) # NoRow
    <2>1. ScriptOf(t) = <<AdvisoryLock("ingest"), Select({replay}),
            AdvisoryLock("profile"), Insert(report), Insert(replay)>>
      BY <1>1, <1>3, Append23, AppendNone DEF ScriptOf, IngestPlan, Statements, If
    <2>2. /\ Len(ScriptOf(t)) = 5 /\ ScriptOf(t)[1] = AdvisoryLock("ingest")
             /\ ScriptOf(t)[2] = Select({replay})
          /\ ScriptOf(t)[3] = AdvisoryLock("profile") /\ ScriptOf(t)[4] = Insert(report)
          /\ ScriptOf(t)[5] = Insert(replay)
      BY <2>1, Long5
    <2>3. \A i \in 3..5 : i = 3 \/ i = 4 \/ i = 5
      OBVIOUS
    <2> QED
      BY <2>2, <2>3
  <1> QED
    BY <1>2, <1>3

LEMMA IngestRuns ==
  ASSUME NEW t, NEW u, IngestSafe(t, db), t.run \in Nat, t.run < Len(ScriptOf(t)),
         Steps(t, ScriptOf(t)[t.run + 1], u)
  PROVE  IngestSafe(u, db)
  <1>1. t.request.op = "ingest"
    BY DEF IngestSafe
  <1> DEFINE replay == <<"replay", t.request.id>>
  <1>s. /\ Len(ScriptOf(t)) = 5 \/ Len(ScriptOf(t)) = 7
        /\ ScriptOf(t)[1] = AdvisoryLock("ingest")
        /\ ScriptOf(t)[2] = Select({replay})
        /\ \A i \in 3..Len(ScriptOf(t)) :
             ScriptOf(t)[i] \in {Select(Replays), Select(Reports), AdvisoryLock("profile"),
                Insert(<<"report", t.request.q>>), Insert(replay)}
    BY <1>1, IngestScript
  <1>2. t.run = 0 \/ t.run = 1 \/ t.run + 1 \in 3..Len(ScriptOf(t))
    BY <1>s
  <1>3. CASE t.run = 0
    <2>1. Steps(t, AdvisoryLock("ingest"), u)
      BY <1>s, <1>3
    <2>2. GoesOn(t, u) /\ <<"ingest", 0>> \in u.held
      BY <2>1, LockSteps
    <2> QED
      BY <1>3, <2>2 DEF IngestSafe, GoesOn
  <1>4. CASE t.run = 1
    <2>1. Steps(t, Select({replay}), u)
      BY <1>s, <1>4
    <2>2. GoesOn(t, u) /\ Reads(t, u, {replay})
      BY <2>1, SelectSteps
    <2> QED
      BY <1>4, <2>2 DEF IngestSafe, GoesOn, Reads
  <1>5. CASE t.run + 1 \in 3..Len(ScriptOf(t))
    <2>1. \/ Steps(t, Select(Replays), u) \/ Steps(t, Select(Reports), u)
          \/ Steps(t, AdvisoryLock("profile"), u)
          \/ Steps(t, Insert(<<"report", t.request.q>>), u) \/ Steps(t, Insert(replay), u)
      BY <1>s, <1>5
    <2>2. GoesOn(t, u) /\ (SameRead(t, u) \/ Reads(t, u, Replays) \/ Reads(t, u, Reports))
      BY <2>1, LockSteps, InsertSteps, SelectSteps
    <2>3. t.run >= 2
      BY <1>5, <1>s
    <2>4. replay \in DOMAIN t.read /\ t.read[replay] = db[replay]
      BY <2>3 DEF IngestSafe
    <2>5. replay \in DOMAIN u.read /\ u.read[replay] = db[replay]
      BY <2>2, <2>4 DEF SameRead, Reads
    <2> QED
      BY <2>2, <2>3, <2>5 DEF IngestSafe, GoesOn
  <1> QED
    BY <1>2, <1>3, <1>4, <1>5

LEMMA IngestCommits ==
  ASSUME NEW t, NEW d, NEW e, IngestSafe(t, d), t.run \in Nat, t.run = Len(ScriptOf(t)),
         Rows["reports"] \subseteq DOMAIN d, ReportsFit(d), e = Over(Outcome(t.request, t.read).writes, d)
  PROVE  ReportsFit(e)
  <1> DEFINE r == t.request
             replay == <<"replay", r.id>>
             row == <<"report", r.q>>
  <1>0. /\ r.op = "ingest" /\ r.id \in Keys /\ r.q \in Number
        /\ replay \in DOMAIN d /\ row \in DOMAIN d /\ replay # row
        /\ Replays \subseteq DOMAIN d /\ Reports \subseteq DOMAIN d
    BY DEF IngestSafe, Rows, Replays, Reports, Table
  <1>1. t.read[replay] = d[replay]
    <2>1. Len(ScriptOf(t)) = 5 \/ Len(ScriptOf(t)) = 7
      BY <1>0, IngestScript
    <2>2. t.run = 5 \/ t.run = 7
      BY <2>1
    <2>3. t.run >= 2
      <3>1. CASE t.run = 5
        BY <3>1
      <3>2. CASE t.run = 7
        BY <3>2
      <3> QED
        BY <2>2, <3>1, <3>2
    <2> QED
      BY <2>3 DEF IngestSafe
  <1>2. Outcome(r, t.read) = IngestOnce(r, t.read)
    BY <1>0 DEF Outcome
  <1>3. CASE Outcome(r, t.read).writes = << >>
    <2>2. \A x \in DOMAIN d : e[x] = d[x]
      BY <1>3, OverNothing
    <2>3. \A x \in Reports : e[x] = d[x]
      BY <1>0, <2>2
    <2>4. \A k \in Keys : e[<<"replay", k>>] = d[<<"replay", k>>]
      BY <1>0, <2>2 DEF Replays, Table
    <2> QED
      BY <2>3, <2>4 DEF ReportsFit, Present
  <1>4. CASE Outcome(r, t.read).writes # << >>
    <2>1. /\ d[replay] = NoRow
          /\ Outcome(r, t.read).writes = Over(Put(row, r.id), Put(replay, r.payload))
      BY <1>1, <1>2, <1>4 DEF IngestOnce, Writes, Told
    <2>2. e[replay] = r.payload /\ e[row] = r.id /\ \A x \in DOMAIN d : x # replay /\ x # row => e[x] = d[x]
      BY <1>0, <2>1, TwoWrites
    <2>3. \A x \in Reports : x # row => e[x] = d[x]
      BY <1>0, <2>2 DEF Reports, Table
    <2>4. \A k \in Keys : k # r.id => e[<<"replay", k>>] = d[<<"replay", k>>]
      BY <1>0, <2>2 DEF Replays, Table
    <2>5. e[replay] # NoRow
      BY <1>0, <2>2, NoRowIsNone DEF IngestSafe
    <2>6. \A x \in Present(d, Reports) : d[x] # r.id
      BY <2>1 DEF ReportsFit
    <2> QED
      BY <1>0, <2>2, <2>3, <2>4, <2>5, <2>6 DEF ReportsFit, Present
  <1> QED
    BY <1>3, <1>4

-----------------------------------------------------------------------------
(* Receivers: a token is issued under the lock of all receivers; touch and *)
(* revoke lock the one row.                                                *)

\* The cap of an issue was read under the lock: since then fewer rows count, as
\* only an issue adds one.
ActiveIn(d) == {x \in Present(d, Receivers) : ~d[x].revoked}

IssueSafe(t, d) ==
  /\ t.run >= 1 => <<"receiver", 0>> \in t.held
  /\ t.run >= 2 => Receivers \subseteq DOMAIN t.read /\ ActiveIn(d) \subseteq ActiveIn(t.read)
  /\ t.run >= 4 => <<"receiver", t.request.q>> \in t.held

\* What a touch or a revoke will write over is held and as it was read.
RowSafe(t, d) ==
  LET row == <<"receiver", t.request.receiver>> IN
  /\ row \in Receivers /\ (t.request.op = "touch" => t.request.now \in Nat)
  /\ t.run >= 1 =>
       /\ row \in DOMAIN t.read /\ t.read[row] \in ReceiverRow \cup {NoRow}
       /\ t.read[row] # NoRow /\ (t.request.op = "touch" => ~t.read[row].revoked) =>
            row \in t.held /\ d[row] = t.read[row]

ReceiverSafe(t, d) ==
  /\ t.request.op \in {"issue", "touch", "revoke"} /\ t.request.q \in Number
  /\ t.request.op = "issue" => IssueSafe(t, d)
  /\ t.request.op # "issue" => RowSafe(t, d)

ReceiversFit(d) ==
  /\ \A x \in Receivers : d[x] \in ReceiverRow \cup {NoRow}
  /\ Cardinality(ActiveIn(d)) <= Cap

LEMMA IssueScript ==
  ASSUME NEW t, t.request.op = "issue"
  PROVE  /\ Len(ScriptOf(t)) = 4
         /\ ScriptOf(t)[1] = AdvisoryLock("receiver") /\ ScriptOf(t)[2] = Select(Receivers)
         /\ ScriptOf(t)[3] = Upsert(Machine) /\ ScriptOf(t)[4] = Insert(<<"receiver", t.request.q>>)
  <1>1. Plan(t.request, t.read) = IssuePlan(t.request, t.read)
    BY DEF Plan
  <1>2. ScriptOf(t) = <<AdvisoryLock("receiver"), Select(Receivers), Upsert(Machine),
          Insert(<<"receiver", t.request.q>>)>>
    BY <1>1, Append22 DEF ScriptOf, IssuePlan, Statements
  <1> QED
    BY <1>2, Long4

LEMMA RowScript ==
  ASSUME NEW t, t.request.op \in {"touch", "revoke"}
  PROVE  Len(ScriptOf(t)) = 1 /\ ScriptOf(t)[1] = SelectForUpdate({<<"receiver", t.request.receiver>>})
  <1>1. Plan(t.request, t.read) = Statements(<<SelectForUpdate({<<"receiver", t.request.receiver>>})>>, << >>)
    BY DEF Plan
  <1>2. ScriptOf(t) = <<SelectForUpdate({<<"receiver", t.request.receiver>>})>>
    BY <1>1, AppendNone DEF ScriptOf, Statements
  <1> QED
    BY <1>2

LEMMA IssueRuns ==
  ASSUME NEW t, NEW u, t.request.op = "issue", IssueSafe(t, db), t.run \in Nat, t.run < Len(ScriptOf(t)),
         Steps(t, ScriptOf(t)[t.run + 1], u)
  PROVE  IssueSafe(u, db)
  <1> DEFINE row == <<"receiver", t.request.q>>
  <1>s. /\ Len(ScriptOf(t)) = 4
        /\ ScriptOf(t)[1] = AdvisoryLock("receiver") /\ ScriptOf(t)[2] = Select(Receivers)
        /\ ScriptOf(t)[3] = Upsert(Machine) /\ ScriptOf(t)[4] = Insert(row)
    BY IssueScript
  <1>2. t.run = 0 \/ t.run = 1 \/ t.run = 2 \/ t.run = 3
    BY <1>s
  <1>3. CASE t.run = 0
    <2>1. Steps(t, AdvisoryLock("receiver"), u)
      BY <1>s, <1>3
    <2>2. GoesOn(t, u) /\ <<"receiver", 0>> \in u.held
      BY <2>1, LockSteps
    <2> QED
      BY <1>3, <2>2 DEF IssueSafe, GoesOn
  <1>4. CASE t.run = 1
    <2>1. Steps(t, Select(Receivers), u)
      BY <1>s, <1>4
    <2>2. GoesOn(t, u) /\ Reads(t, u, Receivers)
      BY <2>1, SelectSteps
    <2>3. Receivers \subseteq DOMAIN u.read /\ ActiveIn(db) \subseteq ActiveIn(u.read)
      BY <2>2 DEF Reads, ActiveIn, Present
    <2> QED
      BY <1>4, <2>2, <2>3 DEF IssueSafe, GoesOn
  <1>5. CASE t.run = 2
    <2>1. Steps(t, Upsert(Machine), u)
      BY <1>s, <1>5
    <2>2. GoesOn(t, u) /\ Reads(t, u, {Machine})
      BY <2>1, UpsertSteps
    <2>3. Receivers \subseteq DOMAIN t.read /\ ActiveIn(db) \subseteq ActiveIn(t.read)
      BY <1>5 DEF IssueSafe
    <2>4. Machine \notin Receivers
      BY DEF Machine, Receivers, Table
    <2>5. \A x \in Receivers : x \in DOMAIN u.read /\ u.read[x] = t.read[x]
      BY <2>2, <2>3, <2>4 DEF Reads
    <2>6. Receivers \subseteq DOMAIN u.read /\ ActiveIn(db) \subseteq ActiveIn(u.read)
      BY <2>3, <2>5 DEF ActiveIn, Present
    <2> QED
      BY <1>5, <2>2, <2>6 DEF IssueSafe, GoesOn
  <1>6. CASE t.run = 3
    <2>1. Steps(t, Insert(row), u)
      BY <1>s, <1>6
    <2>2. GoesOn(t, u) /\ SameRead(t, u) /\ row \in u.held
      BY <2>1, InsertSteps
    <2>3. Receivers \subseteq DOMAIN t.read /\ ActiveIn(db) \subseteq ActiveIn(t.read)
      BY <1>6 DEF IssueSafe
    <2>6. Receivers \subseteq DOMAIN u.read /\ ActiveIn(db) \subseteq ActiveIn(u.read)
      BY <2>2, <2>3 DEF SameRead, ActiveIn, Present
    <2> QED
      BY <1>6, <2>2, <2>6 DEF IssueSafe, GoesOn
  <1> QED
    BY <1>2, <1>3, <1>4, <1>5, <1>6

LEMMA RowRuns ==
  ASSUME NEW t, NEW u, t.request.op \in {"touch", "revoke"}, RowSafe(t, db), t.run \in Nat,
         t.run < Len(ScriptOf(t)), Steps(t, ScriptOf(t)[t.run + 1], u), ReceiversFit(db)
  PROVE  RowSafe(u, db)
  <1> DEFINE row == <<"receiver", t.request.receiver>>
  <1>s. Len(ScriptOf(t)) = 1 /\ ScriptOf(t)[1] = SelectForUpdate({row})
    BY RowScript
  <1>1. t.run = 0
    BY <1>s
  <1>2. Steps(t, SelectForUpdate({row}), u)
    BY <1>s, <1>1
  <1>3. /\ GoesOn(t, u) /\ row \in DOMAIN u.read /\ u.read[row] = db[row]
        /\ db[row] # NoRow /\ Wanted(t.request, row) => row \in u.held
    BY <1>2, ForUpdateSteps DEF Reads
  <1>4. (t.request.op = "touch" => ~db[row].revoked) => Wanted(t.request, row)
    BY DEF Wanted
  <1>5. row \in Receivers /\ db[row] \in ReceiverRow \cup {NoRow}
    BY DEF RowSafe, ReceiversFit
  <1> QED
    BY <1>3, <1>4, <1>5 DEF RowSafe, GoesOn

\* What a transaction changes when it commits: rows it holds, and unless it
\* issues a token no more of them count.
ReceiverChange(t, d, e) ==
  /\ \A x \in Receivers : x \notin t.held => e[x] = d[x]
  /\ t.request.op # "issue" => ActiveIn(e) \subseteq ActiveIn(d)
  /\ t.request.op = "issue" => <<"receiver", 0>> \in t.held

LEMMA IssueCommits ==
  ASSUME NEW t, NEW d, NEW e, t.request.op = "issue", t.request.q \in Number, IssueSafe(t, d), t.run \in Nat,
         t.run = Len(ScriptOf(t)), Rows["receivers"] \subseteq DOMAIN d, ReceiversFit(d),
         e = Over(Outcome(t.request, t.read).writes, d)
  PROVE  ReceiversFit(e) /\ ReceiverChange(t, d, e)
  <1> DEFINE r == t.request
             row == <<"receiver", r.q>>
  <1>0. /\ row \in DOMAIN d /\ Machine \in DOMAIN d /\ row # Machine /\ row \in Receivers
        /\ Receivers \subseteq DOMAIN d /\ Machine \notin Receivers
    BY DEF Rows, Receivers, Machine, Table
  <1>1. /\ Receivers \subseteq DOMAIN t.read /\ ActiveIn(d) \subseteq ActiveIn(t.read)
        /\ row \in t.held /\ <<"receiver", 0>> \in t.held
    <2>1. Len(ScriptOf(t)) = 4
      BY IssueScript
    <2>2. t.run = 4
      BY <2>1
    <2> QED
      BY <2>2 DEF IssueSafe
  <1>2. Outcome(r, t.read) = IssueReceiver(r, t.read)
    BY DEF Outcome
  <1>3. CASE Cardinality(ActiveIn(t.read)) >= Cap
    <2>1. Outcome(r, t.read).writes = << >>
      BY <1>2, <1>3 DEF IssueReceiver, Told, ActiveIn
    <2>2. \A x \in Receivers : e[x] = d[x]
      BY <1>0, <2>1, OverNothing
    <2>3. ActiveIn(e) = ActiveIn(d)
      BY <2>2 DEF ActiveIn, Present
    <2> QED
      BY <1>1, <2>2, <2>3 DEF ReceiversFit, ReceiverChange
  <1>4. CASE ~(Cardinality(ActiveIn(t.read)) >= Cap)
    <2>1. Outcome(r, t.read).writes = Over(Put(Machine, "seen"), Put(row, [revoked |-> FALSE, used |-> 0]))
      BY <1>2, <1>4 DEF IssueReceiver, Writes, ActiveIn
    <2>2. /\ e[row] = [revoked |-> FALSE, used |-> 0]
          /\ \A x \in DOMAIN d : x # Machine /\ x # row => e[x] = d[x]
      BY <1>0, <2>1, TwoWrites
    <2>3. \A x \in Receivers : x # row => e[x] = d[x]
      BY <1>0, <2>2
    <2>4. ActiveIn(e) \subseteq ActiveIn(t.read) \cup {row}
      BY <1>1, <2>3 DEF ActiveIn, Present
    <2>5. IsFiniteSet(ActiveIn(t.read))
      BY FiniteRows, FS_Subset DEF ActiveIn, Present
    <2>6. Cardinality(ActiveIn(e)) <= Cap
      BY <1>4, <2>4, <2>5, OneMore
    <2>7. e[row] \in ReceiverRow
      BY <2>2 DEF ReceiverRow
    <2> QED
      BY <1>1, <2>3, <2>6, <2>7 DEF ReceiversFit, ReceiverChange
  <1> QED
    BY <1>3, <1>4

LEMMA RowCommits ==
  ASSUME NEW t, NEW d, NEW e, t.request.op \in {"touch", "revoke"}, RowSafe(t, d), t.run \in Nat,
         t.run = Len(ScriptOf(t)), Rows["receivers"] \subseteq DOMAIN d, ReceiversFit(d),
         e = Over(Outcome(t.request, t.read).writes, d)
  PROVE  ReceiversFit(e) /\ ReceiverChange(t, d, e)
  <1> DEFINE r == t.request
             row == <<"receiver", r.receiver>>
  <1>0. Receivers \subseteq DOMAIN d /\ row \in DOMAIN d /\ row \in Receivers
    BY DEF Rows, RowSafe
  <1>n. r.op = "touch" => r.now \in Nat
    BY DEF RowSafe
  <1>1. /\ t.read[row] \in ReceiverRow \cup {NoRow}
        /\ t.read[row] # NoRow /\ (r.op = "touch" => ~t.read[row].revoked) =>
             row \in t.held /\ d[row] = t.read[row]
    <2>1. Len(ScriptOf(t)) = 1 /\ ScriptOf(t)[1] = SelectForUpdate({<<"receiver", t.request.receiver>>})
      BY RowScript
    <2>2. t.run = 1
      BY <2>1
    <2> QED
      BY <2>2 DEF RowSafe
  <1>2. CASE Outcome(r, t.read).writes = << >>
    <2>1. \A x \in Receivers : e[x] = d[x]
      BY <1>0, <1>2, OverNothing
    <2>2. ActiveIn(e) = ActiveIn(d)
      BY <2>1 DEF ActiveIn, Present
    <2> QED
      BY <2>1, <2>2 DEF ReceiversFit, ReceiverChange
  <1>3. CASE Outcome(r, t.read).writes # << >>
    <2>1. PICK v \in ReceiverRow :
            /\ Outcome(r, t.read).writes = Put(row, v) /\ (d[row].revoked => v.revoked)
            /\ row \in t.held /\ d[row] # NoRow
      <3>1. CASE r.op = "touch"
        <4>1. Outcome(r, t.read) = TouchReceiver(r, t.read)
          BY <3>1 DEF Outcome
        <4>2. t.read[row] # NoRow /\ ~t.read[row].revoked
          BY <1>3, <4>1 DEF TouchReceiver, Told
        <4> DEFINE v == [t.read[row] EXCEPT !.used = IF @ > r.now THEN @ ELSE r.now]
        <4>3. Outcome(r, t.read).writes = Put(row, v)
          BY <4>1, <4>2 DEF TouchReceiver, Writes
        <4>4. v \in ReceiverRow
          BY <1>1, <1>n, <3>1, <4>2 DEF ReceiverRow
        <4> QED
          BY <1>1, <4>2, <4>3, <4>4
      <3>2. CASE r.op = "revoke"
        <4>1. Outcome(r, t.read) = RevokeReceiver(r, t.read)
          BY <3>2 DEF Outcome
        <4>2. t.read[row] # NoRow
          BY <1>3, <4>1 DEF RevokeReceiver, Told
        <4> DEFINE v == [t.read[row] EXCEPT !.revoked = TRUE]
        <4>3. Outcome(r, t.read).writes = Put(row, v)
          BY <4>1, <4>2 DEF RevokeReceiver, Writes
        <4>4. v \in ReceiverRow /\ v.revoked
          BY <1>1, <4>2 DEF ReceiverRow
        <4> QED
          BY <1>1, <3>2, <4>2, <4>3, <4>4
      <3> QED
        BY <3>1, <3>2
    <2>2. e[row] = v /\ \A x \in DOMAIN d : x # row => e[x] = d[x]
      BY <1>0, <2>1, OneWrite
    <2>3. ActiveIn(e) \subseteq ActiveIn(d)
      BY <1>0, <2>1, <2>2 DEF ActiveIn, Present
    <2>4. IsFiniteSet(ActiveIn(d))
      BY FiniteRows, FS_Subset DEF ActiveIn, Present
    <2>5. Cardinality(ActiveIn(e)) <= Cap
      BY <2>3, <2>4, Fewer DEF ReceiversFit
    <2> QED
      BY <1>0, <2>1, <2>2, <2>3, <2>5 DEF ReceiversFit, ReceiverChange
  <1> QED
    BY <1>2, <1>3

LEMMA ReceiversStay ==
  ASSUME NEW t, NEW u, NEW d, NEW e, ReceiverSafe(u, d), ReceiverChange(t, d, e), u.run \in Nat,
         t.held \cap u.held = {}
  PROVE  ReceiverSafe(u, e)
  <1>1. CASE u.request.op = "issue"
    <2>1. CASE u.run >= 1
      <3>1. t.request.op # "issue"
        BY <1>1, <2>1 DEF ReceiverSafe, IssueSafe, ReceiverChange
      <3> QED
        BY <1>1, <3>1 DEF ReceiverSafe, IssueSafe, ReceiverChange
    <2>2. CASE ~(u.run >= 1)
      BY <1>1, <2>2 DEF ReceiverSafe, IssueSafe
    <2> QED
      BY <2>1, <2>2
  <1>2. CASE u.request.op # "issue"
    BY <1>2 DEF ReceiverSafe, RowSafe, ReceiverChange
  <1> QED
    BY <1>1, <1>2

-----------------------------------------------------------------------------
(* Resets: a job is scheduled under the lock of all jobs; claim, complete  *)
(* and cancel lock the rows they find.                                     *)

\* The cap of a schedule was read under the lock, and its job is not there; since
\* then fewer jobs count.
PendingIn(d) == {x \in Jobs : IsPending(d[x])}
Keeps(job) == job # NoRow /\ job.state # "cancelled"

ScheduleSafe(t, d) ==
  LET job == <<"job", t.request.job>> IN
  /\ job \in Jobs
  /\ t.run >= 1 => <<"reset", 0>> \in t.held
  /\ t.run >= 2 => job \in DOMAIN t.read
  /\ t.run = 2 => ~Keeps(t.read[job])
  /\ t.run >= 3 => Jobs \subseteq DOMAIN t.read /\ PendingIn(d) \subseteq PendingIn(t.read)
  /\ t.run >= 4 => job \in t.held

\* The jobs it will change are held and as they were read.
JobsSafe(t, d) ==
  t.run >= 1 =>
    /\ t.request.op = "claim" => \A x \in Jobs :
         /\ t.read[x] \in JobRow \cup {NoRow}
         /\ IsDue(t.request, x[2], t.read[x]) => x \in t.held /\ d[x] = t.read[x]
    /\ t.request.op = "cancel" => \A x \in Jobs : IsPending(t.read[x]) => x \in t.held
    /\ t.request.op = "complete" =>
         LET row == <<"job", t.request.job>> IN IsPending(t.read[row]) => row \in t.held

ResetSafe(t, d) ==
  /\ t.request.op \in {"schedule", "claim", "complete", "cancel"}
  /\ t.request.op = "schedule" => ScheduleSafe(t, d)
  /\ t.request.op = "claim" => t.request.now \in Nat
  /\ t.request.op # "schedule" => JobsSafe(t, d)

ResetsFit(d) ==
  /\ \A x \in Jobs : d[x] \in JobRow \cup {NoRow}
  /\ Cardinality(PendingIn(d)) <= Cap

LEMMA ScheduleScript ==
  ASSUME NEW t, t.request.op = "schedule"
  PROVE  LET job == <<"job", t.request.job>> IN
         /\ ScriptOf(t)[1] = AdvisoryLock("reset") /\ ScriptOf(t)[2] = SelectForUpdate({job})
         /\ Keeps(Found(t.read, job)) =>
              Len(ScriptOf(t)) = 3 /\ Len(Plan(t.request, t.read).reads) = 2
         /\ ~Keeps(Found(t.read, job)) =>
              /\ Len(ScriptOf(t)) = 4 /\ ScriptOf(t)[3] = Select(Jobs) /\ ScriptOf(t)[4] = Upsert(job)
  <1> DEFINE job == <<"job", t.request.job>>
             plan == Plan(t.request, t.read)
  <1>1. plan = SchedulePlan(t.request, t.read)
    BY DEF Plan
  <1>2. CASE Keeps(Found(t.read, job))
    <2>1. /\ plan.reads = <<AdvisoryLock("reset"), SelectForUpdate({job})>> \o << >>
          /\ plan.writes = <<Upsert(job)>>
      BY <1>1, <1>2 DEF SchedulePlan, Statements, If, Keeps
    <2>2. plan.reads = <<AdvisoryLock("reset"), SelectForUpdate({job})>>
      BY <2>1, AppendNone
    <2>3. ScriptOf(t) = <<AdvisoryLock("reset"), SelectForUpdate({job})>> \o <<Upsert(job)>>
      BY <2>1, <2>2 DEF ScriptOf
    <2>4. ScriptOf(t) = <<AdvisoryLock("reset"), SelectForUpdate({job}), Upsert(job)>>
      BY <2>3, Append21
    <2>5. /\ Len(ScriptOf(t)) = 3 /\ Len(plan.reads) = 2
          /\ ScriptOf(t)[1] = AdvisoryLock("reset") /\ ScriptOf(t)[2] = SelectForUpdate({job})
      BY <2>2, <2>4, Long2, Long3
    <2> QED
      BY <1>2, <2>5
  <1>3. CASE ~Keeps(Found(t.read, job))
    <2> DEFINE old == Found(t.read, job)
               kept == IF old = NoRow THEN FALSE ELSE old.state # "cancelled"
    <2>0. ~kept
      BY <1>3 DEF Keeps
    <2>a. plan = Statements(<<AdvisoryLock("reset"), SelectForUpdate({job})>> \o If(~kept, <<Select(Jobs)>>),
                            <<Upsert(job)>>)
      BY <1>1 DEF SchedulePlan
    <2>b. If(~kept, <<Select(Jobs)>>) = <<Select(Jobs)>>
      BY <2>0 DEF If
    <2>1. /\ plan.reads = <<AdvisoryLock("reset"), SelectForUpdate({job})>> \o <<Select(Jobs)>>
          /\ plan.writes = <<Upsert(job)>>
      <3>1. plan = Statements(<<AdvisoryLock("reset"), SelectForUpdate({job})>> \o <<Select(Jobs)>>,
                              <<Upsert(job)>>)
        BY <2>a, <2>b
      <3> QED
        BY <3>1 DEF Statements
    <2>2. plan.reads = <<AdvisoryLock("reset"), SelectForUpdate({job}), Select(Jobs)>>
      BY <2>1, Append21
    <2>3. ScriptOf(t) = <<AdvisoryLock("reset"), SelectForUpdate({job}), Select(Jobs)>> \o <<Upsert(job)>>
      BY <2>1, <2>2 DEF ScriptOf
    <2>4. ScriptOf(t) = <<AdvisoryLock("reset"), SelectForUpdate({job}), Select(Jobs), Upsert(job)>>
      BY <2>3, Append31
    <2>5. /\ Len(ScriptOf(t)) = 4
          /\ ScriptOf(t)[1] = AdvisoryLock("reset") /\ ScriptOf(t)[2] = SelectForUpdate({job})
          /\ ScriptOf(t)[3] = Select(Jobs) /\ ScriptOf(t)[4] = Upsert(job)
      BY <2>4, Long4
    <2> QED
      BY <1>3, <2>5
  <1> QED
    BY <1>2, <1>3

LEMMA JobsScript ==
  ASSUME NEW t, t.request.op \in {"claim", "complete", "cancel"}
  PROVE  /\ Len(ScriptOf(t)) = 1
         /\ t.request.op = "claim" => ScriptOf(t)[1] = SkipLocked(Jobs)
         /\ t.request.op = "complete" => ScriptOf(t)[1] = SelectForUpdate({<<"job", t.request.job>>})
         /\ t.request.op = "cancel" => ScriptOf(t)[1] = SelectForUpdate(Jobs)
  <1> DEFINE s == CASE t.request.op = "claim" -> SkipLocked(Jobs)
                    [] t.request.op = "complete" -> SelectForUpdate({<<"job", t.request.job>>})
                    [] t.request.op = "cancel" -> SelectForUpdate(Jobs)
  <1>1. Plan(t.request, t.read) = Statements(<<s>>, << >>)
    BY DEF Plan
  <1>2. ScriptOf(t) = <<s>>
    BY <1>1, AppendNone DEF ScriptOf, Statements
  <1>3. Len(ScriptOf(t)) = 1 /\ ScriptOf(t)[1] = s
    BY <1>2
  <1> QED
    BY <1>3

LEMMA ScheduleRuns ==
  ASSUME NEW t, NEW u, t.request.op = "schedule", ScheduleSafe(t, db), t.run \in Nat,
         t.run < Len(ScriptOf(t)), Steps(t, ScriptOf(t)[t.run + 1], u)
  PROVE  Quiet(u) \/ ScheduleSafe(u, db)
  <1> DEFINE job == <<"job", t.request.job>>
  <1>j. job \in Jobs
    BY DEF ScheduleSafe
  <1>s. /\ ScriptOf(t)[1] = AdvisoryLock("reset") /\ ScriptOf(t)[2] = SelectForUpdate({job})
        /\ Keeps(Found(t.read, job)) => Len(ScriptOf(t)) = 3
        /\ ~Keeps(Found(t.read, job)) =>
             /\ Len(ScriptOf(t)) = 4 /\ ScriptOf(t)[3] = Select(Jobs) /\ ScriptOf(t)[4] = Upsert(job)
    BY ScheduleScript
  <1>f. t.run >= 2 => Found(t.read, job) = t.read[job]
    BY DEF ScheduleSafe, Found
  <1>2. t.run = 0 \/ t.run = 1 \/ t.run = 2 \/ (t.run = 3 /\ ~Keeps(Found(t.read, job)))
    BY <1>s
  <1>3. CASE t.run = 0
    <2>1. Steps(t, AdvisoryLock("reset"), u)
      BY <1>s, <1>3
    <2>2. GoesOn(t, u) /\ <<"reset", 0>> \in u.held
      BY <2>1, LockSteps
    <2> QED
      BY <1>3, <2>2 DEF ScheduleSafe, GoesOn
  <1>4. CASE t.run = 1
    <2>1. Steps(t, SelectForUpdate({job}), u)
      BY <1>s, <1>4
    <2>2. GoesOn(t, u) /\ job \in DOMAIN u.read
      BY <2>1, ForUpdateSteps DEF Reads
    <2>3. u.request = t.request /\ u.run = 2
      BY <1>4, <2>2 DEF GoesOn
    <2>4. CASE Keeps(u.read[job])
      <3>1. Found(u.read, job) = u.read[job]
        BY <2>2 DEF Found
      <3>2. Len(Plan(u.request, u.read).reads) = 2
        BY <2>3, <2>4, <3>1, ScheduleScript
      <3>3. Outcome(u.request, u.read) = ScheduleReset(u.request, u.read)
        BY <2>3 DEF Outcome
      <3>4. Outcome(u.request, u.read).writes = << >>
        BY <2>3, <2>4, <3>3 DEF ScheduleReset, Keeps, Told
      <3> QED
        BY <2>3, <3>2, <3>4 DEF Quiet
    <2>5. CASE ~Keeps(u.read[job])
      BY <1>4, <2>2, <2>3, <2>5 DEF ScheduleSafe, GoesOn
    <2> QED
      BY <2>4, <2>5
  <1>5. CASE t.run = 2
    <2>0. ~Keeps(Found(t.read, job))
      BY <1>5, <1>f DEF ScheduleSafe
    <2>1. Steps(t, Select(Jobs), u)
      BY <1>s, <1>5, <2>0
    <2>2. GoesOn(t, u) /\ Reads(t, u, Jobs)
      BY <2>1, SelectSteps
    <2>3. Jobs \subseteq DOMAIN u.read /\ PendingIn(db) \subseteq PendingIn(u.read)
      BY <2>2 DEF Reads, PendingIn
    <2> QED
      BY <1>5, <1>j, <2>2, <2>3 DEF ScheduleSafe, GoesOn
  <1>6. CASE t.run = 3 /\ ~Keeps(Found(t.read, job))
    <2>1. Steps(t, Upsert(job), u)
      BY <1>s, <1>6
    <2>2. GoesOn(t, u) /\ Reads(t, u, {job}) /\ job \in u.held
      BY <2>1, UpsertSteps
    <2>3. Jobs \subseteq DOMAIN t.read /\ PendingIn(db) \subseteq PendingIn(t.read)
      BY <1>6 DEF ScheduleSafe
    <2>4. \A x \in Jobs : x \in DOMAIN u.read /\ u.read[x] = IF x = job THEN db[x] ELSE t.read[x]
      BY <2>2, <2>3 DEF Reads
    <2>6. Jobs \subseteq DOMAIN u.read /\ PendingIn(db) \subseteq PendingIn(u.read)
      BY <2>3, <2>4 DEF PendingIn
    <2> QED
      BY <1>6, <2>2, <2>6 DEF ScheduleSafe, GoesOn
  <1> QED
    BY <1>2, <1>3, <1>4, <1>5, <1>6

LEMMA JobsRun ==
  ASSUME NEW t, NEW u, t.request.op \in {"claim", "complete", "cancel"}, t.run \in Nat,
         t.run < Len(ScriptOf(t)), Steps(t, ScriptOf(t)[t.run + 1], u), ResetsFit(db)
  PROVE  u.request = t.request /\ u.run \in Nat /\ JobsSafe(u, db)
  <1>s. /\ Len(ScriptOf(t)) = 1
        /\ t.request.op = "claim" => ScriptOf(t)[1] = SkipLocked(Jobs)
        /\ t.request.op = "complete" => ScriptOf(t)[1] = SelectForUpdate({<<"job", t.request.job>>})
        /\ t.request.op = "cancel" => ScriptOf(t)[1] = SelectForUpdate(Jobs)
    BY JobsScript
  <1>1. t.run = 0
    BY <1>s
  <1>2. Steps(t, ScriptOf(t)[1], u)
    BY <1>1
  <1>3. CASE t.request.op = "claim"
    <2>1. /\ GoesOn(t, u)
          /\ \A x \in Jobs : x \in DOMAIN u.read /\ u.read[x] \in {NoRow, db[x]}
          /\ \A x \in Jobs : u.read[x] # NoRow /\ Wanted(t.request, x) => x \in u.held
      BY <1>s, <1>2, <1>3, SkipLockedSteps
    <2>2. \A x : Wanted(t.request, x) = IsDue(t.request, x[2], db[x])
      BY <1>3 DEF Wanted
    <2>3. u.request = t.request /\ u.run = 1
      BY <1>1, <2>1 DEF GoesOn
    <2>4. ASSUME NEW x \in Jobs
          PROVE  /\ u.read[x] \in JobRow \cup {NoRow}
                 /\ IsDue(t.request, x[2], u.read[x]) => x \in u.held /\ db[x] = u.read[x]
      <3>1. u.read[x] \in JobRow \cup {NoRow}
        BY <2>1 DEF ResetsFit
      <3>2. IsDue(t.request, x[2], u.read[x]) => u.read[x] # NoRow
        BY DEF IsDue, IsPending
      <3> QED
        BY <2>1, <2>2, <3>1, <3>2
    <2> QED
      BY <1>3, <2>3, <2>4 DEF JobsSafe
  <1>4. CASE t.request.op = "complete"
    <2> DEFINE row == <<"job", t.request.job>>
    <2>1. /\ GoesOn(t, u) /\ u.read[row] = db[row]
          /\ db[row] # NoRow /\ Wanted(t.request, row) => row \in u.held
      BY <1>s, <1>2, <1>4, ForUpdateSteps DEF Reads
    <2>2. Wanted(t.request, row) = IsPending(db[row])
      BY <1>4 DEF Wanted
    <2>3. u.request = t.request /\ u.run = 1
      BY <1>1, <2>1 DEF GoesOn
    <2>4. IsPending(u.read[row]) => row \in u.held
      BY <2>1, <2>2 DEF IsPending
    <2> QED
      BY <1>4, <2>3, <2>4 DEF JobsSafe
  <1>5. CASE t.request.op = "cancel"
    <2>1. /\ GoesOn(t, u) /\ \A x \in Jobs : u.read[x] = db[x]
          /\ \A x \in Jobs : db[x] # NoRow /\ Wanted(t.request, x) => x \in u.held
      BY <1>s, <1>2, <1>5, ForUpdateSteps DEF Reads
    <2>2. \A x : Wanted(t.request, x) = IsPending(db[x])
      BY <1>5 DEF Wanted
    <2>3. u.request = t.request /\ u.run = 1
      BY <1>1, <2>1 DEF GoesOn
    <2>4. \A x \in Jobs : IsPending(u.read[x]) => x \in u.held
      BY <2>1, <2>2 DEF IsPending
    <2> QED
      BY <1>5, <2>3, <2>4 DEF JobsSafe
  <1> QED
    BY <1>3, <1>4, <1>5

ResetChange(t, d, e) ==
  /\ \A x \in Jobs : x \notin t.held => e[x] = d[x]
  /\ t.request.op # "schedule" => PendingIn(e) \subseteq PendingIn(d)
  /\ t.request.op = "schedule" => <<"reset", 0>> \in t.held

LEMMA PendingIsFinite == ASSUME NEW d PROVE IsFiniteSet(PendingIn(d))
  BY FiniteRows, FS_Subset DEF PendingIn

LEMMA SameResets ==
  ASSUME NEW t, NEW d, NEW e, ResetsFit(d), \A x \in Jobs : e[x] = d[x],
         t.request.op = "schedule" => <<"reset", 0>> \in t.held
  PROVE  ResetsFit(e) /\ ResetChange(t, d, e)
  <1>1. PendingIn(e) = PendingIn(d)
    BY DEF PendingIn
  <1> QED
    BY <1>1 DEF ResetsFit, ResetChange

LEMMA FewerResets ==
  ASSUME NEW t, NEW d, NEW e, ResetsFit(d), t.request.op # "schedule",
         \A x \in Jobs : e[x] \in JobRow \cup {NoRow} /\ (x \notin t.held => e[x] = d[x]),
         PendingIn(e) \subseteq PendingIn(d)
  PROVE  ResetsFit(e) /\ ResetChange(t, d, e)
  <1>1. Cardinality(PendingIn(e)) <= Cap
    BY PendingIsFinite, Fewer DEF ResetsFit
  <1> QED
    BY <1>1 DEF ResetsFit, ResetChange

LEMMA ScheduleCommits ==
  ASSUME NEW t, NEW d, NEW e, t.request.op = "schedule", ScheduleSafe(t, d), t.run \in Nat,
         t.run = Len(ScriptOf(t)), Rows["resets"] \subseteq DOMAIN d, ResetsFit(d),
         e = Over(Outcome(t.request, t.read).writes, d)
  PROVE  ResetsFit(e) /\ ResetChange(t, d, e)
  <1> DEFINE r == t.request
             job == <<"job", r.job>>
  <1>0. Jobs \subseteq DOMAIN d /\ job \in DOMAIN d /\ job \in Jobs
    BY DEF Rows, ScheduleSafe
  <1>s. /\ Keeps(Found(t.read, job)) => Len(ScriptOf(t)) = 3
        /\ ~Keeps(Found(t.read, job)) => Len(ScriptOf(t)) = 4
    BY ScheduleScript
  <1>1. t.run = 3 \/ t.run = 4
    BY <1>s
  <1>2. /\ <<"reset", 0>> \in t.held /\ job \in DOMAIN t.read /\ Found(t.read, job) = t.read[job]
        /\ PendingIn(d) \subseteq PendingIn(t.read) /\ (t.run = 4 => job \in t.held)
    <2>1. CASE t.run = 3
      BY <2>1 DEF ScheduleSafe, Found
    <2>2. CASE t.run = 4
      BY <2>2 DEF ScheduleSafe, Found
    <2> QED
      BY <1>1, <2>1, <2>2
  <1>3. Outcome(r, t.read) = ScheduleReset(r, t.read)
    BY DEF Outcome
  <1>4. CASE Outcome(r, t.read).writes = << >>
    <2>1. \A x \in Jobs : e[x] = d[x]
      BY <1>0, <1>4, OverNothing
    <2> QED
      BY <1>2, <2>1, SameResets
  <1>5. CASE Outcome(r, t.read).writes # << >>
    <2>1. /\ ~Keeps(t.read[job]) /\ ~(Cardinality(PendingIn(t.read)) >= Cap)
          /\ Outcome(r, t.read).writes = Put(job, [state |-> "pending", lease |-> 0])
      BY <1>3, <1>5 DEF ScheduleReset, Told, Writes, Keeps, PendingIn
    <2>2. t.run = 4
      BY <1>s, <1>2, <2>1
    <2>3. /\ e[job] = [state |-> "pending", lease |-> 0]
          /\ \A x \in DOMAIN d : x # job => e[x] = d[x]
      BY <1>0, <2>1, OneWrite
    <2>4. PendingIn(e) \subseteq PendingIn(t.read) \cup {job}
      BY <1>0, <1>2, <2>3 DEF PendingIn
    <2>5. Cardinality(PendingIn(e)) <= Cap
      BY <2>1, <2>4, PendingIsFinite, OneMore
    <2>6. e[job] \in JobRow
      BY <2>3 DEF JobRow
    <2> QED
      BY <1>0, <1>2, <2>2, <2>3, <2>5, <2>6 DEF ResetsFit, ResetChange
  <1> QED
    BY <1>4, <1>5

LEMMA JobsLength ==
  ASSUME NEW t, t.request.op \in {"claim", "complete", "cancel"}, t.run = Len(ScriptOf(t))
  PROVE  t.run = 1
  <1>1. /\ Len(ScriptOf(t)) = 1
        /\ t.request.op = "claim" => ScriptOf(t)[1] = SkipLocked(Jobs)
        /\ t.request.op = "complete" => ScriptOf(t)[1] = SelectForUpdate({<<"job", t.request.job>>})
        /\ t.request.op = "cancel" => ScriptOf(t)[1] = SelectForUpdate(Jobs)
    BY JobsScript
  <1> QED
    BY <1>1

LEMMA JobsCommit ==
  ASSUME NEW t, NEW d, NEW e, t.request.op \in {"claim", "complete", "cancel"}, JobsSafe(t, d),
         t.request.op = "claim" => t.request.now \in Nat, t.run \in Nat,
         t.run = Len(ScriptOf(t)), Rows["resets"] \subseteq DOMAIN d, ResetsFit(d),
         e = Over(Outcome(t.request, t.read).writes, d)
  PROVE  ResetsFit(e) /\ ResetChange(t, d, e)
  <1> DEFINE r == t.request
             w == Outcome(r, t.read).writes
  <1>0. Jobs \subseteq DOMAIN d
    BY DEF Rows
  <1>a. t.request.op \in {"claim", "complete", "cancel"} /\ t.run = Len(ScriptOf(t))
    OBVIOUS
  <1>1. t.run = 1
    BY ONLY <1>a, JobsLength
  <1>2. CASE w = << >>
    <2>1. \A x \in Jobs : e[x] = d[x]
      BY <1>0, <1>2, OverNothing
    <2> QED
      BY <2>1, SameResets
  <1>3. CASE w # << >> /\ r.op = "claim"
    <2> DEFINE due == {x \in Jobs : IsDue(r, x[2], t.read[x])}
    <2>1. Outcome(r, t.read) = ClaimResets(r, t.read)
      BY <1>3 DEF Outcome
    <2>2. w = [x \in due |-> [t.read[x] EXCEPT !.lease = r.now + 1]]
      BY <1>3, <2>1 DEF ClaimResets, Told, Writes
    <2>3. \A x \in Jobs : e[x] = IF x \in due THEN [t.read[x] EXCEPT !.lease = r.now + 1] ELSE d[x]
      <3>1. DOMAIN w = due /\ \A x \in due : w[x] = [t.read[x] EXCEPT !.lease = r.now + 1]
        BY <2>2
      <3>2. \A x \in Jobs : e[x] = IF x \in DOMAIN w THEN w[x] ELSE d[x]
        BY <1>0, OverAt
      <3> QED
        BY <3>1, <3>2
    <2>4. \A x \in due : x \in t.held /\ d[x] = t.read[x] /\ t.read[x] \in JobRow
      BY <1>1, <1>3 DEF JobsSafe, IsDue, IsPending
    <2>5. ASSUME NEW x \in due PROVE e[x] \in JobRow /\ IsPending(d[x])
      <3>1. e[x] = [t.read[x] EXCEPT !.lease = r.now + 1] /\ t.read[x] \in JobRow /\ r.now \in Nat
        BY <1>3, <2>3, <2>4
      <3>2. e[x] \in JobRow
        BY <3>1 DEF JobRow
      <3>3. IsPending(d[x])
        BY <2>4 DEF IsDue
      <3> QED
        BY <3>2, <3>3
    <2>6. \A x \in Jobs : e[x] \in JobRow \cup {NoRow} /\ (x \notin t.held => e[x] = d[x])
      BY <2>3, <2>4, <2>5 DEF ResetsFit
    <2>7. PendingIn(e) \subseteq PendingIn(d)
      BY <2>3, <2>5 DEF PendingIn
    <2>8. t.request.op # "schedule"
      BY <1>3
    <2> QED
      BY <2>6, <2>7, <2>8, FewerResets
  <1>4. CASE w # << >> /\ r.op = "complete"
    <2> DEFINE row == <<"job", r.job>>
               done == [state |-> "delivered", lease |-> 0]
    <2>1. Outcome(r, t.read) = CompleteReset(r, t.read)
      BY <1>4 DEF Outcome
    <2>2. w = Put(row, done) /\ IsPending(t.read[row])
      BY <1>4, <2>1 DEF CompleteReset, Told, Writes
    <2>3. \A x \in Jobs : e[x] = IF x = row THEN done ELSE d[x]
      BY <1>0, <2>2, PutOver
    <2>4. row \in t.held
      BY <1>1, <1>4, <2>2 DEF JobsSafe
    <2>5. done \in JobRow /\ ~IsPending(done)
      BY DEF JobRow, IsPending
    <2>6. \A x \in Jobs : e[x] \in JobRow \cup {NoRow} /\ (x \notin t.held => e[x] = d[x])
      BY <2>3, <2>4, <2>5 DEF ResetsFit
    <2>7. PendingIn(e) \subseteq PendingIn(d)
      BY <2>3, <2>5 DEF PendingIn
    <2>8. t.request.op # "schedule"
      BY <1>4
    <2> QED
      BY <2>6, <2>7, <2>8, FewerResets
  <1>5. CASE w # << >> /\ r.op = "cancel"
    <2> DEFINE pending == {x \in Jobs : IsPending(t.read[x])}
               done == [state |-> "cancelled", lease |-> 0]
    <2>1. Outcome(r, t.read) = CancelResets(r, t.read)
      BY <1>5 DEF Outcome
    <2>2. w = [x \in pending |-> done]
      BY <1>5, <2>1 DEF CancelResets, Told, Writes
    <2>3. \A x \in Jobs : e[x] = IF x \in pending THEN done ELSE d[x]
      <3>1. DOMAIN w = pending /\ \A x \in pending : w[x] = done
        BY <2>2
      <3>2. \A x \in Jobs : e[x] = IF x \in DOMAIN w THEN w[x] ELSE d[x]
        BY <1>0, OverAt
      <3> QED
        BY <3>1, <3>2
    <2>4. \A x \in pending : x \in t.held
      BY <1>1, <1>5 DEF JobsSafe
    <2>5. done \in JobRow /\ ~IsPending(done)
      BY DEF JobRow, IsPending
    <2>6. \A x \in Jobs : e[x] \in JobRow \cup {NoRow} /\ (x \notin t.held => e[x] = d[x])
      BY <2>3, <2>4, <2>5 DEF ResetsFit
    <2>7. PendingIn(e) \subseteq PendingIn(d)
      BY <2>3, <2>5 DEF PendingIn
    <2>8. t.request.op # "schedule"
      BY <1>5
    <2> QED
      BY <2>6, <2>7, <2>8, FewerResets
  <1> QED
    BY <1>2, <1>3, <1>4, <1>5

LEMMA ResetsStay ==
  ASSUME NEW t, NEW u, NEW d, NEW e, ResetSafe(u, d), ResetChange(t, d, e), u.run \in Nat,
         t.held \cap u.held = {}
  PROVE  ResetSafe(u, e)
  <1>1. CASE u.request.op = "schedule"
    <2>1. CASE u.run >= 1
      <3>1. t.request.op # "schedule"
        BY <1>1, <2>1 DEF ResetSafe, ScheduleSafe, ResetChange
      <3> QED
        BY <1>1, <3>1 DEF ResetSafe, ScheduleSafe, ResetChange
    <2>2. CASE ~(u.run >= 1)
      BY <1>1, <2>2 DEF ResetSafe, ScheduleSafe
    <2> QED
      BY <2>1, <2>2
  <1>2. CASE u.request.op # "schedule"
    BY <1>2 DEF ResetSafe, JobsSafe, ResetChange
  <1> QED
    BY <1>1, <1>2

-----------------------------------------------------------------------------
(* Alerts: an event is recorded, and the subscription deleted with its     *)
(* events, under the subscription's row; a reply under its event's.        *)

\* The events of d were seen by an operation that holds the subscription.
SeesEvents(t, d) == \A x \in Events :
  x \in DOMAIN t.read /\ (d[x] # NoRow => t.read[x] # NoRow /\ t.read[x].at = d[x].at)

\* A record and a delete, if the subscription is there, hold it and have seen the
\* events; a reply holds its event and has seen its replies.
RecordSafe(t, d) ==
  /\ t.request.now \in Nat
  /\ t.run >= 1 =>
       Subscription \in DOMAIN t.read /\ (IsSub(t.request, t.read) => Subscription \in t.held)
  /\ t.run >= 2 => (IsSub(t.request, t.read) => SeesEvents(t, d))
  /\ t.run >= 3 => (IsSub(t.request, t.read) => <<"event", t.request.q>> \in t.held)

DeleteSafe(t, d) ==
  /\ t.run >= 1 =>
       Subscription \in DOMAIN t.read /\ (IsSub(t.request, t.read) => Subscription \in t.held)
  /\ t.run >= 2 => (IsSub(t.request, t.read) => Present(d, Events) \subseteq t.held)

ReplySafe(t, d) ==
  LET event == <<"event", t.request.event>> IN
  /\ t.request.event \in Number
  /\ t.run >= 1 => event \in DOMAIN t.read /\ (t.read[event] # NoRow => event \in t.held
     /\ d[event] = t.read[event])
  /\ t.run >= 2 => (t.read[event] # NoRow => \A x \in Replies :
       x \in DOMAIN t.read /\ (d[x] = t.request.event => t.read[x] = t.request.event))

AlertSafe(t, d) ==
  /\ t.request.op \in {"create_subscription", "delete_subscription", "record_alert", "reply"}
  /\ t.request.q \in Number
  /\ t.request.op = "record_alert" => RecordSafe(t, d)
  /\ t.request.op = "delete_subscription" => DeleteSafe(t, d)
  /\ t.request.op = "reply" => ReplySafe(t, d)

RepliesTo(n, d) == {x \in Replies : d[x] = n}

AlertsFit(d) ==
  /\ \A x \in Events : d[x] \in EventRow \cup {NoRow}
  /\ \A n \in Number : Cardinality(RepliesTo(n, d)) <= Cap
  /\ \A x, y \in Present(d, Events) :
       x # y => d[x].at + Cooldown <= d[y].at \/ d[y].at + Cooldown <= d[x].at

LEMMA RecordScript ==
  ASSUME NEW t, t.request.op = "record_alert"
  PROVE  /\ ScriptOf(t)[1] = SelectForUpdate({Subscription})
         /\ IsSub(t.request, t.read) =>
              /\ Len(ScriptOf(t)) = 3 /\ ScriptOf(t)[2] = Select(Events)
              /\ ScriptOf(t)[3] = Insert(<<"event", t.request.q>>)
         /\ ~IsSub(t.request, t.read) =>
              Len(ScriptOf(t)) = 2 /\ ScriptOf(t)[2] = Insert(<<"event", t.request.q>>)
  <1> DEFINE s1 == SelectForUpdate({Subscription})
             s3 == Insert(<<"event", t.request.q>>)
             plan == Plan(t.request, t.read)
  <1>1. plan = Statements(<<s1>> \o If(IsSub(t.request, t.read), <<Select(Events)>>), <<s3>>)
    BY DEF Plan, RecordPlan
  <1>2. CASE IsSub(t.request, t.read)
    <2>1. plan = Statements(<<s1>> \o <<Select(Events)>>, <<s3>>)
      BY <1>1, <1>2 DEF If
    <2>2. plan = Statements(<<s1, Select(Events)>>, <<s3>>)
      BY <2>1, Append11
    <2>3. ScriptOf(t) = <<s1, Select(Events)>> \o <<s3>>
      BY <2>2 DEF ScriptOf, Statements
    <2>4. ScriptOf(t) = <<s1, Select(Events), s3>>
      BY <2>3, Append21
    <2> QED
      BY <1>2, <2>4, Long3
  <1>3. CASE ~IsSub(t.request, t.read)
    <2>1. plan = Statements(<<s1>> \o << >>, <<s3>>)
      BY <1>1, <1>3 DEF If
    <2>2. plan = Statements(<<s1>>, <<s3>>)
      BY <2>1, AppendNone
    <2>3. ScriptOf(t) = <<s1>> \o <<s3>>
      BY <2>2 DEF ScriptOf, Statements
    <2>4. ScriptOf(t) = <<s1, s3>>
      BY <2>3, Append11
    <2> QED
      BY <1>3, <2>4, Long2
  <1> QED
    BY <1>2, <1>3

LEMMA DeleteScript ==
  ASSUME NEW t, t.request.op = "delete_subscription"
  PROVE  /\ Len(ScriptOf(t)) = 3 /\ ScriptOf(t)[1] = SelectForUpdate({Subscription})
         /\ ScriptOf(t)[2] = SelectForUpdate(Events) /\ ScriptOf(t)[3] = SelectForUpdate(Replies)
  <1>1. Plan(t.request, t.read) = DeletePlan(t.request, t.read)
    BY DEF Plan
  <1>2. ScriptOf(t) = <<SelectForUpdate({Subscription})>> \o <<SelectForUpdate(Events), SelectForUpdate(Replies)>>
    BY <1>1 DEF ScriptOf, DeletePlan, Statements
  <1>3. ScriptOf(t) = <<SelectForUpdate({Subscription}), SelectForUpdate(Events), SelectForUpdate(Replies)>>
    BY <1>2, Append12
  <1> QED
    BY <1>3, Long3

LEMMA ReplyScript ==
  ASSUME NEW t, t.request.op = "reply"
  PROVE  LET event == <<"event", t.request.event>> IN
         /\ ScriptOf(t)[1] = SelectForUpdate({event})
         /\ Found(t.read, event) # NoRow =>
              /\ Len(ScriptOf(t)) = 3 /\ ScriptOf(t)[2] = Select(Replies)
              /\ ScriptOf(t)[3] = Insert(<<"reply", t.request.q>>)
         /\ ~(Found(t.read, event) # NoRow) =>
              Len(ScriptOf(t)) = 2 /\ ScriptOf(t)[2] = Insert(<<"reply", t.request.q>>)
  <1> DEFINE event == <<"event", t.request.event>>
             s1 == SelectForUpdate({event})
             s3 == Insert(<<"reply", t.request.q>>)
             plan == Plan(t.request, t.read)
  <1>1. plan = Statements(<<s1>> \o If(Found(t.read, event) # NoRow, <<Select(Replies)>>), <<s3>>)
    BY DEF Plan, ReplyPlan
  <1>2. CASE Found(t.read, event) # NoRow
    <2>1. plan = Statements(<<s1>> \o <<Select(Replies)>>, <<s3>>)
      BY <1>1, <1>2 DEF If
    <2>2. plan = Statements(<<s1, Select(Replies)>>, <<s3>>)
      BY <2>1, Append11
    <2>3. ScriptOf(t) = <<s1, Select(Replies)>> \o <<s3>>
      BY <2>2 DEF ScriptOf, Statements
    <2>4. ScriptOf(t) = <<s1, Select(Replies), s3>>
      BY <2>3, Append21
    <2> QED
      BY <1>2, <2>4, Long3
  <1>3. CASE ~(Found(t.read, event) # NoRow)
    <2>1. plan = Statements(<<s1>> \o << >>, <<s3>>)
      BY <1>1, <1>3 DEF If
    <2>2. plan = Statements(<<s1>>, <<s3>>)
      BY <2>1, AppendNone
    <2>3. ScriptOf(t) = <<s1>> \o <<s3>>
      BY <2>2 DEF ScriptOf, Statements
    <2>4. ScriptOf(t) = <<s1, s3>>
      BY <2>3, Append11
    <2> QED
      BY <1>3, <2>4, Long2
  <1> QED
    BY <1>2, <1>3

LEMMA SameSub ==
  ASSUME NEW r, NEW read, NEW other, Subscription \in DOMAIN read, Subscription \in DOMAIN other,
         other[Subscription] = read[Subscription]
  PROVE  IsSub(r, other) <=> IsSub(r, read)
  BY DEF IsSub, Found

\* The first statement of a record or a delete holds the subscription it finds.
LEMMA HoldsSub ==
  ASSUME NEW t, NEW u, t.request.op \in {"record_alert", "delete_subscription"},
         Steps(t, SelectForUpdate({Subscription}), u)
  PROVE  /\ GoesOn(t, u) /\ Subscription \in DOMAIN u.read
         /\ IsSub(t.request, u.read) => Subscription \in u.held
  <1>1. /\ GoesOn(t, u) /\ Subscription \in DOMAIN u.read /\ u.read[Subscription] = db[Subscription]
        /\ db[Subscription] # NoRow /\ Wanted(t.request, Subscription) => Subscription \in u.held
    BY ForUpdateSteps DEF Reads
  <1>2. Wanted(t.request, Subscription) <=> db[Subscription].id = t.request.sub
    BY DEF Wanted
  <1> QED
    BY <1>1, <1>2 DEF IsSub, Found

LEMMA RecordRuns ==
  ASSUME NEW t, NEW u, t.request.op = "record_alert", RecordSafe(t, db), t.run \in Nat,
         t.run < Len(ScriptOf(t)), Steps(t, ScriptOf(t)[t.run + 1], u)
  PROVE  RecordSafe(u, db)
  <1> DEFINE row == <<"event", t.request.q>>
             sub == IsSub(t.request, t.read)
  <1>s. /\ ScriptOf(t)[1] = SelectForUpdate({Subscription})
        /\ sub => Len(ScriptOf(t)) = 3 /\ ScriptOf(t)[2] = Select(Events) /\ ScriptOf(t)[3] = Insert(row)
        /\ ~sub => Len(ScriptOf(t)) = 2 /\ ScriptOf(t)[2] = Insert(row)
    BY RecordScript
  <1>2. t.run = 0 \/ (t.run = 1 /\ sub) \/ (t.run = 1 /\ ~sub) \/ (t.run = 2 /\ sub)
    BY <1>s
  <1>e. Subscription \notin Events
    BY DEF Subscription, Events, Table
  <1>3. CASE t.run = 0
    <2>1. Steps(t, SelectForUpdate({Subscription}), u)
      BY <1>s, <1>3
    <2>2. /\ GoesOn(t, u) /\ Subscription \in DOMAIN u.read
          /\ IsSub(t.request, u.read) => Subscription \in u.held
      <3>1. t.request.op \in {"record_alert", "delete_subscription"}
        OBVIOUS
      <3> QED
        BY ONLY <2>1, <3>1, HoldsSub
    <2> QED
      BY <1>3, <2>2 DEF RecordSafe, GoesOn
  <1>4. CASE t.run = 1 /\ sub
    <2>1. Steps(t, Select(Events), u)
      BY <1>s, <1>4
    <2>2. GoesOn(t, u) /\ Reads(t, u, Events)
      BY <2>1, SelectSteps
    <2>3. Subscription \in DOMAIN t.read /\ Subscription \in t.held
      BY <1>4 DEF RecordSafe
    <2>4. SeesEvents(u, db)
      BY <2>2 DEF Reads, SeesEvents
    <2>5. Subscription \in DOMAIN u.read
      BY <1>e, <2>2, <2>3 DEF Reads
    <2> QED
      BY <1>4, <2>2, <2>3, <2>4, <2>5 DEF RecordSafe, GoesOn
  <1>5. CASE t.run = 1 /\ ~sub
    <2>1. Steps(t, Insert(row), u)
      BY <1>s, <1>5
    <2>2. GoesOn(t, u) /\ SameRead(t, u)
      BY <2>1, InsertSteps
    <2>3. Subscription \in DOMAIN t.read /\ Subscription \in DOMAIN u.read
           /\ u.read[Subscription] = t.read[Subscription]
      BY <1>5, <2>2 DEF RecordSafe, SameRead
    <2>4. ~IsSub(t.request, u.read)
      BY <1>5, <2>3, SameSub
    <2> QED
      BY <1>5, <2>2, <2>3, <2>4 DEF RecordSafe, GoesOn
  <1>6. CASE t.run = 2 /\ sub
    <2>1. Steps(t, Insert(row), u)
      BY <1>s, <1>6
    <2>2. GoesOn(t, u) /\ SameRead(t, u) /\ row \in u.held
      BY <2>1, InsertSteps
    <2>3. Subscription \in DOMAIN t.read /\ Subscription \in t.held /\ SeesEvents(t, db)
      BY <1>6 DEF RecordSafe
    <2>4. SeesEvents(u, db) /\ Subscription \in DOMAIN u.read
      BY <2>2, <2>3 DEF SameRead, SeesEvents
    <2> QED
      BY <1>6, <2>2, <2>3, <2>4 DEF RecordSafe, GoesOn
  <1> QED
    BY <1>2, <1>3, <1>4, <1>5, <1>6

LEMMA DeleteRuns ==
  ASSUME NEW t, NEW u, t.request.op = "delete_subscription", DeleteSafe(t, db), t.run \in Nat,
         t.run < Len(ScriptOf(t)), Steps(t, ScriptOf(t)[t.run + 1], u)
  PROVE  DeleteSafe(u, db)
  <1>s. /\ Len(ScriptOf(t)) = 3 /\ ScriptOf(t)[1] = SelectForUpdate({Subscription})
        /\ ScriptOf(t)[2] = SelectForUpdate(Events) /\ ScriptOf(t)[3] = SelectForUpdate(Replies)
    BY DeleteScript
  <1>2. t.run = 0 \/ t.run = 1 \/ t.run = 2
    BY <1>s
  <1>e. Subscription \notin Events /\ Subscription \notin Replies
    BY DEF Subscription, Events, Replies, Table
  <1>3. CASE t.run = 0
    <2>1. Steps(t, SelectForUpdate({Subscription}), u)
      BY <1>s, <1>3
    <2>2. /\ GoesOn(t, u) /\ Subscription \in DOMAIN u.read
          /\ IsSub(t.request, u.read) => Subscription \in u.held
      <3>1. t.request.op \in {"record_alert", "delete_subscription"}
        OBVIOUS
      <3> QED
        BY ONLY <2>1, <3>1, HoldsSub
    <2> QED
      BY <1>3, <2>2 DEF DeleteSafe, GoesOn
  <1>4. CASE t.run \in {1, 2}
    <2>1. PICK S \in {Events, Replies} :
            Steps(t, SelectForUpdate(S), u) /\ (t.run = 1 => S = Events)
      BY <1>s, <1>4
    <2>2. /\ GoesOn(t, u) /\ Reads(t, u, S)
          /\ \A row \in S : db[row] # NoRow /\ Wanted(t.request, row) => row \in u.held
      BY <2>1, ForUpdateSteps
    <2>3. Subscription \in DOMAIN t.read /\ (IsSub(t.request, t.read) => Subscription \in t.held)
      BY <1>4 DEF DeleteSafe
    <2>4. Subscription \in DOMAIN u.read /\ u.read[Subscription] = t.read[Subscription]
      BY <1>e, <2>1, <2>2, <2>3 DEF Reads
    <2>5. IsSub(t.request, u.read) <=> IsSub(t.request, t.read)
      BY <2>3, <2>4, SameSub
    <2>6. \A row \in Events : Wanted(t.request, row)
      BY <1>e DEF Wanted
    <2>7. IsSub(t.request, u.read) => Present(db, Events) \subseteq u.held
      <3>1. CASE t.run = 1
        BY <2>1, <2>2, <2>6, <3>1 DEF Present
      <3>2. CASE t.run = 2
        BY <2>2, <2>5, <3>2 DEF DeleteSafe, GoesOn
      <3> QED
        BY <1>4, <3>1, <3>2
    <2> QED
      BY <1>4, <2>2, <2>3, <2>4, <2>5, <2>7 DEF DeleteSafe, GoesOn
  <1> QED
    BY <1>2, <1>3, <1>4

LEMMA ReplyRuns ==
  ASSUME NEW t, NEW u, t.request.op = "reply", ReplySafe(t, db), t.run \in Nat,
         t.run < Len(ScriptOf(t)), Steps(t, ScriptOf(t)[t.run + 1], u)
  PROVE  ReplySafe(u, db)
  <1> DEFINE event == <<"event", t.request.event>>
             row == <<"reply", t.request.q>>
             found == Found(t.read, event) # NoRow
  <1>s. /\ ScriptOf(t)[1] = SelectForUpdate({event})
        /\ found => Len(ScriptOf(t)) = 3 /\ ScriptOf(t)[2] = Select(Replies) /\ ScriptOf(t)[3] = Insert(row)
        /\ ~found => Len(ScriptOf(t)) = 2 /\ ScriptOf(t)[2] = Insert(row)
    BY ReplyScript
  <1>2. t.run = 0 \/ (t.run = 1 /\ found) \/ (t.run = 1 /\ ~found) \/ (t.run = 2 /\ found)
    BY <1>s
  <1>e. event \notin Replies /\ t.request.event \in Number
    BY DEF ReplySafe, Replies, Table
  <1>f. t.run >= 1 => /\ event \in DOMAIN t.read /\ Found(t.read, event) = t.read[event]
                      /\ t.read[event] # NoRow => event \in t.held /\ db[event] = t.read[event]
    BY DEF ReplySafe, Found
  <1>3. CASE t.run = 0
    <2>1. Steps(t, SelectForUpdate({event}), u)
      BY <1>s, <1>3
    <2>2. /\ GoesOn(t, u) /\ event \in DOMAIN u.read /\ u.read[event] = db[event]
          /\ db[event] # NoRow /\ Wanted(t.request, event) => event \in u.held
      BY <2>1, ForUpdateSteps DEF Reads
    <2>3. Wanted(t.request, event)
      BY DEF Wanted
    <2> QED
      BY <1>e, <1>3, <2>2, <2>3 DEF ReplySafe, GoesOn
  <1>4. CASE t.run = 1 /\ found
    <2>1. Steps(t, Select(Replies), u)
      BY <1>s, <1>4
    <2>2. GoesOn(t, u) /\ Reads(t, u, Replies)
      BY <2>1, SelectSteps
    <2>3. event \in DOMAIN u.read /\ u.read[event] = t.read[event]
      BY <1>e, <1>f, <1>4, <2>2 DEF Reads
    <2>4. \A x \in Replies : x \in DOMAIN u.read /\ u.read[x] = db[x]
      BY <2>2 DEF Reads
    <2> QED
      BY <1>e, <1>f, <1>4, <2>2, <2>3, <2>4 DEF ReplySafe, GoesOn
  <1>5. CASE t.run = 1 /\ ~found
    <2>1. Steps(t, Insert(row), u)
      BY <1>s, <1>5
    <2>2. GoesOn(t, u) /\ SameRead(t, u)
      BY <2>1, InsertSteps
    <2>3. event \in DOMAIN u.read /\ u.read[event] = NoRow
      BY <1>f, <1>5, <2>2 DEF SameRead
    <2> QED
      BY <1>e, <1>5, <2>2, <2>3 DEF ReplySafe, GoesOn
  <1>6. CASE t.run = 2 /\ found
    <2>1. Steps(t, Insert(row), u)
      BY <1>s, <1>6
    <2>2. GoesOn(t, u) /\ SameRead(t, u)
      BY <2>1, InsertSteps
    <2>3. event \in DOMAIN u.read /\ u.read[event] = t.read[event]
      BY <1>f, <1>6, <2>2 DEF SameRead
    <2>4. \A x \in Replies :
            x \in DOMAIN t.read /\ (db[x] = t.request.event => t.read[x] = t.request.event)
      BY <1>f, <1>6 DEF ReplySafe
    <2>5. \A x \in Replies :
            x \in DOMAIN u.read /\ (db[x] = t.request.event => u.read[x] = t.request.event)
      BY <2>2, <2>4 DEF SameRead
    <2> QED
      BY <1>e, <1>f, <1>6, <2>2, <2>3, <2>5 DEF ReplySafe, GoesOn
  <1> QED
    BY <1>2, <1>3, <1>4, <1>5, <1>6

\* What a transaction changes when it commits: events it holds; new events if it
\* holds the subscription, and new replies to the events it holds.
AlertChange(t, d, e) ==
  /\ \A x \in Events : x \notin t.held => e[x] = d[x]
  /\ \/ Subscription \in t.held
     \/ \A x \in Events : e[x] # NoRow => d[x] # NoRow /\ e[x].at = d[x].at
  /\ \A n \in Number : <<"event", n>> \notin t.held => RepliesTo(n, e) \subseteq RepliesTo(n, d)

LEMMA RepliesAreFinite == ASSUME NEW n, NEW d PROVE IsFiniteSet(RepliesTo(n, d))
  BY FiniteRows, FS_Subset DEF RepliesTo

LEMMA SameAlerts ==
  ASSUME NEW t, NEW d, NEW e, AlertsFit(d), \A x \in Events \cup Replies : e[x] = d[x]
  PROVE  AlertsFit(e) /\ AlertChange(t, d, e)
  <1>1. \A n : RepliesTo(n, e) = RepliesTo(n, d)
    BY DEF RepliesTo
  <1>2. \A x \in Events : e[x] = d[x]
    OBVIOUS
  <1>3. Present(e, Events) = Present(d, Events)
    BY <1>2 DEF Present
  <1>4. \A x, y \in Present(e, Events) :
          x # y => e[x].at + Cooldown <= e[y].at \/ e[y].at + Cooldown <= e[x].at
    BY <1>2, <1>3 DEF AlertsFit, Present
  <1>5. AlertsFit(e)
    BY <1>1, <1>2, <1>4 DEF AlertsFit
  <1> QED
    BY <1>1, <1>2, <1>5 DEF AlertChange

LEMMA AlertRows ==
  ASSUME NEW d, Rows["alerts"] \subseteq DOMAIN d
  PROVE  /\ Subscription \in DOMAIN d /\ Events \subseteq DOMAIN d /\ Replies \subseteq DOMAIN d
         /\ Subscription \notin Events /\ Subscription \notin Replies
         /\ \A n \in Number : <<"event", n>> \in Events /\ <<"reply", n>> \in Replies
                              /\ <<"event", n>> \notin Replies /\ <<"reply", n>> \notin Events
  BY DEF Rows, Subscription, Events, Replies, Table

LEMMA CreateCommits ==
  ASSUME NEW t, NEW d, NEW e, t.request.op = "create_subscription",
         Rows["alerts"] \subseteq DOMAIN d, AlertsFit(d), e = Over(Outcome(t.request, t.read).writes, d)
  PROVE  AlertsFit(e) /\ AlertChange(t, d, e)
  <1>1. Outcome(t.request, t.read) = CreateSubscription(t.request, t.read)
    BY DEF Outcome
  <1>2. PICK v : Outcome(t.request, t.read).writes = Put(Subscription, v)
    BY <1>1 DEF CreateSubscription, Writes
  <1>3. \A x \in DOMAIN d : e[x] = IF x = Subscription THEN v ELSE d[x]
    BY <1>2, PutOver
  <1>4. \A x \in Events \cup Replies : e[x] = d[x]
    BY <1>3, AlertRows
  <1> QED
    BY <1>4, SameAlerts

LEMMA DeleteCommits ==
  ASSUME NEW t, NEW d, NEW e, t.request.op = "delete_subscription", DeleteSafe(t, d), t.run \in Nat,
         t.run = Len(ScriptOf(t)), Rows["alerts"] \subseteq DOMAIN d, AlertsFit(d),
         e = Over(Outcome(t.request, t.read).writes, d)
  PROVE  AlertsFit(e) /\ AlertChange(t, d, e)
  <1> DEFINE r == t.request
             w == Outcome(r, t.read).writes
  <1>0. Events \subseteq DOMAIN d /\ Replies \subseteq DOMAIN d
    BY AlertRows
  <1>1. t.run = 3
    <2>1. Len(ScriptOf(t)) = 3
      BY DeleteScript
    <2> QED
      BY <2>1
  <1>2. Outcome(r, t.read) = DeleteSubscription(r, t.read)
    BY DEF Outcome
  <1>3. CASE w = << >>
    <2>1. \A x \in Events \cup Replies : e[x] = d[x]
      BY <1>0, <1>3, OverNothing
    <2> QED
      BY <2>1, SameAlerts
  <1>4. CASE w # << >>
    <2>1. /\ t.read[Subscription] # NoRow /\ t.read[Subscription].id = r.sub
          /\ w = [row \in Rows.alerts |-> NoRow]
      BY <1>2, <1>4 DEF DeleteSubscription, Told, Writes
    <2>2. Subscription \in t.held /\ Present(d, Events) \subseteq t.held
      <3>1. Subscription \in DOMAIN t.read
        BY <1>1 DEF DeleteSafe
      <3>2. IsSub(r, t.read)
        BY <2>1, <3>1 DEF IsSub, Found
      <3> QED
        BY <1>1, <3>2 DEF DeleteSafe
    <2>3. \A x \in DOMAIN d : e[x] = IF x \in DOMAIN w THEN w[x] ELSE d[x]
      BY OverAt
    <2>4. \A x \in Events \cup Replies : x \in DOMAIN w /\ w[x] = NoRow
      BY <2>1 DEF Rows
    <2>5. \A x \in Events \cup Replies : e[x] = NoRow
      BY <1>0, <2>3, <2>4
    <2>6. \A n \in Number : RepliesTo(n, e) = {}
      BY <2>5, NoRowIsNone DEF RepliesTo
    <2>7. \A n \in Number : Cardinality(RepliesTo(n, e)) <= Cap
      <3>1. Cardinality({}) = 0
        BY FS_EmptySet
      <3>2. 0 <= Cap
        BY StoreAssumption
      <3> QED
        BY <2>6, <3>1, <3>2
    <2>8. Present(e, Events) = {}
      BY <2>5 DEF Present
    <2>9. AlertsFit(e)
      BY <2>5, <2>7, <2>8 DEF AlertsFit
    <2>10. \A x \in Events : x \notin t.held => e[x] = d[x]
      BY <2>2, <2>5 DEF Present
    <2> QED
      BY <2>2, <2>6, <2>9, <2>10 DEF AlertChange
  <1> QED
    BY <1>3, <1>4

LEMMA RecordCommits ==
  ASSUME NEW t, NEW d, NEW e, t.request.op = "record_alert", t.request.q \in Number, RecordSafe(t, d),
         t.run \in Nat, t.run = Len(ScriptOf(t)), Rows["alerts"] \subseteq DOMAIN d, AlertsFit(d),
         e = Over(Outcome(t.request, t.read).writes, d)
  PROVE  AlertsFit(e) /\ AlertChange(t, d, e)
  <1> DEFINE r == t.request
             w == Outcome(r, t.read).writes
             row == <<"event", r.q>>
             new == [at |-> r.now, acknowledged |-> FALSE]
  <1>0. Events \subseteq DOMAIN d /\ Replies \subseteq DOMAIN d /\ row \in Events /\ row \notin Replies
    BY AlertRows
  <1>1. t.run >= 2 /\ (IsSub(r, t.read) => t.run = 3)
    <2>1. /\ IsSub(t.request, t.read) => Len(ScriptOf(t)) = 3
          /\ ~IsSub(t.request, t.read) => Len(ScriptOf(t)) = 2
      BY RecordScript
    <2>2. CASE IsSub(t.request, t.read)
      <3>1. Len(ScriptOf(t)) = 3
        BY <2>1, <2>2
      <3>2. t.run = 3
        BY <3>1
      <3> QED
        BY <2>2, <3>2
    <2>3. CASE ~IsSub(t.request, t.read)
      <3>1. Len(ScriptOf(t)) = 2
        BY <2>1, <2>3
      <3>2. t.run = 2
        BY <3>1
      <3> QED
        BY <2>3, <3>2
    <2> QED
      BY <2>2, <2>3
  <1>2. Outcome(r, t.read) = RecordAlert(r, t.read)
    BY DEF Outcome
  <1>3. CASE w = << >>
    <2>1. \A x \in Events \cup Replies : e[x] = d[x]
      BY <1>0, <1>3, OverNothing
    <2> QED
      BY <2>1, SameAlerts
  <1>4. CASE w # << >>
    <2>1. /\ t.read[Subscription] # NoRow /\ t.read[Subscription].id = r.sub
          /\ \A x \in Present(t.read, Events) : ~(r.now < t.read[x].at + Cooldown)
          /\ w = Put(row, new)
      BY <1>2, <1>4 DEF RecordAlert, Told, Writes
    <2>2. Subscription \in t.held /\ row \in t.held /\ SeesEvents(t, d)
      <3>1. Subscription \in DOMAIN t.read
        BY <1>1 DEF RecordSafe
      <3>2. IsSub(r, t.read)
        BY <2>1, <3>1 DEF IsSub, Found
      <3>3. t.run = 3
        BY <1>1, <3>2
      <3> QED
        BY <3>2, <3>3 DEF RecordSafe
    <2>3. \A x \in DOMAIN d : e[x] = IF x = row THEN new ELSE d[x]
      BY <2>1, PutOver
    <2>4. \A x \in Events : e[x] = IF x = row THEN new ELSE d[x]
      BY <1>0, <2>3
    <2>5. \A x \in Replies : e[x] = d[x]
      BY <1>0, <2>3
    <2>6. \A n : RepliesTo(n, e) = RepliesTo(n, d)
      BY <2>5 DEF RepliesTo
    <2>7. new \in EventRow /\ new.at = r.now /\ r.now \in Nat
      BY DEF EventRow, RecordSafe
    <2>8. \A x \in Events : e[x] \in EventRow \cup {NoRow}
      BY <2>4, <2>7 DEF AlertsFit
    <2>9. ASSUME NEW x \in Present(d, Events) PROVE d[x].at + Cooldown <= r.now
      <3>1. x \in Present(t.read, Events) /\ t.read[x].at = d[x].at /\ d[x].at \in Nat
        BY <2>2 DEF SeesEvents, Present, AlertsFit, EventRow
      <3>2. ~(r.now < d[x].at + Cooldown)
        BY <2>1, <3>1
      <3> QED
        BY <2>7, <3>1, <3>2, StoreAssumption
    <2>10. ASSUME NEW x \in Present(e, Events), NEW y \in Present(e, Events), x # y
           PROVE  e[x].at + Cooldown <= e[y].at \/ e[y].at + Cooldown <= e[x].at
      <3>1. CASE x = row
        <4>1. e[x].at = r.now /\ y \in Present(d, Events) /\ e[y] = d[y]
          BY <2>4, <2>7, <2>10, <3>1 DEF Present
        <4> QED
          BY <2>9, <4>1
      <3>2. CASE y = row
        <4>1. e[y].at = r.now /\ x \in Present(d, Events) /\ e[x] = d[x]
          BY <2>4, <2>7, <2>10, <3>2 DEF Present
        <4> QED
          BY <2>9, <4>1
      <3>3. CASE x # row /\ y # row
        <4>1. x \in Present(d, Events) /\ y \in Present(d, Events) /\ e[x] = d[x] /\ e[y] = d[y]
          BY <2>4, <3>3 DEF Present
        <4> QED
          BY <2>10, <4>1 DEF AlertsFit
      <3> QED
        BY <3>1, <3>2, <3>3
    <2>11. AlertsFit(e)
      BY <2>6, <2>8, <2>10 DEF AlertsFit
    <2> QED
      BY <2>2, <2>4, <2>6, <2>11 DEF AlertChange
  <1> QED
    BY <1>3, <1>4

LEMMA ReplyCommits ==
  ASSUME NEW t, NEW d, NEW e, t.request.op = "reply", t.request.q \in Number, ReplySafe(t, d),
         t.run \in Nat, t.run = Len(ScriptOf(t)), Rows["alerts"] \subseteq DOMAIN d, AlertsFit(d),
         e = Over(Outcome(t.request, t.read).writes, d)
  PROVE  AlertsFit(e) /\ AlertChange(t, d, e)
  <1> DEFINE r == t.request
             w == Outcome(r, t.read).writes
             event == <<"event", r.event>>
             row == <<"reply", r.q>>
             seen == [t.read[event] EXCEPT !.acknowledged = TRUE]
  <1>0. /\ Events \subseteq DOMAIN d /\ Replies \subseteq DOMAIN d /\ event \in Events /\ event \notin Replies
        /\ row \in Replies /\ row \notin Events /\ event # row /\ r.event \in Number
    BY AlertRows DEF ReplySafe
  <1>1. t.run >= 2
    <2>1. \/ Len(ScriptOf(t)) = 3
          \/ Len(ScriptOf(t)) = 2
      BY ReplyScript
    <2>2. CASE Len(ScriptOf(t)) = 3
      BY <2>2
    <2>3. CASE Len(ScriptOf(t)) = 2
      BY <2>3
    <2> QED
      BY <2>1, <2>2, <2>3
  <1>2. Outcome(r, t.read) = ReplyToAlert(r, t.read)
    BY DEF Outcome
  <1>3. CASE w = << >>
    <2>1. \A x \in Events \cup Replies : e[x] = d[x]
      BY <1>0, <1>3, OverNothing
    <2> QED
      BY <2>1, SameAlerts
  <1>4. CASE w # << >>
    <2>1. /\ t.read[event] # NoRow /\ ~(Cardinality(RepliesTo(r.event, t.read)) >= Cap)
          /\ w = Over(Put(event, seen), Put(row, r.event))
      BY <1>2, <1>4 DEF ReplyToAlert, Told, Writes, RepliesTo
    <2>2. event \in t.held /\ d[event] = t.read[event]
          /\ RepliesTo(r.event, d) \subseteq RepliesTo(r.event, t.read)
      BY <1>1, <2>1 DEF ReplySafe, RepliesTo
    <2>3. e[event] = seen /\ e[row] = r.event /\ \A x \in DOMAIN d : x # event /\ x # row => e[x] = d[x]
      BY <1>0, <2>1, TwoWrites
    <2>4. \A x \in Events : x # event => e[x] = d[x]
      BY <1>0, <2>3
    <2>5. \A x \in Replies : x # row => e[x] = d[x]
      BY <1>0, <2>3
    <2>6. d[event] \in EventRow /\ seen \in EventRow /\ seen.at = d[event].at
      <3>1. t.read[event] \in EventRow /\ d[event] = t.read[event]
        BY <1>0, <2>1, <2>2 DEF AlertsFit
      <3> QED
        BY <3>1 DEF EventRow
    <2>7. seen # NoRow /\ d[event] # NoRow
      BY <2>6, NoRowIsNone
    <2>8. \A x \in Events : e[x] \in EventRow \cup {NoRow}
      BY <2>3, <2>4, <2>6 DEF AlertsFit
    <2>9. \A x \in Events : (e[x] # NoRow <=> d[x] # NoRow) /\ (e[x] # NoRow => e[x].at = d[x].at)
      BY <2>3, <2>4, <2>6, <2>7
    <2>10. \A x, y \in Present(e, Events) :
             x # y => e[x].at + Cooldown <= e[y].at \/ e[y].at + Cooldown <= e[x].at
      BY <2>9 DEF AlertsFit, Present
    <2>11. \A n \in Number : n # r.event => RepliesTo(n, e) \subseteq RepliesTo(n, d)
      BY <2>3, <2>5 DEF RepliesTo
    <2>12. RepliesTo(r.event, e) \subseteq RepliesTo(r.event, t.read) \cup {row}
      BY <2>2, <2>5 DEF RepliesTo
    <2>13. ASSUME NEW n \in Number PROVE Cardinality(RepliesTo(n, e)) <= Cap
      <3>1. CASE n = r.event
        BY <2>1, <2>12, <3>1, RepliesAreFinite, OneMore
      <3>2. CASE n # r.event
        BY <2>11, <3>2, RepliesAreFinite, Fewer DEF AlertsFit
      <3> QED
        BY <3>1, <3>2
    <2>14. AlertsFit(e)
      BY <2>8, <2>10, <2>13 DEF AlertsFit
    <2>15. \A x \in Events : x \notin t.held => e[x] = d[x]
      BY <2>2, <2>4
    <2>16. \A n \in Number : <<"event", n>> \notin t.held => n # r.event
      BY <2>2
    <2> QED
      BY <2>9, <2>11, <2>14, <2>15, <2>16 DEF AlertChange
  <1> QED
    BY <1>3, <1>4

LEMMA AlertsStay ==
  ASSUME NEW t, NEW u, NEW d, NEW e, AlertSafe(u, d), AlertChange(t, d, e), u.run \in Nat,
         t.held \cap u.held = {}
  PROVE  AlertSafe(u, e)
  <1>1. Subscription \in u.held => \A x \in Events : e[x] # NoRow => d[x] # NoRow /\ e[x].at = d[x].at
    BY DEF AlertChange
  <1>2. CASE u.request.op = "record_alert"
    <2>1. Subscription \in u.held /\ SeesEvents(u, d) => SeesEvents(u, e)
      BY <1>1 DEF SeesEvents
    <2> QED
      BY <1>2, <2>1 DEF AlertSafe, RecordSafe
  <1>3. CASE u.request.op = "delete_subscription"
    <2>1. Subscription \in u.held => Present(e, Events) \subseteq Present(d, Events)
      BY <1>1 DEF Present
    <2> QED
      BY <1>3, <2>1 DEF AlertSafe, DeleteSafe
  <1>4. CASE u.request.op = "reply"
    <2> DEFINE event == <<"event", u.request.event>>
    <2>1. u.request.event \in Number /\ event \in Events
      BY <1>4 DEF AlertSafe, ReplySafe, Events, Table
    <2>2. event \in u.held => e[event] = d[event]
          /\ RepliesTo(u.request.event, e) \subseteq RepliesTo(u.request.event, d)
      BY <2>1 DEF AlertChange
    <2>3. event \in u.held => \A x \in Replies : e[x] = u.request.event => d[x] = u.request.event
      BY <2>2 DEF RepliesTo
    <2> QED
      BY <1>4, <2>1, <2>2, <2>3 DEF AlertSafe, ReplySafe
  <1>5. CASE u.request.op = "create_subscription"
    BY <1>5 DEF AlertSafe
  <1> QED
    BY <1>2, <1>3, <1>4, <1>5 DEF AlertSafe

-----------------------------------------------------------------------------
(* The outbox: a cursor is made under the account's row, and a page put or *)
(* taken under its cursor's.                                               *)

CursorOf(t) == <<"cursor", t.request.to>>
PageOf(t) == <<t.request.kind, t.request.to>>
OtherOf(t) == <<Other(t.request.kind), t.request.to>>

\* Under the account's row, no cursor appears beside those that were read.
LoadSafe(t, d) ==
  /\ t.run >= 1 => AccountRow \in t.held
  /\ t.run >= 2 => CursorOf(t) \in DOMAIN t.read /\ t.read[CursorOf(t)] \in CursorRow \cup {NoRow}
  /\ t.run = 2 => t.read[CursorOf(t)] = NoRow
  /\ t.run >= 3 => Cursors \subseteq DOMAIN t.read /\ Present(d, Cursors) \subseteq Present(t.read, Cursors)

\* A cursor that was found stays.
FindsCursor(t, d) ==
  t.run >= 1 =>
    /\ CursorOf(t) \in DOMAIN t.read /\ t.read[CursorOf(t)] \in CursorRow \cup {NoRow}
    /\ t.read[CursorOf(t)] # NoRow => d[CursorOf(t)] # NoRow

\* While the cursor is held, a page that was not found does not appear.
PrepareSafe(t, d) ==
  /\ t.run >= 1 => (t.read[CursorOf(t)] # NoRow => CursorOf(t) \in t.held)
  /\ t.run >= 2 => (t.read[CursorOf(t)] # NoRow =>
       PageOf(t) \in DOMAIN t.read /\ (t.read[PageOf(t)] = NoRow => d[PageOf(t)] = NoRow))
  /\ t.run >= 3 => (t.read[CursorOf(t)] # NoRow /\ t.read[PageOf(t)] = NoRow =>
       OtherOf(t) \in DOMAIN t.read /\ (t.read[OtherOf(t)] = NoRow => d[OtherOf(t)] = NoRow))

\* What a commit has read of the page is one or nothing.
CommitSafe(t) ==
  t.run >= 2 => (t.read[CursorOf(t)] # NoRow => t.read[PageOf(t)] \in PageRow \cup {NoRow})

\* What is asked of the outbox: a caller hands back cursors it was told.
OutboxAsked(r) ==
  /\ r.op \in {"load_cursor", "advance", "prepare", "commit"}
  /\ r.q \in Number /\ r.to \in Keys
  /\ r.op # "load_cursor" => r.kind \in Stream
  /\ r.op \in {"advance", "prepare"} => r.expected \in CursorRow

OutboxSafe(t, d) ==
  /\ OutboxAsked(t.request)
  /\ t.request.op = "load_cursor" => LoadSafe(t, d)
  /\ t.request.op # "load_cursor" => FindsCursor(t, d)
  /\ t.request.op = "prepare" => PrepareSafe(t, d)
  /\ t.request.op = "commit" => CommitSafe(t)

\* At most Cap cursors, and at most one page for each.
OutboxFit(d) ==
  /\ d[AccountRow] # NoRow
  /\ \A x \in Cursors : d[x] \in CursorRow \cup {NoRow}
  /\ \A x \in Pages : d[x] \in PageRow \cup {NoRow}
  /\ Cardinality(Present(d, Cursors)) <= Cap
  /\ \A to \in Keys : d[<<"usage", to>>] = NoRow \/ d[<<"token", to>>] = NoRow

\* What a client was told of a cursor is one.
OutboxTold(a) ==
  /\ Was(a, {"load_cursor", "commit", "advance"}) => Request(a).to \in Keys /\ Result(a) \in CursorRow
  /\ Was(a, {"prepare"}) => Request(a).to \in Keys /\ Request(a).kind \in Stream

LEMMA OutboxRows ==
  /\ AccountRow \notin Cursors /\ AccountRow \notin Pages
  /\ \A to \in Keys : <<"cursor", to>> \in Cursors /\ <<"cursor", to>> \notin Pages
     /\ <<"cursor", to>> # AccountRow
  /\ \A to \in Keys, kind \in Stream :
       /\ <<kind, to>> \in Pages /\ <<kind, to>> \notin Cursors /\ <<kind, to>> # AccountRow
       /\ <<Other(kind), to>> \in Pages /\ <<Other(kind), to>> \notin Cursors
       /\ <<kind, to>> # <<Other(kind), to>>
  /\ Rows["outbox"] = {AccountRow} \cup Cursors \cup Pages
  <1>1. Rows["outbox"] = {AccountRow} \cup Cursors \cup Pages
    BY DEF Rows
  <1>2. Stream = {"usage", "token"} /\ \A kind \in Stream : Other(kind) \in Stream /\ Other(kind) # kind
    BY DEF Stream, Other
  <1>3. "cursor" \notin Stream /\ "account" \notin Stream
    BY <1>2
  <1> QED
    BY <1>1, <1>2, <1>3 DEF AccountRow, Cursors, Pages, Table

LEMMA OriginIsCursor == Origin \in CursorRow
  BY DEF Origin, CursorRow

LEMMA NextIsCursor ==
  ASSUME NEW kind \in Stream, NEW x \in CursorRow PROVE NextCursor(kind, x) \in CursorRow
  <1>1. kind = "usage" \/ kind = "token"
    BY DEF Stream
  <1>2. CASE kind = "usage"
    BY <1>2 DEF NextCursor, CursorRow
  <1>3. CASE kind = "token"
    BY <1>3 DEF NextCursor, CursorRow
  <1> QED
    BY <1>1, <1>2, <1>3

LEMMA CursorsAreRows == NoRow \notin CursorRow /\ NoRow \notin PageRow
  BY NoRowIsNone

LEMMA OutboxAsks ==
  ASSUME NEW q \in Number, NEW a, OutboxTold(a), NEW r \in Requests("outbox", q, a)
  PROVE  OutboxAsked(r)
  <1>1. Ops["outbox"] = {"load_cursor", "advance", "prepare", "commit"}
    BY DEF Ops
  <1>2. PICK op \in {"load_cursor", "advance", "prepare", "commit"} : r \in Arguments(op, q, a)
    BY <1>1 DEF Requests
  <1>3. CASE op = "load_cursor"
    <2>1. r \in [op : {op}, q : {q}, to : Keys]
      BY <1>2, <1>3 DEF Arguments
    <2> QED
      BY <1>3, <2>1 DEF OutboxAsked
  <1>4. CASE op \in {"advance", "prepare"}
    <2>1. r \in [op : {op}, q : {q}, kind : Stream,
            to : IF Was(a, {"load_cursor", "commit", "advance"}) THEN {Request(a).to} ELSE {},
            expected : IF Was(a, {"load_cursor", "commit", "advance"}) THEN {Result(a)} ELSE {}]
      BY <1>2, <1>4 DEF Arguments
    <2>2. Was(a, {"load_cursor", "commit", "advance"}) /\ r.to = Request(a).to /\ r.expected = Result(a)
      BY <2>1
    <2>3. r.to \in Keys /\ r.expected \in CursorRow
      BY <2>2 DEF OutboxTold
    <2>4. r.op = op /\ r.q = q /\ r.kind \in Stream
      BY <2>1
    <2> QED
      BY <1>4, <2>3, <2>4 DEF OutboxAsked
  <1>5. CASE op = "commit"
    <2>1. r \in [op : {op}, q : {q}, kind : IF Was(a, {"prepare"}) THEN {Request(a).kind} ELSE {},
            to : IF Was(a, {"prepare"}) THEN {Request(a).to} ELSE {},
            id : IF Was(a, {"prepare"}) THEN {Result(a).id} ELSE {}]
      BY <1>2, <1>5 DEF Arguments
    <2>2. Was(a, {"prepare"}) /\ r.to = Request(a).to /\ r.kind = Request(a).kind
      BY <2>1
    <2>3. r.to \in Keys /\ r.kind \in Stream
      BY <2>2 DEF OutboxTold
    <2>4. r.op = op /\ r.q = q
      BY <2>1
    <2> QED
      BY <1>5, <2>3, <2>4 DEF OutboxAsked
  <1> QED
    BY <1>2, <1>3, <1>4, <1>5

LEMMA LoadScript ==
  ASSUME NEW t, t.request.op = "load_cursor"
  PROVE  /\ ScriptOf(t)[1] = SelectForUpdate({AccountRow}) /\ ScriptOf(t)[2] = Select({CursorOf(t)})
         /\ Found(t.read, CursorOf(t)) = NoRow =>
              /\ Len(Plan(t.request, t.read).reads) = 3 /\ Len(ScriptOf(t)) = 4
              /\ ScriptOf(t)[3] = Select(Cursors) /\ ScriptOf(t)[4] = Insert(CursorOf(t))
         /\ Found(t.read, CursorOf(t)) # NoRow =>
              Len(Plan(t.request, t.read).reads) = 2 /\ Len(ScriptOf(t)) = 3
  <1> DEFINE cursor == CursorOf(t)
             s1 == SelectForUpdate({AccountRow})
             s2 == Select({cursor})
             plan == Plan(t.request, t.read)
  <1>1. plan = Statements(<<s1, s2>> \o If(Found(t.read, cursor) = NoRow, <<Select(Cursors)>>), <<Insert(cursor)>>)
    BY DEF Plan, LoadCursorPlan, CursorOf
  <1>2. CASE Found(t.read, cursor) = NoRow
    <2>1. plan = Statements(<<s1, s2>> \o <<Select(Cursors)>>, <<Insert(cursor)>>)
      BY <1>1, <1>2 DEF If
    <2>2. plan = Statements(<<s1, s2, Select(Cursors)>>, <<Insert(cursor)>>)
      BY <2>1, Append21
    <2>3. plan.reads = <<s1, s2, Select(Cursors)>>
      BY <2>2 DEF Statements
    <2>4. ScriptOf(t) = <<s1, s2, Select(Cursors)>> \o <<Insert(cursor)>>
      BY <2>2 DEF ScriptOf, Statements
    <2>5. ScriptOf(t) = <<s1, s2, Select(Cursors), Insert(cursor)>>
      BY <2>4, Append31
    <2> QED
      BY <1>2, <2>3, <2>5, Long3, Long4
  <1>3. CASE Found(t.read, cursor) # NoRow
    <2>1. plan = Statements(<<s1, s2>> \o << >>, <<Insert(cursor)>>)
      BY <1>1, <1>3 DEF If
    <2>2. plan = Statements(<<s1, s2>>, <<Insert(cursor)>>)
      BY <2>1, AppendNone
    <2>3. plan.reads = <<s1, s2>>
      BY <2>2 DEF Statements
    <2>4. ScriptOf(t) = <<s1, s2>> \o <<Insert(cursor)>>
      BY <2>2 DEF ScriptOf, Statements
    <2>5. ScriptOf(t) = <<s1, s2, Insert(cursor)>>
      BY <2>4, Append21
    <2> QED
      BY <1>3, <2>3, <2>5, Long2, Long3
  <1> QED
    BY <1>2, <1>3

LEMMA AdvanceScript ==
  ASSUME NEW t, t.request.op = "advance"
  PROVE  Len(ScriptOf(t)) = 1 /\ ScriptOf(t)[1] = SelectForUpdate({CursorOf(t)})
  <1>1. Plan(t.request, t.read) = Statements(<<SelectForUpdate({CursorOf(t)})>>, << >>)
    BY DEF Plan, CursorOf
  <1>2. ScriptOf(t) = <<SelectForUpdate({CursorOf(t)})>>
    BY <1>1, AppendNone DEF ScriptOf, Statements
  <1> QED
    BY <1>2

LEMMA PrepareScript ==
  ASSUME NEW t, t.request.op = "prepare"
  PROVE  /\ ScriptOf(t)[1] = SelectForUpdate({CursorOf(t)})
         /\ Found(t.read, CursorOf(t)) = NoRow => Len(ScriptOf(t)) = 2 /\ ScriptOf(t)[2] = Insert(PageOf(t))
         /\ Found(t.read, CursorOf(t)) # NoRow => ScriptOf(t)[2] = SelectForUpdate({PageOf(t)})
         /\ Found(t.read, CursorOf(t)) # NoRow /\ Found(t.read, PageOf(t)) # NoRow =>
              Len(ScriptOf(t)) = 3 /\ ScriptOf(t)[3] = Insert(PageOf(t))
         /\ Found(t.read, CursorOf(t)) # NoRow /\ Found(t.read, PageOf(t)) = NoRow =>
              /\ Len(ScriptOf(t)) = 4
              /\ ScriptOf(t)[3] = SelectForUpdate({OtherOf(t)}) /\ ScriptOf(t)[4] = Insert(PageOf(t))
  <1> DEFINE cursor == CursorOf(t)
             page == PageOf(t)
             s1 == SelectForUpdate({cursor})
             s2 == SelectForUpdate({page})
             s3 == SelectForUpdate({OtherOf(t)})
             s4 == Insert(page)
             plan == Plan(t.request, t.read)
  <1>1. plan = Statements(<<s1>> \o If(Found(t.read, cursor) # NoRow,
                                       <<s2>> \o If(Found(t.read, page) = NoRow, <<s3>>)), <<s4>>)
    BY DEF Plan, PreparePlan, CursorOf, PageOf, OtherOf
  <1>2. CASE Found(t.read, cursor) = NoRow
    <2>1. plan = Statements(<<s1>> \o << >>, <<s4>>)
      BY <1>1, <1>2 DEF If
    <2>2. plan = Statements(<<s1>>, <<s4>>)
      BY <2>1, AppendNone
    <2>3. ScriptOf(t) = <<s1>> \o <<s4>>
      BY <2>2 DEF ScriptOf, Statements
    <2>4. ScriptOf(t) = <<s1, s4>>
      BY <2>3, Append11
    <2> QED
      BY <1>2, <2>4, Long2
  <1>3. CASE Found(t.read, cursor) # NoRow /\ Found(t.read, page) # NoRow
    <2>1. plan = Statements(<<s1>> \o (<<s2>> \o << >>), <<s4>>)
      BY <1>1, <1>3 DEF If
    <2>2. plan = Statements(<<s1, s2>>, <<s4>>)
      BY <2>1, AppendNone, Append11
    <2>3. ScriptOf(t) = <<s1, s2>> \o <<s4>>
      BY <2>2 DEF ScriptOf, Statements
    <2>4. ScriptOf(t) = <<s1, s2, s4>>
      BY <2>3, Append21
    <2> QED
      BY <1>3, <2>4, Long3
  <1>4. CASE Found(t.read, cursor) # NoRow /\ Found(t.read, page) = NoRow
    <2>1. plan = Statements(<<s1>> \o (<<s2>> \o <<s3>>), <<s4>>)
      BY <1>1, <1>4 DEF If
    <2>2. plan = Statements(<<s1>> \o <<s2, s3>>, <<s4>>)
      BY <2>1, Append11
    <2>3. plan = Statements(<<s1, s2, s3>>, <<s4>>)
      BY <2>2, Append12
    <2>4. ScriptOf(t) = <<s1, s2, s3>> \o <<s4>>
      BY <2>3 DEF ScriptOf, Statements
    <2>5. ScriptOf(t) = <<s1, s2, s3, s4>>
      BY <2>4, Append31
    <2> QED
      BY <1>4, <2>5, Long4
  <1> QED
    BY <1>2, <1>3, <1>4

LEMMA CommitScript ==
  ASSUME NEW t, t.request.op = "commit"
  PROVE  /\ ScriptOf(t)[1] = SelectForUpdate({CursorOf(t)})
         /\ Found(t.read, CursorOf(t)) = NoRow => Len(ScriptOf(t)) = 1
         /\ Found(t.read, CursorOf(t)) # NoRow =>
              Len(ScriptOf(t)) = 2 /\ ScriptOf(t)[2] = SelectForUpdate({PageOf(t)})
  <1> DEFINE cursor == CursorOf(t)
             s1 == SelectForUpdate({cursor})
             s2 == SelectForUpdate({PageOf(t)})
             plan == Plan(t.request, t.read)
  <1>1. plan = Statements(<<s1>> \o If(Found(t.read, cursor) # NoRow, <<s2>>), << >>)
    BY DEF Plan, CommitPlan, CursorOf, PageOf
  <1>2. CASE Found(t.read, cursor) = NoRow
    <2>1. plan = Statements(<<s1>> \o << >>, << >>)
      BY <1>1, <1>2 DEF If
    <2>2. plan = Statements(<<s1>>, << >>)
      BY <2>1, AppendNone
    <2>3. ScriptOf(t) = <<s1>> \o << >>
      BY <2>2 DEF ScriptOf, Statements
    <2>4. ScriptOf(t) = <<s1>>
      BY <2>3, AppendNone
    <2>5. Len(ScriptOf(t)) = 1 /\ ScriptOf(t)[1] = s1
      BY <2>4
    <2> QED
      BY <1>2, <2>5
  <1>3. CASE Found(t.read, cursor) # NoRow
    <2>1. plan = Statements(<<s1>> \o <<s2>>, << >>)
      BY <1>1, <1>3 DEF If
    <2>2. plan = Statements(<<s1, s2>>, << >>)
      BY <2>1, Append11
    <2>3. ScriptOf(t) = <<s1, s2>> \o << >>
      BY <2>2 DEF ScriptOf, Statements
    <2>4. ScriptOf(t) = <<s1, s2>>
      BY <2>3, AppendNone
    <2> QED
      BY <1>3, <2>4, Long2
  <1> QED
    BY <1>2, <1>3

LEMMA FitRows ==
  ASSUME NEW d, OutboxFit(d), NEW to \in Keys
  PROVE  /\ d[<<"cursor", to>>] \in CursorRow \cup {NoRow}
         /\ \A kind \in Stream : d[<<kind, to>>] \in PageRow \cup {NoRow}
  BY OutboxRows DEF OutboxFit

\* Once it has been read, the cursor is one or absent.
LoadRead(t) == t.run >= 2 => t.read[CursorOf(t)] \in CursorRow \cup {NoRow}

LEMMA LoadRuns ==
  ASSUME NEW t, NEW u, t.request.op = "load_cursor", LoadSafe(t, db), t.request.to \in Keys, t.run \in Nat,
         t.run < Len(ScriptOf(t)), Steps(t, ScriptOf(t)[t.run + 1], u), OutboxFit(db)
  PROVE  (Quiet(u) /\ LoadRead(u)) \/ LoadSafe(u, db)
  <1> DEFINE cursor == CursorOf(t)
             none == Found(t.read, cursor) = NoRow
  <1>s. /\ ScriptOf(t)[1] = SelectForUpdate({AccountRow}) /\ ScriptOf(t)[2] = Select({cursor})
        /\ none => /\ Len(ScriptOf(t)) = 4
                   /\ ScriptOf(t)[3] = Select(Cursors) /\ ScriptOf(t)[4] = Insert(cursor)
        /\ ~none => Len(ScriptOf(t)) = 3
    BY LoadScript
  <1>a. db[AccountRow] # NoRow /\ AccountRow \notin Cursors /\ cursor # AccountRow /\ cursor \in Cursors
        /\ db[cursor] \in CursorRow \cup {NoRow}
    BY OutboxRows DEF OutboxFit, CursorOf
  <1>f. t.run >= 2 => Found(t.read, cursor) = t.read[cursor]
    BY DEF LoadSafe, Found
  <1>2. t.run = 0 \/ t.run = 1 \/ (t.run = 2 /\ none) \/ (t.run = 3 /\ none)
    <2>1. t.run = 2 => none
      BY <1>f DEF LoadSafe
    <2> QED
      BY <1>s, <2>1
  <1>3. CASE t.run = 0
    <2>1. Steps(t, SelectForUpdate({AccountRow}), u)
      BY <1>s, <1>3
    <2>2. /\ GoesOn(t, u)
          /\ db[AccountRow] # NoRow /\ Wanted(t.request, AccountRow) => AccountRow \in u.held
      BY <2>1, ForUpdateSteps
    <2>3. Wanted(t.request, AccountRow)
      BY DEF Wanted
    <2> QED
      BY <1>3, <1>a, <2>2, <2>3 DEF LoadSafe, GoesOn
  <1>4. CASE t.run = 1
    <2>1. Steps(t, Select({cursor}), u)
      BY <1>s, <1>4
    <2>2. GoesOn(t, u) /\ cursor \in DOMAIN u.read /\ u.read[cursor] = db[cursor]
      BY <2>1, SelectSteps DEF Reads
    <2>3. u.request = t.request /\ u.run = 2 /\ CursorOf(u) = cursor
      BY <1>4, <2>2 DEF GoesOn, CursorOf
    <2>4. CASE u.read[cursor] # NoRow
      <3>1. Found(u.read, CursorOf(u)) # NoRow /\ u.request.op = "load_cursor"
        BY <2>2, <2>3, <2>4 DEF Found
      <3>2. Len(Plan(u.request, u.read).reads) = 2
        BY ONLY <3>1, LoadScript
      <3>3. Outcome(u.request, u.read) = LoadCursor(u.request, u.read)
        BY <3>1 DEF Outcome
      <3>4. Outcome(u.request, u.read).writes = << >>
        BY <2>3, <2>4, <3>3 DEF LoadCursor, Told, CursorOf
      <3> QED
        BY <1>a, <2>2, <2>3, <3>2, <3>4 DEF Quiet, LoadRead
    <2>5. CASE u.read[cursor] = NoRow
      BY <1>4, <2>2, <2>3, <2>5 DEF LoadSafe, GoesOn
    <2> QED
      BY <2>4, <2>5
  <1>5. CASE t.run = 2 /\ none
    <2>1. Steps(t, Select(Cursors), u)
      BY <1>s, <1>5
    <2>2. GoesOn(t, u) /\ Reads(t, u, Cursors)
      BY <2>1, SelectSteps
    <2>3. /\ cursor \in DOMAIN u.read /\ u.read[cursor] = db[cursor] /\ Cursors \subseteq DOMAIN u.read
          /\ Present(db, Cursors) \subseteq Present(u.read, Cursors)
      BY <1>a, <2>2 DEF Reads, Present
    <2>4. CursorOf(u) = cursor /\ u.run = 3
      BY <1>5, <2>2 DEF GoesOn, CursorOf
    <2> QED
      BY <1>5, <1>a, <2>2, <2>3, <2>4 DEF LoadSafe, GoesOn
  <1>6. CASE t.run = 3 /\ none
    <2>1. Steps(t, Insert(cursor), u)
      BY <1>s, <1>6
    <2>2. GoesOn(t, u) /\ SameRead(t, u)
      BY <2>1, InsertSteps
    <2>3. CursorOf(u) = cursor /\ u.run = 4
      BY <1>6, <2>2 DEF GoesOn, CursorOf
    <2>4. cursor \in DOMAIN u.read /\ u.read[cursor] = t.read[cursor]
      BY <1>6, <2>2 DEF SameRead, LoadSafe
    <2>5. Present(db, Cursors) \subseteq Present(t.read, Cursors)
      BY <1>6 DEF LoadSafe
    <2>6. \A x \in Cursors : x \in DOMAIN t.read
      BY <1>6 DEF LoadSafe
    <2>7. Cursors \subseteq DOMAIN u.read /\ Present(db, Cursors) \subseteq Present(u.read, Cursors)
      BY <2>2, <2>5, <2>6 DEF SameRead, Present
    <2> QED
      BY <1>6, <2>2, <2>3, <2>4, <2>7 DEF LoadSafe, GoesOn
  <1> QED
    BY <1>2, <1>3, <1>4, <1>5, <1>6

\* The first statement of the other operations finds the cursor.
LEMMA CursorFound ==
  ASSUME NEW t, NEW u, t.run = 0, t.request.to \in Keys, OutboxFit(db),
         Steps(t, SelectForUpdate({CursorOf(t)}), u)
  PROVE  /\ GoesOn(t, u) /\ u.run = 1 /\ FindsCursor(u, db)
         /\ u.read[CursorOf(t)] # NoRow /\ Wanted(t.request, CursorOf(t)) => CursorOf(t) \in u.held
  <1>1. /\ GoesOn(t, u) /\ CursorOf(t) \in DOMAIN u.read /\ u.read[CursorOf(t)] = db[CursorOf(t)]
        /\ db[CursorOf(t)] # NoRow /\ Wanted(t.request, CursorOf(t)) => CursorOf(t) \in u.held
    BY ForUpdateSteps DEF Reads
  <1>2. CursorOf(u) = CursorOf(t) /\ u.run = 1
    BY <1>1 DEF GoesOn, CursorOf
  <1>3. db[CursorOf(t)] \in CursorRow \cup {NoRow}
    BY FitRows DEF CursorOf
  <1> QED
    BY <1>1, <1>2, <1>3 DEF FindsCursor

\* The later ones leave it as it was read.
LEMMA CursorStaysKept ==
  ASSUME NEW t, NEW u, t.run \in Nat, t.run >= 1, FindsCursor(t, db), GoesOn(t, u), SameRead(t, u)
  PROVE  /\ FindsCursor(u, db) /\ CursorOf(u) = CursorOf(t) /\ PageOf(u) = PageOf(t)
            /\ OtherOf(u) = OtherOf(t)
         /\ u.read[CursorOf(t)] = t.read[CursorOf(t)]
  <1>1. CursorOf(t) \in DOMAIN t.read
    BY DEF FindsCursor
  <1>2. CursorOf(t) \in DOMAIN u.read /\ u.read[CursorOf(t)] = t.read[CursorOf(t)]
    BY <1>1 DEF SameRead
  <1>3. CursorOf(u) = CursorOf(t) /\ PageOf(u) = PageOf(t) /\ OtherOf(u) = OtherOf(t)
    BY DEF GoesOn, CursorOf, PageOf, OtherOf
  <1> QED
    BY <1>2, <1>3 DEF FindsCursor

LEMMA CursorStaysRead ==
  ASSUME NEW t, NEW u, t.run \in Nat, t.run >= 1, FindsCursor(t, db), GoesOn(t, u), NEW S,
         CursorOf(t) \notin S, Reads(t, u, S)
  PROVE  /\ FindsCursor(u, db) /\ CursorOf(u) = CursorOf(t) /\ PageOf(u) = PageOf(t)
            /\ OtherOf(u) = OtherOf(t)
         /\ u.read[CursorOf(t)] = t.read[CursorOf(t)]
  <1>1. CursorOf(t) \in DOMAIN t.read
    BY DEF FindsCursor
  <1>2. CursorOf(t) \in DOMAIN u.read /\ u.read[CursorOf(t)] = t.read[CursorOf(t)]
    BY <1>1 DEF Reads
  <1>3. CursorOf(u) = CursorOf(t) /\ PageOf(u) = PageOf(t) /\ OtherOf(u) = OtherOf(t)
    BY DEF GoesOn, CursorOf, PageOf, OtherOf
  <1> QED
    BY <1>2, <1>3 DEF FindsCursor

LEMMA AdvanceRuns ==
  ASSUME NEW t, NEW u, t.request.op = "advance", t.request.to \in Keys, t.run \in Nat,
         t.run < Len(ScriptOf(t)), Steps(t, ScriptOf(t)[t.run + 1], u), OutboxFit(db)
  PROVE  GoesOn(t, u) /\ FindsCursor(u, db)
  <1>1. Len(ScriptOf(t)) = 1 /\ ScriptOf(t)[1] = SelectForUpdate({CursorOf(t)})
    BY AdvanceScript
  <1>2. t.run = 0
    BY <1>1
  <1>3. Steps(t, SelectForUpdate({CursorOf(t)}), u)
    BY <1>1, <1>2
  <1> QED
    BY <1>2, <1>3, CursorFound

LEMMA CommitRuns ==
  ASSUME NEW t, NEW u, t.request.op = "commit", t.request.to \in Keys, t.request.kind \in Stream,
         FindsCursor(t, db), CommitSafe(t), t.run \in Nat,
         t.run < Len(ScriptOf(t)), Steps(t, ScriptOf(t)[t.run + 1], u), OutboxFit(db)
  PROVE  GoesOn(t, u) /\ FindsCursor(u, db) /\ CommitSafe(u)
  <1> DEFINE none == Found(t.read, CursorOf(t)) = NoRow
  <1>1. /\ ScriptOf(t)[1] = SelectForUpdate({CursorOf(t)})
        /\ none => Len(ScriptOf(t)) = 1
        /\ ~none => Len(ScriptOf(t)) = 2 /\ ScriptOf(t)[2] = SelectForUpdate({PageOf(t)})
    BY CommitScript
  <1>2. t.run = 0 \/ (t.run = 1 /\ ~none)
    BY <1>1
  <1>3. CASE t.run = 0
    <2>1. Steps(t, SelectForUpdate({CursorOf(t)}), u)
      BY <1>1, <1>3
    <2>2. GoesOn(t, u) /\ FindsCursor(u, db) /\ u.run = 1
      BY <1>3, <2>1, CursorFound
    <2> QED
      BY <2>2 DEF CommitSafe
  <1>4. CASE t.run = 1 /\ ~none
    <2>1. Steps(t, SelectForUpdate({PageOf(t)}), u)
      BY <1>1, <1>4
    <2>2. GoesOn(t, u) /\ Reads(t, u, {PageOf(t)})
      BY <2>1, ForUpdateSteps
    <2>3. CursorOf(t) \notin {PageOf(t)}
      BY OutboxRows DEF PageOf, CursorOf
    <2>4. FindsCursor(u, db) /\ PageOf(u) = PageOf(t)
      BY <1>4, <2>2, <2>3, CursorStaysRead
    <2>5. u.read[PageOf(t)] = db[PageOf(t)]
      BY <2>2 DEF Reads
    <2>6. db[PageOf(t)] \in PageRow \cup {NoRow}
      BY FitRows DEF PageOf
    <2> QED
      BY <2>2, <2>4, <2>5, <2>6 DEF CommitSafe
  <1> QED
    BY <1>2, <1>3, <1>4

LEMMA PrepareRuns ==
  ASSUME NEW t, NEW u, t.request.op = "prepare", t.request.to \in Keys, t.request.kind \in Stream,
         FindsCursor(t, db), PrepareSafe(t, db), t.run \in Nat,
         t.run < Len(ScriptOf(t)), Steps(t, ScriptOf(t)[t.run + 1], u), OutboxFit(db)
  PROVE  GoesOn(t, u) /\ FindsCursor(u, db) /\ PrepareSafe(u, db)
  <1> DEFINE cursor == CursorOf(t)
             page == PageOf(t)
             other == OtherOf(t)
             found == Found(t.read, cursor) # NoRow
             none == Found(t.read, page) = NoRow
  <1>s. /\ ScriptOf(t)[1] = SelectForUpdate({cursor})
        /\ ~found => Len(ScriptOf(t)) = 2 /\ ScriptOf(t)[2] = Insert(page)
        /\ found => ScriptOf(t)[2] = SelectForUpdate({page})
        /\ found /\ ~none => Len(ScriptOf(t)) = 3 /\ ScriptOf(t)[3] = Insert(page)
        /\ found /\ none => /\ Len(ScriptOf(t)) = 4
                            /\ ScriptOf(t)[3] = SelectForUpdate({other}) /\ ScriptOf(t)[4] = Insert(page)
    BY PrepareScript
  <1>d. page # cursor /\ other # cursor /\ page # other
    BY OutboxRows DEF PageOf, CursorOf, OtherOf
  <1>e. cursor \notin {page} /\ cursor \notin {other}
    BY <1>d
  <1>f. t.run >= 1 => cursor \in DOMAIN t.read /\ Found(t.read, cursor) = t.read[cursor]
    BY DEF FindsCursor, Found
  <1>g. t.run >= 2 /\ found => page \in DOMAIN t.read /\ Found(t.read, page) = t.read[page]
    BY <1>f DEF PrepareSafe, Found
  <1>2. \/ t.run = 0 \/ (t.run = 1 /\ ~found) \/ (t.run = 1 /\ found)
        \/ (t.run = 2 /\ found /\ none) \/ (t.run = 2 /\ found /\ ~none)
        \/ (t.run = 3 /\ found /\ none)
    BY <1>s
  <1>3. CASE t.run = 0
    <2>1. Steps(t, SelectForUpdate({cursor}), u)
      BY <1>s, <1>3
    <2>2. /\ GoesOn(t, u) /\ FindsCursor(u, db) /\ u.run = 1
          /\ u.read[cursor] # NoRow /\ Wanted(t.request, cursor) => cursor \in u.held
      BY <1>3, <2>1, CursorFound
    <2>3. Wanted(t.request, cursor) /\ CursorOf(u) = cursor
      BY <2>2 DEF Wanted, GoesOn, CursorOf
    <2> QED
      BY <2>2, <2>3 DEF PrepareSafe
  <1>4. CASE t.run = 1 /\ ~found
    <2>1. Steps(t, Insert(page), u)
      BY <1>s, <1>4
    <2>2. GoesOn(t, u) /\ SameRead(t, u) /\ u.run = 2
      BY <1>4, <2>1, InsertSteps DEF GoesOn
    <2>3. FindsCursor(u, db) /\ CursorOf(u) = cursor /\ u.read[cursor] = NoRow
      BY <1>f, <1>4, <2>2, CursorStaysKept
    <2> QED
      BY <2>2, <2>3 DEF PrepareSafe
  <1>5. CASE t.run = 1 /\ found
    <2>1. Steps(t, SelectForUpdate({page}), u)
      BY <1>s, <1>5
    <2>2. GoesOn(t, u) /\ Reads(t, u, {page}) /\ u.run = 2
      BY <1>5, <2>1, ForUpdateSteps DEF GoesOn
    <2>3. /\ FindsCursor(u, db) /\ CursorOf(u) = cursor /\ PageOf(u) = page /\ u.read[cursor] = t.read[cursor]
      BY <1>e, <1>5, <2>2, CursorStaysRead
    <2>4. page \in DOMAIN u.read /\ u.read[page] = db[page]
      BY <2>2 DEF Reads
    <2>5. u.read[cursor] # NoRow => cursor \in u.held
      BY <1>5, <2>2, <2>3 DEF PrepareSafe, GoesOn
    <2> QED
      BY <2>2, <2>3, <2>4, <2>5 DEF PrepareSafe
  <1>6. CASE t.run = 2 /\ found /\ none
    <2>1. Steps(t, SelectForUpdate({other}), u)
      BY <1>s, <1>6
    <2>2. GoesOn(t, u) /\ Reads(t, u, {other}) /\ u.run = 3
      BY <1>6, <2>1, ForUpdateSteps DEF GoesOn
    <2>3. /\ FindsCursor(u, db) /\ CursorOf(u) = cursor /\ PageOf(u) = page /\ OtherOf(u) = other
          /\ u.read[cursor] = t.read[cursor]
      BY <1>e, <1>6, <2>2, CursorStaysRead
    <2>4. other \in DOMAIN u.read /\ u.read[other] = db[other] /\ page \in DOMAIN u.read
          /\ u.read[page] = t.read[page]
      BY <1>d, <1>g, <1>6, <2>2 DEF Reads
    <2>5. t.read[cursor] # NoRow /\ cursor \in t.held /\ (t.read[page] = NoRow => db[page] = NoRow)
      BY <1>f, <1>6 DEF PrepareSafe
    <2>6. cursor \in u.held
      BY <2>2, <2>5 DEF GoesOn
    <2> QED
      BY <2>2, <2>3, <2>4, <2>5, <2>6 DEF PrepareSafe
  <1>7. CASE t.run \in {2, 3} /\ found /\ (t.run = 2 => ~none)
    <2>1. Steps(t, Insert(page), u)
      BY <1>s, <1>7, <1>2
    <2>2. GoesOn(t, u) /\ SameRead(t, u) /\ u.run = t.run + 1
      BY <2>1, InsertSteps DEF GoesOn
    <2>3. /\ FindsCursor(u, db) /\ CursorOf(u) = cursor /\ PageOf(u) = page /\ OtherOf(u) = other
          /\ u.read[cursor] = t.read[cursor]
      BY <1>7, <2>2, CursorStaysKept
    <2>4. page \in DOMAIN u.read /\ u.read[page] = t.read[page]
      BY <1>g, <1>7, <2>2 DEF SameRead
    <2>5. t.read[cursor] # NoRow /\ cursor \in t.held /\ (t.read[page] = NoRow => db[page] = NoRow)
      BY <1>f, <1>7 DEF PrepareSafe
    <2>6. cursor \in u.held
      BY <2>2, <2>5 DEF GoesOn
    <2>7. t.run = 3 /\ t.read[page] = NoRow =>
            /\ other \in DOMAIN u.read /\ u.read[other] = t.read[other]
            /\ t.read[other] = NoRow => db[other] = NoRow
      BY <2>2, <2>5 DEF PrepareSafe, SameRead
    <2>8. t.run = 2 => t.read[page] # NoRow
      BY <1>g, <1>7
    <2> QED
      BY <1>7, <2>2, <2>3, <2>4, <2>5, <2>6, <2>7, <2>8 DEF PrepareSafe
  <1> QED
    BY <1>2, <1>3, <1>4, <1>5, <1>6, <1>7

\* What a transaction changes when it commits: a cursor stays, a new one appears
\* under the account's lock, and a page under that of its cursor.
OutboxChange(t, d, e) ==
  /\ \A x \in Cursors : d[x] # NoRow => e[x] # NoRow
  /\ t.request.op # "load_cursor" => \A x \in Cursors : e[x] # NoRow => d[x] # NoRow
  /\ t.request.op = "load_cursor" => AccountRow \in t.held
  /\ \A kind \in Stream, to \in Keys :
       e[<<kind, to>>] # NoRow => d[<<kind, to>>] # NoRow \/ <<"cursor", to>> \in t.held

LEMMA SameOutbox ==
  ASSUME NEW t, NEW d, NEW e, OutboxFit(d), \A x \in {AccountRow} \cup Cursors \cup Pages : e[x] = d[x],
         t.request.op = "load_cursor" => AccountRow \in t.held
  PROVE  OutboxFit(e) /\ OutboxChange(t, d, e)
  <1>1. /\ e[AccountRow] = d[AccountRow] /\ \A x \in Cursors : e[x] = d[x]
        /\ \A x \in Pages : e[x] = d[x]
    OBVIOUS
  <1>2. Present(e, Cursors) = Present(d, Cursors)
    BY <1>1 DEF Present
  <1>3. \A kind \in Stream, to \in Keys : e[<<kind, to>>] = d[<<kind, to>>]
    BY <1>1, OutboxRows
  <1>4. "usage" \in Stream /\ "token" \in Stream
    BY DEF Stream
  <1>5. \A to \in Keys : e[<<"usage", to>>] = NoRow \/ e[<<"token", to>>] = NoRow
    BY <1>3, <1>4 DEF OutboxFit
  <1>6. OutboxFit(e)
    BY <1>1, <1>2, <1>5 DEF OutboxFit
  <1> QED
    BY <1>1, <1>3, <1>6 DEF OutboxChange

\* One cursor is written, the pages stay.
LEMMA CursorWritten ==
  ASSUME NEW t, NEW d, NEW e, OutboxFit(d), NEW to \in Keys, NEW v \in CursorRow,
         e[<<"cursor", to>>] = v,
         \A x \in {AccountRow} \cup Cursors \cup Pages : x # <<"cursor", to>> => e[x] = d[x]
  PROVE  /\ e[AccountRow] # NoRow /\ \A x \in Cursors : e[x] \in CursorRow \cup {NoRow}
         /\ \A x \in Pages : e[x] = d[x]
         /\ \A x \in Cursors : d[x] # NoRow => e[x] # NoRow
         /\ \A x \in Cursors : e[x] # NoRow => d[x] # NoRow \/ x = <<"cursor", to>>
  <1>1. AccountRow # <<"cursor", to>> /\ \A x \in Pages : x # <<"cursor", to>>
    BY OutboxRows
  <1> QED
    BY <1>1, CursorsAreRows DEF OutboxFit

LEMMA LoadCommits ==
  ASSUME NEW t, NEW d, NEW e, t.request.op = "load_cursor", t.request.to \in Keys, LoadSafe(t, d),
         t.run \in Nat,
         t.run = Len(ScriptOf(t)), Rows["outbox"] \subseteq DOMAIN d, OutboxFit(d),
         e = Over(Outcome(t.request, t.read).writes, d)
  PROVE  OutboxFit(e) /\ OutboxChange(t, d, e)
  <1> DEFINE cursor == CursorOf(t)
             none == Found(t.read, cursor) = NoRow
  <1>0. {AccountRow} \cup Cursors \cup Pages \subseteq DOMAIN d /\ cursor \in Cursors /\ cursor \in DOMAIN d
    BY OutboxRows DEF CursorOf
  <1>s. (none => Len(ScriptOf(t)) = 4) /\ (~none => Len(ScriptOf(t)) = 3)
    BY LoadScript
  <1>r. t.run = 3 \/ t.run = 4
    BY <1>s
  <1>1. /\ AccountRow \in t.held /\ Cursors \subseteq DOMAIN t.read
        /\ Present(d, Cursors) \subseteq Present(t.read, Cursors)
    <2>1. CASE t.run = 3
      BY <2>1 DEF LoadSafe
    <2>2. CASE t.run = 4
      BY <2>2 DEF LoadSafe
    <2> QED
      BY <1>r, <2>1, <2>2
  <1>2. Outcome(t.request, t.read) = LoadCursor(t.request, t.read)
    BY DEF Outcome
  <1>3. CASE Outcome(t.request, t.read).writes = << >>
    <2>1. \A x \in {AccountRow} \cup Cursors \cup Pages : e[x] = d[x]
      BY <1>0, <1>3, OverNothing
    <2> QED
      BY <1>1, <2>1, SameOutbox
  <1>4. CASE Outcome(t.request, t.read).writes # << >>
    <2>1. ~(Cardinality(Present(t.read, Cursors)) >= Cap)
          /\ Outcome(t.request, t.read).writes = Put(cursor, Origin)
      BY <1>2, <1>4 DEF LoadCursor, Told, Writes, Full, CursorOf
    <2>2. e[cursor] = Origin /\ \A x \in DOMAIN d : x # cursor => e[x] = d[x]
      BY <1>0, <2>1, OneWrite
    <2>3. \A x \in {AccountRow} \cup Cursors \cup Pages : x # cursor => e[x] = d[x]
      BY <1>0, <2>2
    <2>4. /\ e[AccountRow] # NoRow /\ \A x \in Cursors : e[x] \in CursorRow \cup {NoRow}
          /\ \A x \in Pages : e[x] = d[x]
          /\ \A x \in Cursors : d[x] # NoRow => e[x] # NoRow
          /\ \A x \in Cursors : e[x] # NoRow => d[x] # NoRow \/ x = cursor
      BY <2>2, <2>3, OriginIsCursor, CursorWritten DEF CursorOf
    <2>5. Present(e, Cursors) \subseteq Present(t.read, Cursors) \cup {cursor}
      BY <1>1, <2>4 DEF Present
    <2>6. IsFiniteSet(Present(t.read, Cursors))
      BY FiniteRows, FS_Subset DEF Present
    <2>7. Cardinality(Present(e, Cursors)) <= Cap
      BY <2>1, <2>5, <2>6, OneMore
    <2>8. \A kind \in Stream, to \in Keys : e[<<kind, to>>] = d[<<kind, to>>]
      BY <2>4, OutboxRows
    <2>9. "usage" \in Stream /\ "token" \in Stream
      BY DEF Stream
    <2>10. OutboxFit(e)
      BY <2>4, <2>7, <2>8, <2>9 DEF OutboxFit
    <2> QED
      BY <1>1, <2>4, <2>8, <2>10 DEF OutboxChange
  <1> QED
    BY <1>3, <1>4

LEMMA PresentStays ==
  ASSUME NEW d, NEW e, OutboxFit(d), \A x \in Cursors : e[x] # NoRow => d[x] # NoRow
  PROVE  Cardinality(Present(e, Cursors)) <= Cap
  <1>1. Present(e, Cursors) \subseteq Present(d, Cursors) /\ IsFiniteSet(Present(d, Cursors))
    BY FiniteRows, FS_Subset DEF Present
  <1> QED
    BY <1>1, Fewer DEF OutboxFit

LEMMA AdvanceCommits ==
  ASSUME NEW t, NEW d, NEW e, t.request.op = "advance", OutboxAsked(t.request), FindsCursor(t, d),
         t.run \in Nat,
         t.run = Len(ScriptOf(t)), Rows["outbox"] \subseteq DOMAIN d, OutboxFit(d),
         e = Over(Outcome(t.request, t.read).writes, d)
  PROVE  OutboxFit(e) /\ OutboxChange(t, d, e)
  <1> DEFINE cursor == CursorOf(t)
             next == NextCursor(t.request.kind, t.request.expected)
  <1>q. t.request.to \in Keys /\ t.request.kind \in Stream /\ t.request.expected \in CursorRow
    BY DEF OutboxAsked
  <1>0. {AccountRow} \cup Cursors \cup Pages \subseteq DOMAIN d /\ cursor \in Cursors /\ cursor \in DOMAIN d
    BY <1>q, OutboxRows DEF CursorOf
  <1>1. t.read[cursor] # NoRow => d[cursor] # NoRow
    <2>1. Len(ScriptOf(t)) = 1
      BY AdvanceScript
    <2>2. t.run = 1
      BY <2>1
    <2> QED
      BY <2>2 DEF FindsCursor
  <1>2. Outcome(t.request, t.read) = AdvanceCursor(t.request, t.read)
    BY DEF Outcome
  <1>3. CASE Outcome(t.request, t.read).writes = << >>
    <2>1. \A x \in {AccountRow} \cup Cursors \cup Pages : e[x] = d[x]
      BY <1>0, <1>3, OverNothing
    <2> QED
      BY <2>1, SameOutbox
  <1>4. CASE Outcome(t.request, t.read).writes # << >>
    <2>1. t.read[cursor] = t.request.expected /\ Outcome(t.request, t.read).writes = Put(cursor, next)
      BY <1>2, <1>4 DEF AdvanceCursor, Told, Writes, CursorOf
    <2>2. e[cursor] = next /\ \A x \in DOMAIN d : x # cursor => e[x] = d[x]
      BY <1>0, <2>1, OneWrite
    <2>3. \A x \in {AccountRow} \cup Cursors \cup Pages : x # cursor => e[x] = d[x]
      BY <1>0, <2>2
    <2>a. next \in CursorRow
      BY <1>q, NextIsCursor
    <2>4. /\ e[AccountRow] # NoRow /\ \A x \in Cursors : e[x] \in CursorRow \cup {NoRow}
          /\ \A x \in Pages : e[x] = d[x]
          /\ \A x \in Cursors : d[x] # NoRow => e[x] # NoRow
          /\ \A x \in Cursors : e[x] # NoRow => d[x] # NoRow \/ x = cursor
      BY <1>q, <2>2, <2>3, <2>a, CursorWritten DEF CursorOf
    <2>5. \A x \in Cursors : e[x] # NoRow => d[x] # NoRow
      BY <1>1, <1>q, <2>1, <2>4, CursorsAreRows
    <2>7. Cardinality(Present(e, Cursors)) <= Cap
      BY <2>5, PresentStays
    <2>8. \A kind \in Stream, to \in Keys : e[<<kind, to>>] = d[<<kind, to>>]
      BY <2>4, OutboxRows
    <2>9. "usage" \in Stream /\ "token" \in Stream
      BY DEF Stream
    <2>10. OutboxFit(e)
      BY <2>4, <2>7, <2>8, <2>9 DEF OutboxFit
    <2> QED
      BY <2>4, <2>5, <2>8, <2>10 DEF OutboxChange
  <1> QED
    BY <1>3, <1>4

LEMMA PrepareCommits ==
  ASSUME NEW t, NEW d, NEW e, t.request.op = "prepare", OutboxAsked(t.request), FindsCursor(t, d),
         PrepareSafe(t, d), t.run \in Nat,
         t.run = Len(ScriptOf(t)), Rows["outbox"] \subseteq DOMAIN d, OutboxFit(d),
         e = Over(Outcome(t.request, t.read).writes, d)
  PROVE  OutboxFit(e) /\ OutboxChange(t, d, e)
  <1> DEFINE cursor == CursorOf(t)
             page == PageOf(t)
             other == OtherOf(t)
             r == t.request
             found == Found(t.read, cursor) # NoRow
             none == Found(t.read, page) = NoRow
             new == [id |-> r.q, expected |-> r.expected, next |-> NextCursor(r.kind, r.expected)]
  <1>q. r.to \in Keys /\ r.kind \in Stream /\ r.expected \in CursorRow /\ r.q \in Number
    BY DEF OutboxAsked
  <1>0. {AccountRow} \cup Cursors \cup Pages \subseteq DOMAIN d /\ page \in Pages /\ page \in DOMAIN d
    BY <1>q, OutboxRows DEF PageOf
  <1>2. Outcome(r, t.read) = PreparePage(r, t.read)
    BY DEF Outcome
  <1>3. CASE Outcome(r, t.read).writes = << >>
    <2>1. \A x \in {AccountRow} \cup Cursors \cup Pages : e[x] = d[x]
      BY <1>0, <1>3, OverNothing
    <2> QED
      BY <2>1, SameOutbox
  <1>4. CASE Outcome(r, t.read).writes # << >>
    <2>1. /\ t.read[cursor] # NoRow /\ t.read[page] = NoRow /\ t.read[other] = NoRow
          /\ Outcome(r, t.read).writes = Put(page, new)
      BY <1>2, <1>4 DEF PreparePage, Told, Writes, CursorOf, PageOf, OtherOf
    <2>s. /\ ~found => Len(ScriptOf(t)) = 2
          /\ found /\ ~none => Len(ScriptOf(t)) = 3
          /\ found /\ none => Len(ScriptOf(t)) = 4
      BY PrepareScript
    <2>r. t.run = 2 \/ t.run = 3 \/ t.run = 4
      BY <2>s
    <2>c. cursor \in DOMAIN t.read
      <3>1. t.run >= 1
        <4>1. 2 >= 1 /\ 3 >= 1 /\ 4 >= 1
          OBVIOUS
        <4> QED
          BY <2>r, <4>1
      <3> QED
        BY <3>1 DEF FindsCursor
    <2>f. found
      BY <2>1, <2>c DEF Found
    <2>n. none
      BY <2>1 DEF Found
    <2>4. t.run = 4
      BY <2>s, <2>f, <2>n
    <2>h. cursor \in t.held /\ d[page] = NoRow /\ d[other] = NoRow
      BY <2>1, <2>4 DEF PrepareSafe
    <2>2. e[page] = new /\ \A x \in DOMAIN d : x # page => e[x] = d[x]
      BY <1>0, <2>1, OneWrite
    <2>3. /\ \A x \in Pages : x # page => e[x] = d[x]
          /\ \A x \in Cursors : e[x] = d[x]
          /\ e[AccountRow] = d[AccountRow]
      BY <1>0, <2>2, <1>q, OutboxRows DEF PageOf
    <2>a. new \in PageRow
      BY <1>q, NextIsCursor DEF PageRow
    <2>5. \A x \in Pages : e[x] \in PageRow \cup {NoRow}
      BY <2>2, <2>3, <2>a DEF OutboxFit
    <2>6. Present(e, Cursors) = Present(d, Cursors)
      BY <2>3 DEF Present
    <2>o. e[other] = NoRow
      <3>1. other \in Pages /\ other # page
        BY <1>q, OutboxRows DEF PageOf, OtherOf
      <3> QED
        BY <2>3, <2>h, <3>1
    <2>7. \A to \in Keys : e[<<"usage", to>>] = NoRow \/ e[<<"token", to>>] = NoRow
      <3> SUFFICES ASSUME NEW to \in Keys PROVE e[<<"usage", to>>] = NoRow \/ e[<<"token", to>>] = NoRow
        OBVIOUS
      <3>1. CASE to = r.to
        <4>1. r.kind = "usage" \/ r.kind = "token"
          BY <1>q DEF Stream
        <4>2. other = <<"usage", to>> \/ other = <<"token", to>>
          BY <3>1, <4>1 DEF OtherOf, Other
        <4> QED
          BY <2>o, <4>2
      <3>2. CASE to # r.to
        <4>1. <<"usage", to>> # page /\ <<"token", to>> # page
          BY <3>2 DEF PageOf
        <4>2. <<"usage", to>> \in Pages /\ <<"token", to>> \in Pages
          BY DEF Pages, Stream
        <4>3. e[<<"usage", to>>] = d[<<"usage", to>>] /\ e[<<"token", to>>] = d[<<"token", to>>]
          BY <2>3, <4>1, <4>2
        <4> QED
          BY <4>3 DEF OutboxFit
      <3> QED
        BY <3>1, <3>2
    <2>8. OutboxFit(e)
      BY <2>3, <2>5, <2>6, <2>7 DEF OutboxFit
    <2>9. \A kind \in Stream, to \in Keys :
            e[<<kind, to>>] # NoRow => d[<<kind, to>>] # NoRow \/ <<"cursor", to>> \in t.held
      <3> SUFFICES ASSUME NEW kind \in Stream, NEW to \in Keys, e[<<kind, to>>] # NoRow
                   PROVE  d[<<kind, to>>] # NoRow \/ <<"cursor", to>> \in t.held
        OBVIOUS
      <3>1. <<kind, to>> \in Pages
        BY OutboxRows
      <3>2. CASE <<kind, to>> = page
        BY <2>h, <3>2 DEF PageOf, CursorOf
      <3>3. CASE <<kind, to>> # page
        BY <2>3, <3>1, <3>3
      <3> QED
        BY <3>2, <3>3
    <2> QED
      BY <2>3, <2>8, <2>9 DEF OutboxChange
  <1> QED
    BY <1>3, <1>4

LEMMA CommitCommits ==
  ASSUME NEW t, NEW d, NEW e, t.request.op = "commit", OutboxAsked(t.request), FindsCursor(t, d),
         CommitSafe(t), t.run \in Nat,
         t.run = Len(ScriptOf(t)), Rows["outbox"] \subseteq DOMAIN d, OutboxFit(d),
         e = Over(Outcome(t.request, t.read).writes, d)
  PROVE  /\ OutboxFit(e) /\ OutboxChange(t, d, e)
         /\ Outcome(t.request, t.read).writes # << >> => Outcome(t.request, t.read).answer \in CursorRow
  <1> DEFINE cursor == CursorOf(t)
             row == PageOf(t)
             r == t.request
             page == t.read[row]
             found == Found(t.read, cursor) # NoRow
  <1>q. r.to \in Keys /\ r.kind \in Stream
    BY DEF OutboxAsked
  <1>0. /\ {AccountRow} \cup Cursors \cup Pages \subseteq DOMAIN d /\ row \in Pages /\ row \in DOMAIN d
        /\ cursor \in Cursors /\ cursor \in DOMAIN d /\ row # cursor
    BY <1>q, OutboxRows DEF PageOf, CursorOf
  <1>2. Outcome(r, t.read) = CommitPage(r, t.read)
    BY DEF Outcome
  <1>3. CASE Outcome(r, t.read).writes = << >>
    <2>1. \A x \in {AccountRow} \cup Cursors \cup Pages : e[x] = d[x]
      BY <1>0, <1>3, OverNothing
    <2> QED
      BY <1>3, <2>1, SameOutbox
  <1>4. CASE Outcome(r, t.read).writes # << >>
    <2>1. /\ t.read[cursor] # NoRow /\ page # NoRow
          /\ Outcome(r, t.read) = Writes(page.next, Over(Put(cursor, page.next), Put(row, NoRow)))
      <3>1. cursor = <<"cursor", r.to>> /\ row = <<r.kind, r.to>>
        BY DEF CursorOf, PageOf
      <3>2. Told(Refused).writes = << >>
        BY DEF Told
      <3>3. CommitPage(r, t.read) # Told(Refused)
        BY <1>2, <1>4, <3>2
      <3>4. CommitPage(r, t.read) =
              IF t.read[cursor] = NoRow THEN Told(Refused)
              ELSE IF page = NoRow THEN Told(Refused)
              ELSE IF page.id # r.id \/ t.read[cursor] # page.expected THEN Told(Refused)
              ELSE Writes(page.next, Over(Put(cursor, page.next), Put(row, NoRow)))
        BY <3>1 DEF CommitPage
      <3> HIDE DEF cursor, row, page, r
      <3>5. /\ t.read[cursor] # NoRow /\ page # NoRow
            /\ CommitPage(r, t.read) = Writes(page.next, Over(Put(cursor, page.next), Put(row, NoRow)))
        BY ONLY <3>3, <3>4
      <3> QED
        BY <1>2, <3>5
    <2>w. /\ Outcome(r, t.read).writes = Over(Put(cursor, page.next), Put(row, NoRow))
          /\ Outcome(r, t.read).answer = page.next
      BY <2>1 DEF Writes
    <2>s. (~found => Len(ScriptOf(t)) = 1) /\ (found => Len(ScriptOf(t)) = 2)
      BY CommitScript
    <2>r. t.run = 1 \/ t.run = 2
      BY <2>s
    <2>c. cursor \in DOMAIN t.read /\ d[cursor] # NoRow
      <3>1. CASE t.run = 1
        BY <2>1, <3>1 DEF FindsCursor
      <3>2. CASE t.run = 2
        BY <2>1, <3>2 DEF FindsCursor
      <3> QED
        BY <2>r, <3>1, <3>2
    <2>f. found
      BY <2>1, <2>c DEF Found
    <2>4. t.run = 2
      BY <2>s, <2>f
    <2>p. page \in PageRow
      BY <2>1, <2>4 DEF CommitSafe
    <2>v. page.next \in CursorRow
      BY <2>p DEF PageRow
    <2>2. /\ e[cursor] = page.next /\ e[row] = NoRow
          /\ \A x \in DOMAIN d : x # cursor /\ x # row => e[x] = d[x]
      BY <1>0, <2>w, TwoWrites
    <2>3. /\ \A x \in Pages : x # row => e[x] = d[x]
          /\ \A x \in Cursors : x # cursor => e[x] = d[x]
          /\ e[AccountRow] = d[AccountRow]
      BY <1>0, <2>2, <1>q, OutboxRows DEF PageOf, CursorOf
    <2>5. \A x \in Pages : e[x] \in PageRow \cup {NoRow} /\ (e[x] # NoRow => d[x] # NoRow)
      BY <2>2, <2>3 DEF OutboxFit
    <2>6. /\ \A x \in Cursors : e[x] \in CursorRow \cup {NoRow}
          /\ \A x \in Cursors : (e[x] # NoRow) <=> (d[x] # NoRow)
      BY <2>2, <2>3, <2>v, <2>c, CursorsAreRows DEF OutboxFit
    <2>7. Cardinality(Present(e, Cursors)) <= Cap
      BY <2>6, PresentStays
    <2>8. \A kind \in Stream, to \in Keys : e[<<kind, to>>] # NoRow => d[<<kind, to>>] # NoRow
      BY <2>5, OutboxRows
    <2>9. "usage" \in Stream /\ "token" \in Stream
      BY DEF Stream
    <2>10. \A to \in Keys : e[<<"usage", to>>] = NoRow \/ e[<<"token", to>>] = NoRow
      BY <2>8, <2>9 DEF OutboxFit
    <2>11. OutboxFit(e)
      BY <2>3, <2>5, <2>6, <2>7, <2>10 DEF OutboxFit
    <2> QED
      BY <2>6, <2>8, <2>11, <2>v, <2>w DEF OutboxChange
  <1> QED
    BY <1>3, <1>4

LEMMA OutboxStay ==
  ASSUME NEW t, NEW u, NEW d, NEW e, OutboxSafe(u, d), OutboxChange(t, d, e), u.run \in Nat,
         t.held \cap u.held = {}
  PROVE  OutboxSafe(u, e)
  <1>q. OutboxAsked(u.request) /\ u.request.to \in Keys
    BY DEF OutboxSafe, OutboxAsked
  <1>c. CursorOf(u) \in Cursors
    BY <1>q, OutboxRows DEF CursorOf
  <1>1. CASE u.request.op = "load_cursor"
    <2>1. u.run >= 1 => t.request.op # "load_cursor"
      BY <1>1 DEF OutboxSafe, LoadSafe, OutboxChange
    <2>2. u.run >= 1 => Present(e, Cursors) \subseteq Present(d, Cursors)
      BY <2>1 DEF OutboxChange, Present
    <2>3. LoadSafe(u, e)
      BY <1>1, <2>2 DEF OutboxSafe, LoadSafe
    <2> QED
      BY <1>1, <1>q, <2>3 DEF OutboxSafe
  <1>2. CASE u.request.op # "load_cursor"
    <2>1. FindsCursor(u, e)
      BY <1>2, <1>c DEF OutboxSafe, FindsCursor, OutboxChange
    <2>2. CASE u.request.op = "prepare"
      <3>1. u.request.kind \in Stream
        BY <1>q, <2>2 DEF OutboxAsked
      <3>2. Other(u.request.kind) \in Stream
        BY <3>1 DEF Other, Stream
      <3>3. CursorOf(u) \in u.held =>
              /\ d[PageOf(u)] = NoRow => e[PageOf(u)] = NoRow
              /\ d[OtherOf(u)] = NoRow => e[OtherOf(u)] = NoRow
        BY <1>q, <3>1, <3>2 DEF OutboxChange, CursorOf, PageOf, OtherOf
      <3>4. PrepareSafe(u, e)
        BY <2>2, <3>3 DEF OutboxSafe, PrepareSafe
      <3> QED
        BY <1>q, <2>1, <2>2, <3>4 DEF OutboxSafe
    <2>3. CASE u.request.op # "prepare"
      BY <1>2, <1>q, <2>1, <2>3 DEF OutboxSafe
    <2> QED
      BY <2>2, <2>3
  <1> QED
    BY <1>1, <1>2

\* The import and the ingest that commit hold the lock, so no other one runs.
LEMMA ImportsStay ==
  ASSUME NEW t, NEW u, NEW d, NEW e, ImportSafe(t, d), t.run = Len(ScriptOf(t)), ImportSafe(u, d),
         u.run \in Nat,
         t.held \cap u.held = {}
  PROVE  ImportSafe(u, e)
  <1>1. Len(ScriptOf(t)) = 5
    BY ImportScript DEF ImportSafe
  <1>2. t.run = 5
    BY <1>1
  <1>3. <<"import", 0>> \in t.held
    BY <1>2 DEF ImportSafe
  <1>4. ~(u.run >= 1)
    BY <1>3 DEF ImportSafe
  <1>5. ~(u.run >= 2)
    BY <1>4
  <1> QED
    BY <1>4, <1>5 DEF ImportSafe

LEMMA ReportsStay ==
  ASSUME NEW t, NEW u, NEW d, NEW e, IngestSafe(t, d), t.run = Len(ScriptOf(t)), IngestSafe(u, d),
         u.run \in Nat,
         t.held \cap u.held = {}
  PROVE  IngestSafe(u, e)
  <1>1. Len(ScriptOf(t)) = 5 \/ Len(ScriptOf(t)) = 7
    BY IngestScript DEF IngestSafe
  <1>2. t.run = 5 \/ t.run = 7
    BY <1>1
  <1>3. t.run >= 1
    <2>1. 5 >= 1 /\ 7 >= 1
      OBVIOUS
    <2> QED
      BY <1>2, <2>1
  <1>4. <<"ingest", 0>> \in t.held
    BY <1>3 DEF IngestSafe
  <1>5. ~(u.run >= 1)
    BY <1>4 DEF IngestSafe
  <1>6. ~(u.run >= 2)
    BY <1>5
  <1> QED
    BY <1>5, <1>6 DEF IngestSafe

\* A transaction that has run no statement yet.
LEMMA ImportBegins ==
  ASSUME NEW q \in Number, NEW a, NEW t, NEW d, t.request \in Requests("imports", q, a), t.run = 0
  PROVE  ImportSafe(t, d)
  <1>1. t.request \in Arguments("import", q, a)
    BY DEF Requests, Ops
  <1>2. t.request \in [op : {"import"}, q : {q}, target : Keys, payload : Keys]
    BY <1>1 DEF Arguments
  <1> QED
    BY <1>2 DEF ImportSafe

LEMMA IngestBegins ==
  ASSUME NEW q \in Number, NEW a, NEW t, NEW d, t.request \in Requests("reports", q, a), t.run = 0
  PROVE  IngestSafe(t, d)
  <1>1. t.request \in Arguments("ingest", q, a)
    BY DEF Requests, Ops
  <1>2. t.request \in [op : {"ingest"}, q : {q}, id : Keys, payload : Keys]
    BY <1>1 DEF Arguments
  <1> QED
    BY <1>2 DEF IngestSafe

LEMMA NowIsNumber == Now \subseteq Nat
  BY StoreAssumption DEF Now

LEMMA ReceiverBegins ==
  ASSUME NEW q \in Number, NEW a, NEW t, NEW d, t.request \in Requests("receivers", q, a), t.run = 0
  PROVE  ReceiverSafe(t, d)
  <1>1. PICK op \in {"issue", "touch", "revoke"} : t.request \in Arguments(op, q, a)
    BY DEF Requests, Ops
  <1>n. 1..(q - 1) \subseteq Number
    BY Numbers
  <1>2. CASE op = "issue"
    <2>1. t.request \in [op : {op}, q : {q}]
      BY <1>1, <1>2 DEF Arguments
    <2> QED
      BY <1>2, <2>1 DEF ReceiverSafe, IssueSafe
  <1>3. CASE op = "touch"
    <2>1. t.request \in [op : {op}, q : {q}, receiver : 1..(q - 1), now : Now]
      BY <1>1, <1>3 DEF Arguments
    <2>2. t.request.receiver \in Number /\ t.request.now \in Nat /\ t.request.op = "touch" /\ t.request.q = q
      BY <1>3, <1>n, <2>1, NowIsNumber
    <2>3. <<"receiver", t.request.receiver>> \in Receivers
      BY <2>2 DEF Receivers, Table
    <2> QED
      BY <2>2, <2>3 DEF ReceiverSafe, RowSafe
  <1>4. CASE op = "revoke"
    <2>1. t.request \in [op : {op}, q : {q}, receiver : 1..(q - 1)]
      BY <1>1, <1>4 DEF Arguments
    <2>2. t.request.receiver \in Number /\ t.request.op = "revoke" /\ t.request.q = q
      BY <1>4, <1>n, <2>1
    <2>3. <<"receiver", t.request.receiver>> \in Receivers
      BY <2>2 DEF Receivers, Table
    <2> QED
      BY <2>2, <2>3 DEF ReceiverSafe, RowSafe
  <1> QED
    BY <1>1, <1>2, <1>3, <1>4

LEMMA ResetBegins ==
  ASSUME NEW q \in Number, NEW a, NEW t, NEW d, t.request \in Requests("resets", q, a), t.run = 0
  PROVE  ResetSafe(t, d)
  <1>1. PICK op \in {"schedule", "claim", "complete", "cancel"} : t.request \in Arguments(op, q, a)
    BY DEF Requests, Ops
  <1>2. CASE op = "schedule"
    <2>1. t.request \in [op : {op}, q : {q}, job : Keys]
      BY <1>1, <1>2 DEF Arguments
    <2>2. t.request.op = "schedule" /\ <<"job", t.request.job>> \in Jobs
      BY <1>2, <2>1 DEF Jobs, Table
    <2> QED
      BY <2>2 DEF ResetSafe, ScheduleSafe
  <1>3. CASE op = "claim"
    <2>1. t.request \in [op : {op}, q : {q}, now : Now]
      BY <1>1, <1>3 DEF Arguments
    <2>2. t.request.op = "claim" /\ t.request.now \in Nat
      BY <1>3, <2>1, NowIsNumber
    <2> QED
      BY <2>2 DEF ResetSafe, JobsSafe
  <1>4. CASE op = "complete"
    <2>1. t.request \in [op : {op}, q : {q}, job : IF Was(a, {"claim"}) THEN Result(a) ELSE {}]
      BY <1>1, <1>4 DEF Arguments
    <2>2. t.request.op = "complete"
      BY <1>4, <2>1
    <2> QED
      BY <2>2 DEF ResetSafe, JobsSafe
  <1>5. CASE op = "cancel"
    <2>1. t.request \in [op : {op}, q : {q}]
      BY <1>1, <1>5 DEF Arguments
    <2>2. t.request.op = "cancel"
      BY <1>5, <2>1
    <2> QED
      BY <2>2 DEF ResetSafe, JobsSafe
  <1> QED
    BY <1>1, <1>2, <1>3, <1>4, <1>5

LEMMA AlertBegins ==
  ASSUME NEW q \in Number, NEW a, NEW t, NEW d, t.request \in Requests("alerts", q, a), t.run = 0
  PROVE  AlertSafe(t, d)
  <1>1. PICK op \in {"create_subscription", "delete_subscription", "record_alert", "reply"} :
          t.request \in Arguments(op, q, a)
    BY DEF Requests, Ops
  <1> DEFINE sub == {0} \cup (IF Was(a, {"create_subscription"}) THEN {Result(a).id} ELSE {})
  <1>2. CASE op = "create_subscription"
    <2>1. t.request \in [op : {op}, q : {q}, enabled : BOOLEAN]
      BY <1>1, <1>2 DEF Arguments
    <2>2. t.request.op = op /\ t.request.q = q
      BY <2>1
    <2> QED
      BY <1>2, <2>2 DEF AlertSafe
  <1>3. CASE op = "delete_subscription"
    <2>1. t.request \in [op : {op}, q : {q}, sub : sub]
      BY <1>1, <1>3 DEF Arguments
    <2>2. t.request.op = op /\ t.request.q = q
      BY <2>1
    <2> QED
      BY <1>3, <2>2 DEF AlertSafe, DeleteSafe
  <1>4. CASE op = "record_alert"
    <2>1. t.request \in [op : {op}, q : {q}, now : Now, sub : sub]
      BY <1>1, <1>4 DEF Arguments
    <2>2. t.request.op = op /\ t.request.q = q /\ t.request.now \in Nat
      BY <2>1, NowIsNumber
    <2> QED
      BY <1>4, <2>2 DEF AlertSafe, RecordSafe
  <1>5. CASE op = "reply"
    <2>1. t.request \in [op : {op}, q : {q}, event : 1..(q - 1)]
      BY <1>1, <1>5 DEF Arguments
    <2>2. t.request.op = op /\ t.request.q = q /\ t.request.event \in Number
      BY <2>1, Numbers
    <2> QED
      BY <1>5, <2>2 DEF AlertSafe, ReplySafe
  <1> QED
    BY <1>1, <1>2, <1>3, <1>4, <1>5

LEMMA OutboxBegins ==
  ASSUME NEW q \in Number, NEW a, OutboxTold(a), NEW t, NEW d, t.request \in Requests("outbox", q, a),
         t.run = 0
  PROVE  OutboxSafe(t, d)
  <1>1. OutboxAsked(t.request)
    BY OutboxAsks
  <1> QED
    BY <1>1 DEF OutboxSafe, LoadSafe, FindsCursor, PrepareSafe, CommitSafe

\* What the outbox's operations answer.
LEMMA ToldFailed == ASSUME NEW r PROVE OutboxTold(<<r, Failed>>)
  BY DEF OutboxTold, Was, Result

LEMMA TwoPuts == ASSUME NEW a, NEW v, NEW b, NEW w PROVE Over(Put(a, v), Put(b, w)) # << >>
  <1>1. a \in DOMAIN Over(Put(a, v), Put(b, w))
    BY DEF Over, Put
  <1> QED
    BY <1>1

LEMMA CommitRefuses ==
  ASSUME NEW t, t.request.op = "commit", Outcome(t.request, t.read).writes = << >>
  PROVE  Outcome(t.request, t.read).answer = Refused
  <1> DEFINE r == t.request
             cursor == <<"cursor", r.to>>
             row == <<r.kind, r.to>>
             page == t.read[row]
  <1>1. Outcome(r, t.read) = CommitPage(r, t.read)
    BY DEF Outcome
  <1>2. CommitPage(r, t.read) =
          IF t.read[cursor] = NoRow THEN Told(Refused)
          ELSE IF page = NoRow THEN Told(Refused)
          ELSE IF page.id # r.id \/ t.read[cursor] # page.expected THEN Told(Refused)
          ELSE Writes(page.next, Over(Put(cursor, page.next), Put(row, NoRow)))
    BY DEF CommitPage
  <1> HIDE DEF cursor, row, page, r
  <1>3. \/ CommitPage(r, t.read) = Told(Refused)
        \/ CommitPage(r, t.read) = Writes(page.next, Over(Put(cursor, page.next), Put(row, NoRow)))
    BY ONLY <1>2
  <1>4. Writes(page.next, Over(Put(cursor, page.next), Put(row, NoRow))).writes # << >>
    BY TwoPuts DEF Writes
  <1>5. Outcome(r, t.read).writes = << >>
    BY DEF r
  <1>6. Outcome(r, t.read) = Told(Refused)
    BY ONLY <1>1, <1>3, <1>4, <1>5
  <1> QED
    BY <1>6 DEF Told, r

LEMMA LoadTells ==
  ASSUME NEW t, t.request.op = "load_cursor", t.request.to \in Keys, LoadRead(t), t.run \in Nat,
         Quiet(t) \/ t.run = Len(ScriptOf(t))
  PROVE  OutboxTold(<<t.request, Outcome(t.request, t.read).answer>>)
  <1> DEFINE none == Found(t.read, CursorOf(t)) = NoRow
             answer == Outcome(t.request, t.read).answer
  <1>s. /\ none => Len(Plan(t.request, t.read).reads) = 3 /\ Len(ScriptOf(t)) = 4
        /\ ~none => Len(Plan(t.request, t.read).reads) = 2 /\ Len(ScriptOf(t)) = 3
    BY LoadScript
  <1>1. t.run >= 2
    <2>1. CASE Quiet(t) /\ none
      <3>1. t.run >= 3
        BY <1>s, <2>1 DEF Quiet
      <3> QED
        BY <3>1
    <2>2. CASE Quiet(t) /\ ~none
      BY <1>s, <2>2 DEF Quiet
    <2>3. CASE t.run = Len(ScriptOf(t)) /\ none
      <3>1. t.run = 4
        BY <1>s, <2>3
      <3> QED
        BY <3>1
    <2>4. CASE t.run = Len(ScriptOf(t)) /\ ~none
      <3>1. t.run = 3
        BY <1>s, <2>4
      <3> QED
        BY <3>1
    <2> QED
      BY <2>1, <2>2, <2>3, <2>4
  <1>2. t.read[CursorOf(t)] \in CursorRow \cup {NoRow}
    BY <1>1 DEF LoadRead
  <1>3. Outcome(t.request, t.read) = LoadCursor(t.request, t.read)
    BY DEF Outcome
  <1>4. answer \in CursorRow \cup {Refused}
    BY <1>2, <1>3, OriginIsCursor DEF LoadCursor, Told, Writes, CursorOf
  <1> HIDE DEF answer
  <1>5. OutboxTold(<<t.request, answer>>)
    BY <1>4 DEF OutboxTold, Was, Request, Result
  <1> QED
    BY <1>5 DEF answer

LEMMA OutboxTells ==
  ASSUME NEW t, OutboxAsked(t.request), t.request.op # "load_cursor",
         t.request.op = "commit" =>
           (Outcome(t.request, t.read).writes # << >> => Outcome(t.request, t.read).answer \in CursorRow)
  PROVE  OutboxTold(<<t.request, Outcome(t.request, t.read).answer>>)
  <1> DEFINE r == t.request
             answer == Outcome(t.request, t.read).answer
  <1>q. r.to \in Keys /\ r.kind \in Stream /\ r.op \in {"advance", "prepare", "commit"}
    BY DEF OutboxAsked
  <1>1. CASE r.op = "advance"
    <2>1. Outcome(r, t.read) = AdvanceCursor(r, t.read)
      BY <1>1 DEF Outcome
    <2>2. NextCursor(r.kind, r.expected) \in CursorRow
      BY <1>q, <1>1, NextIsCursor DEF OutboxAsked
    <2>3. answer \in CursorRow \cup {Refused}
      BY <2>1, <2>2 DEF AdvanceCursor, Told, Writes
    <2> HIDE DEF answer
    <2>4. OutboxTold(<<r, answer>>)
      BY <1>q, <1>1, <2>3 DEF OutboxTold, Was, Request, Result
    <2> QED
      BY <2>4 DEF answer
  <1>2. CASE r.op = "commit"
    <2>1. answer \in CursorRow \cup {Refused}
      BY <1>2, CommitRefuses
    <2> HIDE DEF answer
    <2>2. OutboxTold(<<r, answer>>)
      BY <1>q, <1>2, <2>1 DEF OutboxTold, Was, Request, Result
    <2> QED
      BY <2>2 DEF answer
  <1>3. CASE r.op = "prepare"
    <2> HIDE DEF answer
    <2>1. OutboxTold(<<r, answer>>)
      BY <1>q, <1>3 DEF OutboxTold, Was, Request, Result
    <2> QED
      BY <2>1 DEF answer
  <1> QED
    BY <1>q, <1>1, <1>2, <1>3

-----------------------------------------------------------------------------
(* Together.                                                               *)

\* A transaction's reads, by the group of operations the callers use.
TxSafe(t, d) ==
  /\ group = "imports" => ImportSafe(t, d)
  /\ group = "reports" => IngestSafe(t, d)
  /\ group = "receivers" => ReceiverSafe(t, d)
  /\ group = "resets" => ResetSafe(t, d)
  /\ group = "alerts" => AlertSafe(t, d)
  /\ group = "outbox" => OutboxSafe(t, d)

\* The committed rows.
RowsFit(d) ==
  /\ group = "imports" => ImportsFit(d)
  /\ group = "reports" => ReportsFit(d)
  /\ group = "receivers" => ReceiversFit(d)
  /\ group = "resets" => ResetsFit(d)
  /\ group = "alerts" => AlertsFit(d)
  /\ group = "outbox" => OutboxFit(d)

\* The fields of a transaction.
Shape(t) ==
  t = [request |-> t.request, run |-> t.run, read |-> t.read, held |-> t.held] /\ t.run \in Nat

\* The answers that callers hand back.
ToldRight == group = "outbox" => \A c \in Client : OutboxTold(answers[c])

\* The inductive invariant: every open transaction still knows what it has read,
\* no two hold the same lock, and the committed rows respect the caps.
StoreInv ==
  /\ group \in Group /\ asked \in Nat
  /\ Rows[group] \subseteq DOMAIN db /\ DOMAIN tx = Client /\ DOMAIN answers = Client
  /\ \A c \in Client : Shape(tx[c]) /\ (tx[c] # Closed => TxSafe(tx[c], db))
  /\ \A c, e \in Client : c # e => tx[c].held \cap tx[e].held = {}
  /\ RowsFit(db) /\ ToldRight

LEMMA TxBegins ==
  ASSUME NEW q \in Number, NEW c \in Client, ToldRight, NEW t, NEW d,
         t.request \in Requests(group, q, answers[c]), t.run = 0
  PROVE  TxSafe(t, d)
  BY ImportBegins, IngestBegins, ReceiverBegins, ResetBegins, AlertBegins, OutboxBegins DEF TxSafe, ToldRight

LEMMA ReceiverRuns ==
  ASSUME NEW t, NEW u, ReceiverSafe(t, db), ReceiversFit(db), t.run \in Nat, t.run < Len(ScriptOf(t)),
         Steps(t, ScriptOf(t)[t.run + 1], u)
  PROVE  ReceiverSafe(u, db)
  <1>1. u.request = t.request
    BY GrownFields DEF Steps
  <1>2. CASE t.request.op = "issue"
    <2>1. IssueSafe(u, db)
      BY <1>2, IssueRuns DEF ReceiverSafe
    <2> QED
      BY <1>1, <1>2, <2>1 DEF ReceiverSafe
  <1>3. CASE t.request.op # "issue"
    <2>1. t.request.op \in {"touch", "revoke"} /\ RowSafe(t, db)
      BY <1>3 DEF ReceiverSafe
    <2>2. RowSafe(u, db)
      BY <2>1, RowRuns
    <2> QED
      BY <1>1, <1>3, <2>2 DEF ReceiverSafe
  <1> QED
    BY <1>2, <1>3

LEMMA ResetRuns ==
  ASSUME NEW t, NEW u, ResetSafe(t, db), ResetsFit(db), t.run \in Nat, t.run < Len(ScriptOf(t)),
         Steps(t, ScriptOf(t)[t.run + 1], u)
  PROVE  Quiet(u) \/ ResetSafe(u, db)
  <1>1. u.request = t.request
    BY GrownFields DEF Steps
  <1>2. CASE t.request.op = "schedule"
    <2>1. Quiet(u) \/ ScheduleSafe(u, db)
      BY <1>2, ScheduleRuns DEF ResetSafe
    <2> QED
      BY <1>1, <1>2, <2>1 DEF ResetSafe
  <1>3. CASE t.request.op # "schedule"
    <2>1. t.request.op \in {"claim", "complete", "cancel"}
      BY <1>3 DEF ResetSafe
    <2>a. /\ t.request.op \in {"claim", "complete", "cancel"} /\ t.run \in Nat /\ t.run < Len(ScriptOf(t))
          /\ Steps(t, ScriptOf(t)[t.run + 1], u) /\ ResetsFit(db)
      BY <2>1
    <2>2. JobsSafe(u, db)
      BY ONLY <2>a, JobsRun
    <2> QED
      BY <1>1, <1>3, <2>2 DEF ResetSafe
  <1> QED
    BY <1>2, <1>3

LEMMA AlertRuns ==
  ASSUME NEW t, NEW u, AlertSafe(t, db), t.run \in Nat, t.run < Len(ScriptOf(t)),
         Steps(t, ScriptOf(t)[t.run + 1], u)
  PROVE  AlertSafe(u, db)
  <1>1. u.request = t.request
    BY GrownFields DEF Steps
  <1>2. CASE t.request.op = "record_alert"
    <2>1. RecordSafe(u, db)
      BY <1>2, RecordRuns DEF AlertSafe
    <2> QED
      BY <1>1, <1>2, <2>1 DEF AlertSafe
  <1>3. CASE t.request.op = "delete_subscription"
    <2>1. DeleteSafe(u, db)
      BY <1>3, DeleteRuns DEF AlertSafe
    <2> QED
      BY <1>1, <1>3, <2>1 DEF AlertSafe
  <1>4. CASE t.request.op = "reply"
    <2>1. ReplySafe(u, db)
      BY <1>4, ReplyRuns DEF AlertSafe
    <2> QED
      BY <1>1, <1>4, <2>1 DEF AlertSafe
  <1>5. CASE t.request.op = "create_subscription"
    BY <1>1, <1>5 DEF AlertSafe
  <1> QED
    BY <1>2, <1>3, <1>4, <1>5 DEF AlertSafe

LEMMA OutboxRuns ==
  ASSUME NEW t, NEW u, OutboxSafe(t, db), OutboxFit(db), t.run \in Nat, t.run < Len(ScriptOf(t)),
         Steps(t, ScriptOf(t)[t.run + 1], u)
  PROVE  /\ Quiet(u) \/ OutboxSafe(u, db)
         /\ Quiet(u) => OutboxTold(<<u.request, Outcome(u.request, u.read).answer>>)
  <1>1. u.request = t.request /\ u.run \in Nat
    BY GrownFields DEF Steps
  <1>q. OutboxAsked(t.request) /\ t.request.to \in Keys
    BY DEF OutboxSafe, OutboxAsked
  <1>2. CASE t.request.op = "load_cursor"
    <2>1. (Quiet(u) /\ LoadRead(u)) \/ LoadSafe(u, db)
      BY <1>2, <1>q, LoadRuns DEF OutboxSafe
    <2>2. LoadRead(u)
      BY <2>1 DEF LoadSafe, LoadRead
    <2>3. LoadSafe(u, db) => OutboxSafe(u, db)
      BY <1>1, <1>2, <1>q DEF OutboxSafe
    <2>4. Quiet(u) => OutboxTold(<<u.request, Outcome(u.request, u.read).answer>>)
      BY <1>1, <1>2, <1>q, <2>2, LoadTells
    <2> QED
      BY <2>1, <2>3, <2>4
  <1>3. CASE t.request.op # "load_cursor"
    <2>k. t.request.kind \in Stream
      BY <1>3, <1>q DEF OutboxAsked
    <2>1. OutboxSafe(u, db)
      <3>1. CASE t.request.op = "advance"
        <4>1. FindsCursor(u, db)
          BY <1>q, <3>1, AdvanceRuns
        <4> QED
          BY <1>1, <1>q, <3>1, <4>1 DEF OutboxSafe
      <3>2. CASE t.request.op = "prepare"
        <4>1. FindsCursor(u, db) /\ PrepareSafe(u, db)
          BY <1>q, <2>k, <3>2, PrepareRuns DEF OutboxSafe
        <4> QED
          BY <1>1, <1>q, <3>2, <4>1 DEF OutboxSafe
      <3>3. CASE t.request.op = "commit"
        <4>1. FindsCursor(u, db) /\ CommitSafe(u)
          BY <1>q, <2>k, <3>3, CommitRuns DEF OutboxSafe
        <4> QED
          BY <1>1, <1>q, <3>3, <4>1 DEF OutboxSafe
      <3> QED
        BY <1>3, <1>q, <3>1, <3>2, <3>3 DEF OutboxAsked
    <2>2. Quiet(u) => OutboxTold(<<u.request, Outcome(u.request, u.read).answer>>)
      BY <1>1, <1>3, <1>q, OutboxTells DEF Quiet
    <2> QED
      BY <2>1, <2>2
  <1> QED
    BY <1>2, <1>3

LEMMA TxRuns ==
  ASSUME NEW t, NEW u, TxSafe(t, db), RowsFit(db), t.run \in Nat, t.run < Len(ScriptOf(t)),
         Steps(t, ScriptOf(t)[t.run + 1], u)
  PROVE  /\ Quiet(u) \/ TxSafe(u, db)
         /\ group = "outbox" /\ Quiet(u) => OutboxTold(<<u.request, Outcome(u.request, u.read).answer>>)
  <1>1. group = "imports" => ImportSafe(u, db)
    BY ImportRuns DEF TxSafe
  <1>2. group = "reports" => IngestSafe(u, db)
    BY IngestRuns DEF TxSafe
  <1>3. group = "receivers" => ReceiverSafe(u, db)
    BY ReceiverRuns DEF TxSafe, RowsFit
  <1>4. group = "resets" => Quiet(u) \/ ResetSafe(u, db)
    BY ResetRuns DEF TxSafe, RowsFit
  <1>5. group = "alerts" => AlertSafe(u, db)
    BY AlertRuns DEF TxSafe
  <1>6. group = "outbox" =>
          /\ Quiet(u) \/ OutboxSafe(u, db)
          /\ Quiet(u) => OutboxTold(<<u.request, Outcome(u.request, u.read).answer>>)
    BY OutboxRuns DEF TxSafe, RowsFit
  <1> QED
    BY <1>1, <1>2, <1>3, <1>4, <1>5, <1>6 DEF TxSafe

LEMMA ReceiverCommits ==
  ASSUME NEW t, NEW d, NEW e, ReceiverSafe(t, d), t.run \in Nat, t.run = Len(ScriptOf(t)),
         Rows["receivers"] \subseteq DOMAIN d, ReceiversFit(d), e = Over(Outcome(t.request, t.read).writes, d)
  PROVE  ReceiversFit(e) /\ ReceiverChange(t, d, e)
  <1>1. CASE t.request.op = "issue"
    BY <1>1, IssueCommits DEF ReceiverSafe
  <1>2. CASE t.request.op # "issue"
    <2>1. /\ t.request.op \in {"touch", "revoke"} /\ RowSafe(t, d) /\ t.run \in Nat
             /\ t.run = Len(ScriptOf(t))
          /\ Rows["receivers"] \subseteq DOMAIN d /\ ReceiversFit(d)
          /\ e = Over(Outcome(t.request, t.read).writes, d)
      BY <1>2 DEF ReceiverSafe
    <2> QED
      BY ONLY <2>1, RowCommits
  <1> QED
    BY <1>1, <1>2

LEMMA ResetCommits ==
  ASSUME NEW t, NEW d, NEW e, ResetSafe(t, d), t.run \in Nat, t.run = Len(ScriptOf(t)),
         Rows["resets"] \subseteq DOMAIN d, ResetsFit(d), e = Over(Outcome(t.request, t.read).writes, d)
  PROVE  ResetsFit(e) /\ ResetChange(t, d, e)
  <1>1. CASE t.request.op = "schedule"
    BY <1>1, ScheduleCommits DEF ResetSafe
  <1>2. CASE t.request.op # "schedule"
    <2>1. /\ t.request.op \in {"claim", "complete", "cancel"} /\ JobsSafe(t, d) /\ t.run \in Nat
          /\ (t.request.op = "claim" => t.request.now \in Nat) /\ t.run = Len(ScriptOf(t))
          /\ Rows["resets"] \subseteq DOMAIN d /\ ResetsFit(d)
          /\ e = Over(Outcome(t.request, t.read).writes, d)
      BY <1>2 DEF ResetSafe
    <2> QED
      BY ONLY <2>1, JobsCommit
  <1> QED
    BY <1>1, <1>2

LEMMA AlertCommits ==
  ASSUME NEW t, NEW d, NEW e, AlertSafe(t, d), t.run \in Nat, t.run = Len(ScriptOf(t)),
         Rows["alerts"] \subseteq DOMAIN d, AlertsFit(d), e = Over(Outcome(t.request, t.read).writes, d)
  PROVE  AlertsFit(e) /\ AlertChange(t, d, e)
  <1>q. t.request.q \in Number
    BY DEF AlertSafe
  <1>1. CASE t.request.op = "create_subscription"
    BY <1>1, CreateCommits
  <1>2. CASE t.request.op = "delete_subscription"
    BY <1>2, DeleteCommits DEF AlertSafe
  <1>3. CASE t.request.op = "record_alert"
    BY <1>3, <1>q, RecordCommits DEF AlertSafe
  <1>4. CASE t.request.op = "reply"
    BY <1>4, <1>q, ReplyCommits DEF AlertSafe
  <1> QED
    BY <1>1, <1>2, <1>3, <1>4 DEF AlertSafe

LEMMA OutboxCommits ==
  ASSUME NEW t, NEW d, NEW e, OutboxSafe(t, d), t.run \in Nat, t.run = Len(ScriptOf(t)),
         Rows["outbox"] \subseteq DOMAIN d, OutboxFit(d), e = Over(Outcome(t.request, t.read).writes, d)
  PROVE  /\ OutboxFit(e) /\ OutboxChange(t, d, e)
         /\ OutboxTold(<<t.request, Outcome(t.request, t.read).answer>>)
  <1>q. OutboxAsked(t.request) /\ t.request.to \in Keys
    BY DEF OutboxSafe, OutboxAsked
  <1>1. CASE t.request.op = "load_cursor"
    <2>1. LoadSafe(t, d) /\ LoadRead(t)
      BY <1>1 DEF OutboxSafe, LoadSafe, LoadRead
    <2>2. OutboxFit(e) /\ OutboxChange(t, d, e)
      BY <1>1, <1>q, <2>1, LoadCommits
    <2> QED
      BY <1>1, <1>q, <2>1, <2>2, LoadTells
  <1>2. CASE t.request.op = "advance"
    <2>1. OutboxFit(e) /\ OutboxChange(t, d, e)
      BY <1>2, <1>q, AdvanceCommits DEF OutboxSafe
    <2> QED
      BY <1>2, <1>q, <2>1, OutboxTells
  <1>3. CASE t.request.op = "prepare"
    <2>1. OutboxFit(e) /\ OutboxChange(t, d, e)
      BY <1>3, <1>q, PrepareCommits DEF OutboxSafe
    <2> QED
      BY <1>3, <1>q, <2>1, OutboxTells
  <1>4. CASE t.request.op = "commit"
    <2>1. /\ OutboxFit(e) /\ OutboxChange(t, d, e)
          /\ Outcome(t.request, t.read).writes # << >> => Outcome(t.request, t.read).answer \in CursorRow
      BY <1>4, <1>q, CommitCommits DEF OutboxSafe
    <2> QED
      BY <1>4, <1>q, <2>1, OutboxTells
  <1> QED
    BY <1>q, <1>1, <1>2, <1>3, <1>4 DEF OutboxAsked

LEMMA TxCommits ==
  ASSUME NEW t, NEW e, TxSafe(t, db), RowsFit(db), group \in Group, Rows[group] \subseteq DOMAIN db,
         t.run \in Nat, t.run = Len(ScriptOf(t)), e = Over(Outcome(t.request, t.read).writes, db)
  PROVE  /\ RowsFit(e)
         /\ \A u : TxSafe(u, db) /\ u.run \in Nat /\ t.held \cap u.held = {} => TxSafe(u, e)
         /\ group = "outbox" => OutboxTold(<<t.request, Outcome(t.request, t.read).answer>>)
  <1>1. CASE group = "imports"
    <2>1. ImportSafe(t, db) /\ ImportsFit(e)
      BY <1>1, ImportCommits DEF TxSafe, RowsFit
    <2>2. \A u : ImportSafe(u, db) /\ u.run \in Nat /\ t.held \cap u.held = {} => ImportSafe(u, e)
      BY <2>1, ImportsStay
    <2> QED
      BY <1>1, <2>1, <2>2 DEF TxSafe, RowsFit
  <1>2. CASE group = "reports"
    <2>1. IngestSafe(t, db) /\ ReportsFit(e)
      BY <1>2, IngestCommits DEF TxSafe, RowsFit
    <2>2. \A u : IngestSafe(u, db) /\ u.run \in Nat /\ t.held \cap u.held = {} => IngestSafe(u, e)
      BY <2>1, ReportsStay
    <2> QED
      BY <1>2, <2>1, <2>2 DEF TxSafe, RowsFit
  <1>3. CASE group = "receivers"
    <2>1. ReceiversFit(e) /\ ReceiverChange(t, db, e)
      BY <1>3, ReceiverCommits DEF TxSafe, RowsFit
    <2>2. \A u : ReceiverSafe(u, db) /\ u.run \in Nat /\ t.held \cap u.held = {} => ReceiverSafe(u, e)
      BY <2>1, ReceiversStay
    <2> QED
      BY <1>3, <2>1, <2>2 DEF TxSafe, RowsFit
  <1>4. CASE group = "resets"
    <2>1. ResetsFit(e) /\ ResetChange(t, db, e)
      BY <1>4, ResetCommits DEF TxSafe, RowsFit
    <2>2. \A u : ResetSafe(u, db) /\ u.run \in Nat /\ t.held \cap u.held = {} => ResetSafe(u, e)
      BY <2>1, ResetsStay
    <2> QED
      BY <1>4, <2>1, <2>2 DEF TxSafe, RowsFit
  <1>5. CASE group = "alerts"
    <2>1. AlertsFit(e) /\ AlertChange(t, db, e)
      BY <1>5, AlertCommits DEF TxSafe, RowsFit
    <2>2. \A u : AlertSafe(u, db) /\ u.run \in Nat /\ t.held \cap u.held = {} => AlertSafe(u, e)
      BY <2>1, AlertsStay
    <2> QED
      BY <1>5, <2>1, <2>2 DEF TxSafe, RowsFit
  <1>6. CASE group = "outbox"
    <2>1. /\ OutboxFit(e) /\ OutboxChange(t, db, e)
          /\ OutboxTold(<<t.request, Outcome(t.request, t.read).answer>>)
      BY <1>6, OutboxCommits DEF TxSafe, RowsFit
    <2>2. \A u : OutboxSafe(u, db) /\ u.run \in Nat /\ t.held \cap u.held = {} => OutboxSafe(u, e)
      BY <2>1, OutboxStay
    <2> QED
      BY <1>6, <2>1, <2>2 DEF TxSafe, RowsFit
  <1>7. CASE group \in {"tokens", "peers", "usage"}
    BY <1>7 DEF TxSafe, RowsFit
  <1> QED
    BY <1>1, <1>2, <1>3, <1>4, <1>5, <1>6, <1>7 DEF Group

LEMMA ShapeGrows ==
  ASSUME NEW t, NEW request, NEW run, NEW read, NEW held, NEW n, NEW R, NEW H,
         t = [request |-> request, run |-> run, read |-> read, held |-> held],
         NEW v, v = [t EXCEPT !.run = n, !.read = R, !.held = H]
  PROVE  v = [request |-> request, run |-> n, read |-> R, held |-> H]
  <1>1. [t EXCEPT !.run = n] = [request |-> request, run |-> n, read |-> read, held |-> held]
    OBVIOUS
  <1> DEFINE a == [t EXCEPT !.run = n]
  <1>a. a = [request |-> request, run |-> n, read |-> read, held |-> held]
    BY <1>1
  <1> HIDE DEF a
  <1>2. [a EXCEPT !.read = R] = [request |-> request, run |-> n, read |-> R, held |-> held]
    BY ONLY <1>a
  <1> DEFINE b == [a EXCEPT !.read = R]
  <1>b. b = [request |-> request, run |-> n, read |-> R, held |-> held]
    BY <1>2
  <1> HIDE DEF b
  <1>3. [b EXCEPT !.held = H] = [request |-> request, run |-> n, read |-> R, held |-> H]
    BY ONLY <1>b
  <1> QED
    BY <1>3 DEF a, b

\* A statement of a client's transaction.
LEMMA StatementRuns ==
  ASSUME NEW c \in Client, DOMAIN tx = Client, Shape(tx[c]), RunStatement(c)
  PROVE  /\ tx[c] # Closed /\ tx[c].run < Len(ScriptOf(tx[c]))
         /\ UNCHANGED <<group, db, asked>>
         /\ \E u :
              /\ Steps(tx[c], ScriptOf(tx[c])[tx[c].run + 1], u)
              /\ Shape(u)
              /\ \A e \in Client \ {c} : tx[e].held \cap u.held \subseteq tx[e].held \cap tx[c].held
              /\ \/ /\ Quiet(u) /\ tx' = [tx EXCEPT ![c] = Closed]
                    /\ answers' = [answers EXCEPT ![c] = <<u.request, Outcome(u.request, u.read).answer>>]
                 \/ ~Quiet(u) /\ tx' = [tx EXCEPT ![c] = u] /\ answers' = answers
  <1> DEFINE t == tx[c]
             s == ScriptOf(t)[t.run + 1]
  <1>1. /\ tx[c] # Closed /\ t.run < Len(ScriptOf(t))
        /\ \/ Lock(c, s) \/ RunSelect(c, s) \/ RunSelectForUpdate(c, s) \/ RunSkipLocked(c, s)
           \/ RunInsertIfAbsent(c, s) \/ RunInsert(c, s) \/ RunUpsert(c, s) \/ TakeId(c, s)
    BY DEF RunStatement, Script, ScriptOf
  <1>2. \E got, locked : Effect(t, s, got, locked) /\ Unheld(c, locked) /\ Ran(c, got, locked)
    <2>1. CASE Lock(c, s)
      BY <2>1 DEF Lock, Effect
    <2>2. CASE RunSelect(c, s)
      BY <2>2 DEF RunSelect, Effect, Unheld
    <2>3. CASE RunSelectForUpdate(c, s)
      BY <2>3 DEF RunSelectForUpdate, Effect
    <2>4. CASE RunSkipLocked(c, s)
      <3> DEFINE free == {row \in s.rows : Unheld(c, {row})}
                 got == [row \in s.rows |-> IF row \in free THEN db[row] ELSE NoRow]
                 wanted == {row \in free : db[row] # NoRow /\ Wanted(t.request, row)}
      <3>1. s.kind = "skip_locked" /\ Ran(c, got, wanted)
        BY <2>4 DEF RunSkipLocked
      <3>2. Unheld(c, wanted)
        BY DEF Unheld
      <3>3. Effect(t, s, got, wanted)
        BY <3>1 DEF Effect
      <3> QED
        BY <3>1, <3>2, <3>3
    <2>5. CASE RunInsertIfAbsent(c, s)
      BY <2>5 DEF RunInsertIfAbsent, Effect
    <2>6. CASE RunInsert(c, s)
      BY <2>6 DEF RunInsert, Effect
    <2>7. CASE RunUpsert(c, s)
      BY <2>7 DEF RunUpsert, Effect
    <2>8. CASE TakeId(c, s)
      BY <2>8 DEF TakeId, Effect, Unheld
    <2> QED
      BY <1>1, <2>1, <2>2, <2>3, <2>4, <2>5, <2>6, <2>7, <2>8
  <1>3. PICK got, locked : Effect(t, s, got, locked) /\ Unheld(c, locked) /\ Ran(c, got, locked)
    BY <1>2
  <1> DEFINE u == Grown(t, got, locked)
  <1>4. u = [t EXCEPT !.run = @ + 1, !.read = Over(got, @), !.held = @ \cup locked]
    <2>1. t = [request |-> t.request, run |-> t.run, read |-> t.read, held |-> t.held]
      BY DEF Shape
    <2> DEFINE n == t.run + 1
               R == Over(got, t.read)
               H == t.held \cup locked
               v == [t EXCEPT !.run = n, !.read = R, !.held = H]
    <2>v. v = [t EXCEPT !.run = n, !.read = R, !.held = H]
      OBVIOUS
    <2> HIDE DEF t, n, R, H, v
    <2>2. v = [request |-> t.request, run |-> n, read |-> R, held |-> H]
      BY ONLY <2>1, <2>v, ShapeGrows
    <2> QED
      BY <2>2 DEF Grown, n, R, H, v
  <1>5. Steps(t, s, u)
    BY <1>3 DEF Steps
  <1>6. Shape(u)
    BY DEF Shape, Grown
  <1>7. \A e \in Client \ {c} : tx[e].held \cap u.held \subseteq tx[e].held \cap tx[c].held
    BY <1>3 DEF Unheld, Grown
  <1>8. /\ \/ /\ Quiet(u) /\ tx' = [tx EXCEPT ![c] = Closed]
              /\ answers' = [answers EXCEPT ![c] = <<u.request, Outcome(u.request, u.read).answer>>]
           \/ ~Quiet(u) /\ tx' = [tx EXCEPT ![c] = u] /\ answers' = answers
        /\ UNCHANGED <<group, db, asked>>
    <2> HIDE DEF u
    <2>1. u = [tx[c] EXCEPT !.run = @ + 1, !.read = Over(got, @), !.held = @ \cup locked]
      BY <1>4
    <2>2. /\ IF u.run >= Len(Plan(u.request, u.read).reads) /\ Outcome(u.request, u.read).writes = << >>
             THEN /\ tx' = [tx EXCEPT ![c] = Closed]
                  /\ answers' = [answers EXCEPT ![c] = <<u.request, Outcome(u.request, u.read).answer>>]
             ELSE tx' = [tx EXCEPT ![c] = u] /\ UNCHANGED answers
          /\ UNCHANGED <<group, db, asked>>
      BY <1>3, <2>1 DEF Ran
    <2> QED
      BY <2>2 DEF Quiet
  <1> QED
    BY <1>1, <1>5, <1>6, <1>7, <1>8

LEMMA ClosedFields == Closed.held = {} /\ Closed.run = 0 /\ Shape(Closed)
  BY DEF Closed, Shape

LEMMA ShapeAsks ==
  ASSUME NEW v, NEW r, Shape(v)
  PROVE  LET u == [v EXCEPT !.request = r] IN Shape(u) /\ u.held = v.held /\ u.run = v.run /\ u.request = r
  <1> DEFINE u == [v EXCEPT !.request = r]
             a == v.request
             n == v.run
             R == v.read
             H == v.held
  <1>1. v = [request |-> a, run |-> n, read |-> R, held |-> H] /\ n \in Nat
    BY DEF Shape
  <1> HIDE DEF a, n, R, H
  <1>2. u = [request |-> r, run |-> n, read |-> R, held |-> H]
    BY <1>1
  <1> HIDE DEF u
  <1>3. u = [request |-> u.request, run |-> u.run, read |-> u.read, held |-> u.held]
        /\ u.run = n /\ u.held = H /\ u.request = r
    BY ONLY <1>2
  <1>4. Shape(u)
    BY <1>1, <1>3 DEF Shape
  <1> QED
    BY <1>3, <1>4 DEF u, n, H

LEMMA EmptySets == Cardinality({}) = 0 /\ 0 <= Cap
  BY FS_EmptySet, StoreAssumption

\* The first rows.
LEMMA FirstFits ==
  ASSUME group \in Group, db = [row \in Rows[group] |-> First(row)]
  PROVE  RowsFit(db)
  <1>f. /\ \A x : x # Subscription /\ x # AccountRow => First(x) = NoRow
        /\ First(AccountRow) # NoRow
    BY NoRowIsNone DEF First, Subscription, AccountRow
  <1>1. CASE group = "imports"
    <2>1. \A x \in Imported : x \in Rows["imports"] /\ x # Subscription /\ x # AccountRow
      BY DEF Rows, Imported, Table, Subscription, AccountRow
    <2>2. Present(db, Imported) = {}
      BY <1>1, <1>f, <2>1 DEF Present
    <2> QED
      BY <1>1, <2>2 DEF RowsFit, ImportsFit
  <1>2. CASE group = "reports"
    <2>1. \A x \in Reports : x \in Rows["reports"] /\ x # Subscription /\ x # AccountRow
      BY DEF Rows, Reports, Table, Subscription, AccountRow
    <2>2. Present(db, Reports) = {}
      BY <1>2, <1>f, <2>1 DEF Present
    <2> QED
      BY <1>2, <2>2 DEF RowsFit, ReportsFit
  <1>3. CASE group = "receivers"
    <2>1. \A x \in Receivers : x \in Rows["receivers"] /\ x # Subscription /\ x # AccountRow
      BY DEF Rows, Receivers, Table, Subscription, AccountRow
    <2>2. \A x \in Receivers : db[x] = NoRow
      BY <1>3, <1>f, <2>1
    <2>3. ActiveIn(db) = {}
      BY <2>2 DEF ActiveIn, Present
    <2> QED
      BY <1>3, <2>2, <2>3, EmptySets DEF RowsFit, ReceiversFit
  <1>4. CASE group = "resets"
    <2>1. \A x \in Jobs : x \in Rows["resets"] /\ x # Subscription /\ x # AccountRow
      BY DEF Rows, Jobs, Table, Subscription, AccountRow
    <2>2. \A x \in Jobs : db[x] = NoRow
      BY <1>4, <1>f, <2>1
    <2>3. PendingIn(db) = {}
      BY <2>2 DEF PendingIn, IsPending
    <2> QED
      BY <1>4, <2>2, <2>3, EmptySets DEF RowsFit, ResetsFit
  <1>5. CASE group = "alerts"
    <2>1. \A x \in Events \cup Replies : x \in Rows["alerts"] /\ x # Subscription /\ x # AccountRow
      BY DEF Rows, Events, Replies, Table, Subscription, AccountRow
    <2>2. \A x \in Events \cup Replies : db[x] = NoRow
      BY <1>5, <1>f, <2>1
    <2>3. Present(db, Events) = {}
      BY <2>2 DEF Present
    <2>4. \A n \in Number : RepliesTo(n, db) = {}
      BY <2>2, NoRowIsNone DEF RepliesTo
    <2> QED
      BY <1>5, <2>2, <2>3, <2>4, EmptySets DEF RowsFit, AlertsFit
  <1>6. CASE group = "outbox"
    <2>1. /\ AccountRow \in Rows["outbox"]
          /\ \A x \in Cursors \cup Pages : x \in Rows["outbox"] /\ x # Subscription /\ x # AccountRow
      BY DEF Rows, Cursors, Pages, Stream, Table, Subscription, AccountRow
    <2>2. db[AccountRow] # NoRow /\ \A x \in Cursors \cup Pages : db[x] = NoRow
      BY <1>6, <1>f, <2>1
    <2>3. Present(db, Cursors) = {}
      BY <2>2 DEF Present
    <2>4. \A to \in Keys : db[<<"usage", to>>] = NoRow
      BY <2>2 DEF Pages, Stream
    <2> QED
      BY <1>6, <2>2, <2>3, <2>4, EmptySets DEF RowsFit, OutboxFit
  <1>7. CASE group \in {"tokens", "peers", "usage"}
    BY <1>7 DEF RowsFit
  <1> QED
    BY <1>1, <1>2, <1>3, <1>4, <1>5, <1>6, <1>7 DEF Group

LEMMA NoAnswerTold == OutboxTold(NoAnswer)
  BY DEF OutboxTold, Was, NoAnswer, Request, Unasked

LEMMA StoreInvBegins == ASSUME PostgresInit PROVE StoreInv
  <1>1. group \in Group /\ db = [row \in Rows[group] |-> First(row)] /\ answers = [c \in Client |-> NoAnswer]
        /\ tx = [c \in Client |-> Closed] /\ asked = 0
    BY DEF PostgresInit, StoreInit
  <1>2. RowsFit(db)
    BY <1>1, FirstFits
  <1>3. ToldRight
    BY <1>1, NoAnswerTold DEF ToldRight
  <1>4. \A c \in Client : tx[c] = Closed
    BY <1>1
  <1>5. \A c \in Client : Shape(tx[c]) /\ (tx[c] # Closed => TxSafe(tx[c], db))
    BY <1>4, ClosedFields
  <1>6. \A c, e \in Client : tx[c].held \cap tx[e].held = {}
    BY <1>4, ClosedFields
  <1> QED
    BY <1>1, <1>2, <1>3, <1>5, <1>6 DEF StoreInv

\* A step that closes a transaction or goes on with it.
LEMMA OneTxChanges ==
  ASSUME StoreInv, NEW c \in Client, NEW u, tx' = [tx EXCEPT ![c] = u], Shape(u),
         group' = group, asked' \in Nat, Rows[group] \subseteq DOMAIN db', DOMAIN answers' = Client,
         u # Closed => TxSafe(u, db'), RowsFit(db'), ToldRight',
         \A e \in Client \ {c} : tx[e].held \cap u.held = {},
         \A e \in Client \ {c} : tx[e] # Closed => TxSafe(tx[e], db')
  PROVE  StoreInv'
  <1>1. DOMAIN tx' = Client /\ tx'[c] = u /\ \A e \in Client \ {c} : tx'[e] = tx[e]
    BY DEF StoreInv
  <1>2. \A t, d : TxSafe(t, d)' = TxSafe(t, d)
    BY DEF TxSafe
  <1>3. \A e \in Client : Shape(tx'[e]) /\ (tx'[e] # Closed => TxSafe(tx'[e], db'))
    BY <1>1 DEF StoreInv
  <1>4. \A e, f \in Client : e # f => tx'[e].held \cap tx'[f].held = {}
    BY <1>1 DEF StoreInv
  <1>5. RowsFit(db)'
    BY DEF RowsFit
  <1>6. \A e \in Client : Shape(tx[e])' /\ (tx'[e] # Closed => TxSafe(tx[e], db)')
    BY <1>2, <1>3 DEF TxSafe
  <1> QED
    BY <1>1, <1>4, <1>5, <1>6 DEF StoreInv

LEMMA TellsRight ==
  ASSUME StoreInv, NEW c \in Client, NEW a, answers' = [answers EXCEPT ![c] = a], group' = group,
         group = "outbox" => OutboxTold(a)
  PROVE  ToldRight' /\ DOMAIN answers' = Client
  BY DEF StoreInv, ToldRight

LEMMA StoreInvSteps == ASSUME StoreInv, [PostgresNext]_postgresVars PROVE StoreInv'
  <1>1. CASE UNCHANGED postgresVars
    BY <1>1 DEF StoreInv, postgresVars, storeVars, ToldRight, RowsFit, TxSafe
  <1>2. ASSUME NEW c \in Client, Begin(c) PROVE StoreInv'
    <2>1. /\ tx[c] = Closed /\ asked < MaxRequest[group] /\ asked' = asked + 1
          /\ group' = group /\ db' = db /\ answers' = answers
      BY <1>2 DEF Begin, storeVars
    <2>2. PICK r \in Requests(group, asked', answers[c]) : tx' = [tx EXCEPT ![c].request = r]
      BY <1>2 DEF Begin
    <2>3. asked \in Nat /\ group \in Group /\ MaxRequest[group] \in Nat
      BY StoreAssumption DEF StoreInv
    <2>4. asked' \in 1..MaxRequest[group]
      BY <2>1, <2>3
    <2>5. asked' \in Number /\ asked' \in Nat
      BY <2>1, <2>3, <2>4, Numbers
    <2> DEFINE u == [Closed EXCEPT !.request = r]
    <2>6. tx' = [tx EXCEPT ![c] = u]
      BY <2>1, <2>2
    <2>8. Shape(u) /\ u.held = {} /\ u.run = 0 /\ u.request = r
      BY ClosedFields, ShapeAsks
    <2>9. ToldRight /\ RowsFit(db)
      BY DEF StoreInv
    <2>10. TxSafe(u, db)
      BY <2>2, <2>5, <2>8, <2>9, TxBegins
    <2>11. ToldRight' /\ DOMAIN answers' = Client
      BY <2>1, <2>9 DEF ToldRight, StoreInv
    <2>12. \A e \in Client \ {c} : tx[e].held \cap u.held = {} /\ (tx[e] # Closed => TxSafe(tx[e], db'))
      BY <2>1, <2>8 DEF StoreInv
    <2>13. Rows[group] \subseteq DOMAIN db' /\ RowsFit(db')
      BY <2>1, <2>9 DEF StoreInv
    <2> HIDE DEF u
    <2> QED
      BY <2>1, <2>5, <2>6, <2>8, <2>10, <2>11, <2>12, <2>13, OneTxChanges
  <1>3. ASSUME NEW c \in Client, RunStatement(c) PROVE StoreInv'
    <2>1. DOMAIN tx = Client /\ Shape(tx[c]) /\ tx[c].run \in Nat /\ asked \in Nat /\ RowsFit(db)
          /\ Rows[group] \subseteq DOMAIN db /\ DOMAIN answers = Client /\ ToldRight
      BY DEF StoreInv, Shape
    <2>2. /\ tx[c] # Closed /\ tx[c].run < Len(ScriptOf(tx[c]))
          /\ UNCHANGED <<group, db, asked>>
          /\ \E u :
              /\ Steps(tx[c], ScriptOf(tx[c])[tx[c].run + 1], u)
              /\ Shape(u)
              /\ \A e \in Client \ {c} : tx[e].held \cap u.held \subseteq tx[e].held \cap tx[c].held
              /\ \/ /\ Quiet(u) /\ tx' = [tx EXCEPT ![c] = Closed]
                    /\ answers' = [answers EXCEPT ![c] = <<u.request, Outcome(u.request, u.read).answer>>]
                 \/ ~Quiet(u) /\ tx' = [tx EXCEPT ![c] = u] /\ answers' = answers
      BY <1>3, <2>1, StatementRuns
    <2>3. PICK u :
              /\ Steps(tx[c], ScriptOf(tx[c])[tx[c].run + 1], u)
              /\ Shape(u)
              /\ \A e \in Client \ {c} : tx[e].held \cap u.held \subseteq tx[e].held \cap tx[c].held
              /\ \/ /\ Quiet(u) /\ tx' = [tx EXCEPT ![c] = Closed]
                    /\ answers' = [answers EXCEPT ![c] = <<u.request, Outcome(u.request, u.read).answer>>]
                 \/ ~Quiet(u) /\ tx' = [tx EXCEPT ![c] = u] /\ answers' = answers
      BY <2>2
    <2>4. TxSafe(tx[c], db)
      BY <2>2 DEF StoreInv
    <2>5. /\ Quiet(u) \/ TxSafe(u, db)
          /\ group = "outbox" /\ Quiet(u) => OutboxTold(<<u.request, Outcome(u.request, u.read).answer>>)
      BY <2>1, <2>2, <2>3, <2>4, TxRuns
    <2>6. group' = group /\ asked' \in Nat /\ Rows[group] \subseteq DOMAIN db' /\ RowsFit(db')
      BY <2>1, <2>2
    <2>7. \A e \in Client \ {c} : tx[e] # Closed => TxSafe(tx[e], db')
      BY <2>2 DEF StoreInv
    <2>8. CASE Quiet(u) /\ tx' = [tx EXCEPT ![c] = Closed]
               /\ answers' = [answers EXCEPT ![c] = <<u.request, Outcome(u.request, u.read).answer>>]
      <3>1. ToldRight' /\ DOMAIN answers' = Client
        BY <2>5, <2>6, <2>8, TellsRight
      <3>2. \A e \in Client \ {c} : tx[e].held \cap Closed.held = {}
        BY ClosedFields
      <3>3. tx' = [tx EXCEPT ![c] = Closed]
        BY <2>8
      <3> QED
        BY <2>6, <2>7, <3>1, <3>2, <3>3, ClosedFields, OneTxChanges
    <2>9. CASE ~Quiet(u) /\ tx' = [tx EXCEPT ![c] = u] /\ answers' = answers
      <3>1. ToldRight' /\ DOMAIN answers' = Client
        BY <2>1, <2>6, <2>9 DEF ToldRight
      <3>2. \A e \in Client \ {c} : tx[e].held \cap u.held = {}
        BY <2>3 DEF StoreInv
      <3>3. TxSafe(u, db')
        BY <2>2, <2>5, <2>9
      <3>4. tx' = [tx EXCEPT ![c] = u] /\ Shape(u)
        BY <2>3, <2>9
      <3> QED
        BY <2>6, <2>7, <3>1, <3>2, <3>3, <3>4, OneTxChanges
    <2> QED
      BY <2>3, <2>8, <2>9
  <1>4. ASSUME NEW c \in Client, CommitTransaction(c) PROVE StoreInv'
    <2> DEFINE t == tx[c]
               o == Outcome(t.request, t.read)
    <2>1. /\ t # Closed /\ t.run = Len(ScriptOf(t)) /\ db' = Over(o.writes, db)
          /\ tx' = [tx EXCEPT ![c] = Closed] /\ group' = group /\ asked' = asked
      BY <1>4 DEF CommitTransaction, Script, ScriptOf
    <2>2. PICK told \in {o.answer, Failed} : answers' = [answers EXCEPT ![c] = <<t.request, told>>]
      BY <1>4 DEF CommitTransaction
    <2>3. /\ TxSafe(t, db) /\ RowsFit(db) /\ group \in Group /\ Rows[group] \subseteq DOMAIN db
          /\ t.run \in Nat /\ asked \in Nat
      BY <2>1 DEF StoreInv, Shape
    <2>4. /\ RowsFit(db')
          /\ \A u : TxSafe(u, db) /\ u.run \in Nat /\ t.held \cap u.held = {} => TxSafe(u, db')
          /\ group = "outbox" => OutboxTold(<<t.request, o.answer>>)
      <3> HIDE DEF t
      <3> QED
        BY <2>1, <2>3, TxCommits
    <2>5. group = "outbox" => OutboxTold(<<t.request, told>>)
      BY <2>2, <2>4, ToldFailed
    <2>6. ToldRight' /\ DOMAIN answers' = Client
      BY <2>1, <2>2, <2>5, TellsRight
    <2>7. Rows[group] \subseteq DOMAIN db'
      BY <2>1, <2>3 DEF Over
    <2>8. \A e \in Client \ {c} : tx[e] # Closed => TxSafe(tx[e], db')
      <3> SUFFICES ASSUME NEW e \in Client \ {c}, tx[e] # Closed PROVE TxSafe(tx[e], db')
        OBVIOUS
      <3>1. TxSafe(tx[e], db) /\ tx[e].run \in Nat /\ t.held \cap tx[e].held = {}
        BY DEF StoreInv, Shape
      <3> QED
        BY <2>4, <3>1
    <2>9. \A e \in Client \ {c} : tx[e].held \cap Closed.held = {}
      BY ClosedFields
    <2>10. asked' \in Nat /\ Shape(Closed)
      BY <2>1, <2>3, ClosedFields
    <2> QED
      BY <2>1, <2>4, <2>6, <2>7, <2>8, <2>9, <2>10, OneTxChanges
  <1>5. ASSUME NEW c \in Client, Abort(c) PROVE StoreInv'
    <2>1. /\ tx' = [tx EXCEPT ![c] = Closed] /\ group' = group /\ asked' = asked /\ db' = db
          /\ answers' = [answers EXCEPT ![c] = <<tx[c].request, Failed>>]
      BY <1>5 DEF Abort
    <2>2. ToldRight' /\ DOMAIN answers' = Client
      BY <2>1, ToldFailed, TellsRight
    <2>3. \A e \in Client \ {c} : tx[e].held \cap Closed.held = {} /\ (tx[e] # Closed => TxSafe(tx[e], db'))
      BY <2>1, ClosedFields DEF StoreInv
    <2>4. asked' \in Nat /\ Shape(Closed) /\ Rows[group] \subseteq DOMAIN db' /\ RowsFit(db')
      BY <2>1, ClosedFields DEF StoreInv
    <2> QED
      BY <2>1, <2>2, <2>3, <2>4, OneTxChanges
  <1> QED
    BY <1>1, <1>2, <1>3, <1>4, <1>5 DEF PostgresNext

LEMMA CapsOfInv == ASSUME StoreInv PROVE CapsHold
  <1>1. RowsFit(db)
    BY DEF StoreInv
  <1>2. group = "alerts" =>
          /\ \A e \in Number : Cardinality({x \in Replies : db[x] = e}) <= Cap
          /\ \A x, y \in Present(db, Events) :
               x # y => db[x].at + Cooldown <= db[y].at \/ db[y].at + Cooldown <= db[x].at
    BY <1>1 DEF RowsFit, AlertsFit, RepliesTo
  <1>3. group = "resets" => Cardinality({x \in Jobs : IsPending(db[x])}) <= Cap
    BY <1>1 DEF RowsFit, ResetsFit, PendingIn
  <1>4. group = "receivers" => Cardinality({x \in Present(db, Receivers) : ~db[x].revoked}) <= Cap
    BY <1>1 DEF RowsFit, ReceiversFit, ActiveIn
  <1>5. group = "reports" => \A x, y \in Present(db, Reports) : db[x] = db[y] => x = y
    BY <1>1 DEF RowsFit, ReportsFit
  <1>6. group = "imports" => \A x, y \in Present(db, Imported) : db[x] = db[y] => x = y
    BY <1>1 DEF RowsFit, ImportsFit
  <1>7. CASE group = "outbox"
    <2>1. Cardinality(Present(db, Cursors)) <= Cap
      BY <1>1, <1>7 DEF RowsFit, OutboxFit
    <2>2. ASSUME NEW to \in Keys PROVE Cardinality(Present(db, Stream \X {to})) <= 1
      <3> DEFINE S == Present(db, Stream \X {to})
      <3>1. db[<<"usage", to>>] = NoRow \/ db[<<"token", to>>] = NoRow
        BY <1>1, <1>7 DEF RowsFit, OutboxFit
      <3>2. Stream \X {to} = {<<"usage", to>>, <<"token", to>>}
        BY DEF Stream
      <3>3. \E x : S \subseteq {x}
        BY <3>1, <3>2 DEF Present
      <3>4. PICK x : S \subseteq {x}
        BY <3>3
      <3>5. IsFiniteSet({x}) /\ Cardinality({x}) = 1
        BY FS_Singleton
      <3>6. Cardinality(S) <= Cardinality({x})
        BY <3>4, <3>5, FS_Subset
      <3> QED
        BY <3>5, <3>6
    <2> QED
      BY <1>7, <2>1, <2>2 DEF CapsHold
  <1> QED
    BY <1>2, <1>3, <1>4, <1>5, <1>6, <1>7 DEF CapsHold

\* Whatever callers run at once on the PostgreSQL store, and wherever a connection
\* is lost, no cap is exceeded: replies to an event, pending resets, active
\* receivers, cursors and pages of the outbox; events keep the cooldown; no report
\* is stored twice and no profile imported twice (postgres.rs, the transactions of
\* its write operations and their locks).
THEOREM CapsAlwaysHold == PostgresSpec => []CapsHold
  <1>1. PostgresInit => StoreInv
    BY StoreInvBegins
  <1>2. StoreInv /\ [PostgresNext]_postgresVars => StoreInv'
    BY StoreInvSteps
  <1>3. StoreInv => CapsHold
    BY CapsOfInv
  <1> QED
    BY <1>1, <1>2, <1>3, PTL DEF PostgresSpec

=============================================================================
