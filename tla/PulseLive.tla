----------------------------- MODULE PulseLive -----------------------------
(***************************************************************************)
(* The Pulse dashboard of a browser tab and the invalidations it lives on. *)
(* The server commits what is reported and then publishes a revision of    *)
(* the account to the event streams (pulse/invalidation.rs, pulse/api.rs). *)
(* A stream carries no data: the tab (web/app.js) answers a revision with  *)
(* a debounced refresh of everything its view shows, and otherwise polls.  *)
(* The debounce timer, a refresh under way, a mutation of the user's, the  *)
(* stream's reconnection, hiding the tab and changing account all meet in  *)
(* a few flags.                                                            *)
(*                                                                         *)
(* A resource of a view is the version of the account's store it was read  *)
(* at.  Replies to a superseded generation or stream have no effect and    *)
(* are not kept.                                                           *)
(***************************************************************************)
EXTENDS Naturals, Sequences

CONSTANTS
  Account,    \* accounts the server is configured with
  None,       \* no account, no version, no revision
  MaxCommit,  \* bound: commits of all accounts
  MaxClick,   \* bound: steps of the user
  MaxBreak    \* bound: restarts of the server, broken streams, failed requests

ASSUME LiveAssumption ==
  None \notin Account /\ None \notin Nat
  /\ MaxCommit \in Nat /\ MaxClick \in Nat /\ MaxBreak \in Nat

VARIABLES
  store,      \* of an account: version stored, commits not yet published, the
              \* stream revision, and the version stored at the last publish
  wire,       \* the tab's stream: the last revision yielded, and those on the way
  tab,        \* the dashboard of the tab: app.js's state.pulse*
  bounds      \* what is left of the bounds

liveVars == <<store, wire, tab, bounds>>

Resource == {"profiles", "ingestTokens"}
\* pulseTasks: the settings show both, the dashboard one.
Shows(view) == IF view = "settings" THEN Resource ELSE {"profiles"}

NoMutation == [kind |-> "none", at |-> "none", stale |-> FALSE, read |-> None]

LiveInit ==
  /\ store = [a \in Account |-> [version |-> 0, owed |-> 0, revision |-> 0, published |-> 0]]
  /\ wire = [sent |-> 0, events |-> << >>]
  /\ tab = [open |-> FALSE, hidden |-> FALSE, view |-> "dashboard",
            account |-> None, accounts |-> "unknown", asking |-> FALSE,
            source |-> "none", awaiting |-> FALSE, seen |-> None,
            debounce |-> FALSE, queued |-> FALSE, reconnect |-> FALSE,
            poll |-> FALSE, loading |-> FALSE,
            fetch |-> << >>,            \* what each request of the refresh has read
            mutation |-> NoMutation,
            data |-> [r \in Resource |-> None], failed |-> FALSE]
  /\ bounds = [commits |-> MaxCommit, clicks |-> MaxClick, breaks |-> MaxBreak]

Clicks == bounds.clicks > 0 /\ bounds' = [bounds EXCEPT !.clicks = @ - 1]
Breaks == bounds.breaks > 0 /\ bounds' = [bounds EXCEPT !.breaks = @ - 1]

----------------------------------------------------------------------------
(* What the functions of app.js make of the tab.                           *)

Looking(t) == t.open /\ ~t.hidden

\* stopPulseEvents
Stopped(t) ==
  [t EXCEPT !.source = "none", !.awaiting = FALSE, !.reconnect = FALSE,
            !.debounce = FALSE, !.queued = FALSE]

\* connectPulseEvents
Connected(t) ==
  IF t.account # None /\ Looking(t)
    THEN [Stopped(t) EXCEPT !.source = "opening", !.awaiting = TRUE]
    ELSE Stopped(t)

\* queuePulseInvalidationRefresh
Debounced(t) == IF t.queued THEN t ELSE [t EXCEPT !.debounce = TRUE]

Busy(t) == t.loading \/ t.mutation.kind # "none"

\* Mutant: the queue is emptied, its refresh not begun.
FlushedLost(t) == IF t.queued /\ ~Busy(t) THEN [t EXCEPT !.queued = FALSE] ELSE t
\* flushPulseInvalidationRefresh
Flushed(t) ==
  IF t.queued /\ ~Busy(t) THEN Debounced([t EXCEPT !.queued = FALSE]) ELSE t

\* schedulePulseRefresh
Scheduled(t) == [t EXCEPT !.poll = t.account # None /\ Looking(t)]

\* A new pulseGeneration: whoever captured the one before is not current.
Superseded(t) ==
  [t EXCEPT !.fetch = << >>, !.mutation.stale = t.mutation.kind # "none"]

\* refreshPulse, up to its requests.
Refreshing(t) ==
  IF t.account # None /\ Looking(t)
    THEN [Superseded(t) EXCEPT !.loading = TRUE, !.poll = FALSE,
                               !.fetch = [r \in Shows(t.view) |-> [is |-> "asked", at |-> None]]]
    ELSE t

NoData(t) == \A r \in Resource : t.data[r] = None

\* setPulseAccount
Chosen(t, a) ==
  Refreshing(Connected([Superseded(t) EXCEPT
    !.account = a, !.seen = None, !.data = [r \in Resource |-> None], !.failed = FALSE,
    !.mutation.read = None]))

\* loadPulseAccounts, up to its request.
Asked(t, force) == [t EXCEPT !.asking = @ \/ force \/ t.accounts # "loaded"]

\* The streams end with the tab's source, and with the server.
Wired(t) == wire' = IF t.source = "open" THEN wire ELSE [sent |-> 0, events |-> << >>]

Become(t) == tab' = t /\ Wired(t)

----------------------------------------------------------------------------
(* The server.                                                             *)

\* A report, a pull, an acknowledgement... commits; its publish comes after.
Commit(a) ==
  /\ bounds.commits > 0 /\ bounds' = [bounds EXCEPT !.commits = @ - 1]
  /\ store' = [store EXCEPT ![a].version = @ + 1, ![a].owed = @ + 1]
  /\ UNCHANGED <<wire, tab>>

\* PulseInvalidationHub::publish
PublishRevision(a) ==
  /\ store[a].owed > 0
  /\ store' = [store EXCEPT ![a].owed = @ - 1, ![a].revision = @ + 1,
                            ![a].published = store[a].version]
  /\ UNCHANGED <<wire, tab, bounds>>

\* The hub is memory: revisions start at zero again, and every stream is cut.
ServerRestarts ==
  /\ Breaks
  /\ store' = [a \in Account |-> [store[a] EXCEPT !.owed = 0, !.revision = 0]]
  /\ Become([tab EXCEPT !.source = IF @ = "none" THEN "none" ELSE "broken"])

\* rest_events: the snapshot and the receiver are taken under one lock, and
\* the snapshot is the first event.
Subscribe ==
  /\ tab.source = "opening"
  /\ tab' = [tab EXCEPT !.source = "open"]
  /\ LET revision == store[tab.account].revision
     IN wire' = [sent |-> revision, events |-> <<revision>>]
  /\ UNCHANGED <<store, bounds>>

\* receiver.changed(): the latest revision only.
Yields ==
  /\ tab.source = "open"
  /\ store[tab.account].revision # wire.sent
  /\ wire' = [sent |-> store[tab.account].revision,
              events |-> Append(wire.events, store[tab.account].revision)]
  /\ UNCHANGED <<store, tab, bounds>>

StreamBreaks ==
  /\ tab.source \in {"opening", "open"} /\ Breaks
  /\ Become([tab EXCEPT !.source = "broken"])
  /\ UNCHANGED store

----------------------------------------------------------------------------
(* The tab's callbacks.                                                    *)

\* Mutant: a reconnected stream's first revision is compared like the others.
IsNewsAfter(seen, revision, initial) == seen = None \/ seen < revision
\* pulseInvalidationAction
IsNews(seen, revision, initial) == initial \/ seen = None \/ seen < revision

\* The listener of "pulse".
Event ==
  /\ tab.source = "open" /\ wire.events # << >>
  /\ LET revision == Head(wire.events)
         told     == [tab EXCEPT !.awaiting = FALSE]
     IN tab' = IF IsNews(tab.seen, revision, tab.awaiting)
                 THEN Debounced([told EXCEPT !.seen = revision]) ELSE told
  /\ wire' = [wire EXCEPT !.events = Tail(@)]
  /\ UNCHANGED <<store, bounds>>

\* source.onerror
StreamFails ==
  /\ tab.source = "broken"
  /\ Become([tab EXCEPT !.source = "none", !.reconnect = Looking(tab)])
  /\ UNCHANGED <<store, bounds>>

Reconnect ==
  /\ tab.reconnect
  /\ Become(Connected(tab))
  /\ UNCHANGED <<store, bounds>>

DebounceEnds ==
  /\ tab.debounce
  /\ LET over == [tab EXCEPT !.debounce = FALSE]
     IN Become(IF Busy(tab) THEN [over EXCEPT !.queued = TRUE] ELSE Refreshing(over))
  /\ UNCHANGED <<store, bounds>>

PollFires ==
  /\ tab.poll
  /\ Become(Refreshing([tab EXCEPT !.poll = FALSE]))
  /\ UNCHANGED <<store, bounds>>

\* One request of the refresh is answered, or fails.
ReadResource(r) ==
  /\ r \in DOMAIN tab.fetch /\ tab.fetch[r].is = "asked"
  /\ \/ /\ tab' = [tab EXCEPT !.fetch[r] = [is |-> "read", at |-> store[tab.account].version]]
        /\ UNCHANGED bounds
     \/ Breaks /\ tab' = [tab EXCEPT !.fetch[r].is = "failed"]
  /\ UNCHANGED <<store, wire>>

\* The mutation that awaited this refresh is over with it: its finally.
MutationOver(t) ==
  IF t.mutation.at = "refresh" THEN Flushed([t EXCEPT !.mutation = NoMutation]) ELSE t

\* refreshPulse, from its replies on.
RefreshEnds ==
  /\ tab.fetch # << >>
  /\ \A r \in DOMAIN tab.fetch : tab.fetch[r].is # "asked"
  /\ LET read  == {r \in DOMAIN tab.fetch : tab.fetch[r].is = "read"}
         known == [tab EXCEPT !.data = [r \in Resource |-> IF r \in read THEN tab.fetch[r].at ELSE @[r]],
                              !.failed = read # DOMAIN tab.fetch,
                              !.loading = FALSE, !.fetch = << >>]
     IN Become(MutationOver(Flushed(Scheduled(known))))
  /\ UNCHANGED <<store, bounds>>

\* loadPulseAccounts, from its reply on: the stored preference, or the first.
AccountsKnown ==
  /\ tab.asking
  /\ LET known == [tab EXCEPT !.asking = FALSE, !.accounts = "loaded"]
     IN IF tab.account = None
          THEN \E a \in Account : Become(Chosen(known, a))
          ELSE Become(IF ~tab.open THEN known
                      ELSE IF NoData(tab) THEN Refreshing(Connected(known))
                      ELSE Connected(known))
  /\ UNCHANGED <<store, bounds>>

\* No account: the refresh under way ends without a word, loading stays.
AccountsFail ==
  /\ tab.asking /\ Breaks
  /\ Become(Stopped([tab EXCEPT !.asking = FALSE, !.accounts = "unknown", !.account = None,
                                !.fetch = << >>, !.mutation.stale = tab.mutation.kind # "none"]))
  /\ UNCHANGED store

----------------------------------------------------------------------------
(* The user.                                                               *)

\* selectPulse(true)
OpenPulse ==
  /\ ~tab.hidden /\ Clicks
  /\ LET asked == Asked([tab EXCEPT !.open = TRUE], FALSE)
     IN Become(IF tab.account = None \/ tab.accounts # "loaded" THEN asked
               ELSE IF NoData(tab) THEN Refreshing(Connected(asked))
               ELSE Scheduled(Connected(asked)))
  /\ UNCHANGED store

ClosePulse ==
  /\ Looking(tab) /\ Clicks
  /\ Become(Stopped([tab EXCEPT !.open = FALSE, !.poll = FALSE]))
  /\ UNCHANGED store

\* visibilitychange
Hide ==
  /\ ~tab.hidden /\ Clicks
  /\ Become(Stopped([tab EXCEPT !.hidden = TRUE, !.poll = FALSE]))
  /\ UNCHANGED store
Show ==
  /\ tab.hidden
  /\ LET shown == [tab EXCEPT !.hidden = FALSE]
     IN Become(IF tab.open THEN Asked(shown, TRUE) ELSE shown)
  /\ UNCHANGED <<store, bounds>>

SwitchView(view) ==
  /\ Looking(tab) /\ view # tab.view /\ Clicks
  /\ Become(Refreshing([Superseded(tab) EXCEPT !.view = view]))
  /\ UNCHANGED store

SwitchAccount(a) ==
  /\ Looking(tab) /\ tab.accounts = "loaded" /\ a # tab.account /\ Clicks
  /\ Become(Chosen(tab, a))
  /\ UNCHANGED store

RefreshNow ==
  /\ Looking(tab) /\ tab.account # None /\ ~Busy(tab) /\ Clicks
  /\ Become(Refreshing(tab))
  /\ UNCHANGED store

\* mutatePulse and issuePulseReceiverToken: one at a time.  What the request
\* commits is one of Commit's.
StartMutation(kind) ==
  /\ Looking(tab) /\ tab.account # None /\ tab.mutation.kind = "none" /\ Clicks
  /\ tab' = [tab EXCEPT !.mutation = [NoMutation EXCEPT !.kind = kind, !.at = "sent"]]
  /\ UNCHANGED <<store, wire>>

\* mutatePulse: done, the account is refreshed before the mutation is over.
MutationDone ==
  /\ tab.mutation.kind = "mutate" /\ tab.mutation.at = "sent"
  /\ LET refreshing == Refreshing(tab)
         over       == Flushed([tab EXCEPT !.mutation = NoMutation])
     IN Become(IF ~tab.mutation.stale /\ Looking(tab)
                 THEN [refreshing EXCEPT !.mutation.at = "refresh", !.mutation.stale = FALSE]
                 ELSE over)
  /\ UNCHANGED <<store, bounds>>

\* The refresh the mutation awaits was superseded and has returned.
MutationSuperseded ==
  /\ tab.mutation.at = "refresh" /\ tab.mutation.stale
  /\ Become(Flushed([tab EXCEPT !.mutation = NoMutation]))
  /\ UNCHANGED <<store, bounds>>

MutationFails ==
  /\ tab.mutation.kind = "mutate" /\ tab.mutation.at = "sent" /\ Breaks
  /\ Become(Flushed([tab EXCEPT !.mutation = NoMutation]))
  /\ UNCHANGED store

\* issuePulseReceiverToken: the token is there, its page is read.
TokenIssued ==
  /\ tab.mutation.kind = "token" /\ tab.mutation.at = "sent" /\ ~tab.mutation.stale
  /\ tab' = [tab EXCEPT !.mutation.at = "read", !.mutation.read = store[tab.account].version]
  /\ UNCHANGED <<store, wire, bounds>>

\* Its finally, after the page came, the request failed or was not current:
\* nothing that waited is begun.  The page goes to the data it was read for, be
\* it newer by now; a chosen account has data of its own.
TokenOver ==
  /\ tab.mutation.kind = "token"
  /\ \/ tab.mutation.at = "read"
        /\ tab' = [tab EXCEPT !.mutation = NoMutation,
                              !.data["ingestTokens"] = IF tab.mutation.read = None THEN @
                                                       ELSE tab.mutation.read]
        /\ UNCHANGED bounds
     \/ tab.mutation.stale /\ tab.mutation.at = "sent"
        /\ tab' = [tab EXCEPT !.mutation = NoMutation] /\ UNCHANGED bounds
     \/ Breaks /\ tab' = [tab EXCEPT !.mutation = NoMutation]
  /\ UNCHANGED <<store, wire>>

----------------------------------------------------------------------------
ServerStep ==
  \/ \E a \in Account : Commit(a) \/ PublishRevision(a)
  \/ ServerRestarts \/ Subscribe \/ Yields \/ StreamBreaks

TabStep ==
  \/ Event \/ StreamFails \/ Reconnect \/ DebounceEnds \/ PollFires
  \/ \E r \in Resource : ReadResource(r)
  \/ RefreshEnds \/ AccountsKnown \/ AccountsFail
  \/ MutationDone \/ MutationSuperseded \/ MutationFails \/ TokenIssued \/ TokenOver

UserStep ==
  \/ OpenPulse \/ ClosePulse \/ Hide \/ Show \/ RefreshNow
  \/ \E view \in {"dashboard", "settings"} : SwitchView(view)
  \/ \E a \in Account : SwitchAccount(a)
  \/ \E kind \in {"mutate", "token"} : StartMutation(kind)

LiveNext == ServerStep \/ TabStep \/ UserStep
LiveSpec == LiveInit /\ [][LiveNext]_liveVars

----------------------------------------------------------------------------
\* The dashboard's fields have their types, its refresh asks for what a view
\* shows, and only a refresh under way has requests.
LiveTypeOK ==
  /\ \A a \in Account :
       /\ store[a].version \in 0..MaxCommit /\ store[a].published \in 0..store[a].version
       /\ store[a].revision \in 0..MaxCommit /\ store[a].owed \in 0..MaxCommit
  /\ wire.sent \in 0..MaxCommit /\ wire.events \in Seq(0..MaxCommit)
  /\ tab.account \in Account \cup {None} /\ tab.accounts \in {"unknown", "loaded"}
  /\ tab.source \in {"none", "opening", "open", "broken"}
  /\ tab.source # "none" => Looking(tab) /\ tab.account # None
  /\ tab.fetch # << >> => tab.loading /\ DOMAIN tab.fetch = Shows(tab.view)
  /\ tab.mutation.kind \in {"none", "mutate", "token"}
  /\ tab.mutation.at \in {"none", "sent", "refresh", "read"}
  /\ \A r \in Resource : tab.data[r] \in 0..MaxCommit \cup {None}
  /\ bounds \in [commits : 0..MaxCommit, clicks : 0..MaxClick, breaks : 0..MaxBreak]

\* A tab that looks at an account over a stream on which nothing is under way,
\* with no timer, queue, refresh or mutation left and no request failed in the
\* last refresh, shows nothing older than the account's last publish: no
\* invalidation is lost to a debounce, a queue, a reconnection, a hidden tab, a
\* switch of view or account, a server that counts from zero, or a late page.
QuietIsCurrent ==
  /\ Looking(tab) /\ tab.account # None
  /\ tab.source = "open" /\ ~tab.awaiting /\ wire.events = << >>
  /\ wire.sent = store[tab.account].revision
  /\ ~tab.debounce /\ ~tab.queued /\ ~Busy(tab) /\ ~tab.failed
  => \A r \in Shows(tab.view) :
       tab.data[r] # None /\ tab.data[r] >= store[tab.account].published
=============================================================================
