---------------------------- MODULE PulseReporter ----------------------------
(***************************************************************************)
(* Push reporting of Pulse (pulse/reporter.rs, pulse/store/sqlite.rs,      *)
(* pulse/ingest.rs): one account and one machine to one receiver.          *)
(*                                                                         *)
(* A cycle sends the profiles, then the pages left in the outbox, then new *)
(* pages of usage snapshots and of token rows.  A page is stored in the    *)
(* outbox before it is sent and leaves it, with the cursor, only when all  *)
(* of its requests are answered.  The receiver recognises a request it has *)
(* stored by its id.  Requests and answers are lost, late or repeated;     *)
(* reporters stop anywhere; several may share the store.                   *)
(***************************************************************************)
EXTENDS Integers, FiniteSets, Functions

CONSTANTS
  Reporter,     \* processes that report from the store
  NumKey,       \* token rows, in the order of their primary key
  PageRows,     \* COORDINATOR_PAGE_ROWS
  ChunkRows,    \* rows that fit a request
  MaxPages,     \* MAX_COORDINATOR_PAGES_PER_KIND
  MaxAttempts,  \* ReporterBackoff::max_attempts
  MaxReplays,   \* MAX_INGEST_REPLAYS_PER_ACCOUNT
  None,         \* no page, no cursor
  MaxUsage, MaxToken, MaxGen, MaxVersion, MaxWire, MaxWork  \* bounds; MaxWork is
                \* for snapshots, token writes and upgrades together

ASSUME ReporterLimits ==
  /\ {NumKey, PageRows, ChunkRows, MaxPages, MaxAttempts} \subseteq Nat \ {0}
  /\ MaxReplays \in Nat
ASSUME ReporterBounds == 
  {MaxUsage, MaxToken, MaxGen, MaxVersion, MaxWire, MaxWork} \subseteq Nat

Id == 1..MaxUsage
Key == 1..NumKey
Stream == {"usage", "token"}

VARIABLES
  usage, lastId,  \* snapshots that are kept, and the last id given out
  tokens,         \* how often each token row was written; 0: not yet
  cursor,         \* the row of reporter_cursors
  pending,        \* reporter_pending_pages, by stream
  version,        \* the installed atmux
  proc,           \* the cycle of each reporter
  wire,           \* requests on their way
  stored, held,   \* the receiver's snapshots (how often) and token rows
  replays,        \* the bodies ingest_replays knows
  sweep           \* history: tokens when the cursor's generation began

sourceVars == <<usage, lastId, tokens>>
outboxVars == <<cursor, pending, sweep>>
receiverVars == <<stored, held, replays>>
vars == <<sourceVars, outboxVars, version, proc, wire, receiverVars>>

------------------------------------------------------------------------------
(* Pages and the requests they are sent as.                                *)

Cursor == [usage : 0..MaxUsage, after : 0..NumKey, gen : 0..MaxGen]
ZeroCursor == [usage |-> 0, after |-> 0, gen |-> 0]

\* What an outbox row can hold, for the rows with keys S (ReporterPendingPage).
Pages(S) == [kind : Stream, version : Nat, expected : Cursor, next : Cursor,
             rows : [S -> Nat]]
ASSUME NoneIsNoPage == \A S \in SUBSET (Id \cup Key) : None \notin Pages(S)

\* Mutant: the cursor's own row is read again.
UsageFrom(c) == {i \in usage : i >= c.usage}

\* The rows behind a cursor: local_reporter_usage_page, local_reporter_token_page.
UsageAfter(c) == {i \in usage : i > c.usage}
TokensAfter(c) == {k \in Key : tokens[k] > 0 /\ k > c.after}

Rank(S, x) == Cardinality({y \in S : y <= x})
FirstRows(S) == {x \in S : Rank(S, x) <= PageRows}
LastOf(S) == CHOOSE x \in S : \A y \in S : y <= x

UsagePage(c) ==
  LET S == FirstRows(UsageAfter(c))
  IN [kind |-> "usage", version |-> version, expected |-> c,
      next |-> [c EXCEPT !.usage = LastOf(S)], rows |-> [i \in S |-> 0]]

TokenPage(c) ==
  LET S == FirstRows(TokensAfter(c))
  IN [kind |-> "token", version |-> version, expected |-> c,
      next |-> [c EXCEPT !.after = LastOf(S)], rows |-> [k \in S |-> tokens[k]]]

\* The profiles' settings do not change here.
ProfilePage ==
  [kind |-> "profile", version |-> version, expected |-> None, next |-> None,
   rows |-> [p \in {0} |-> 0]]

Chunks(p) == (Cardinality(DOMAIN p.rows) + ChunkRows - 1) \div ChunkRows

ChunkKeys(p, n) ==
  {x \in DOMAIN p.rows : (Rank(DOMAIN p.rows, x) + ChunkRows - 1) \div ChunkRows = n}

Request(p, n) ==
  [kind |-> p.kind, version |-> p.version, expected |-> p.expected, next |-> p.next,
   index |-> n, rows |-> [x \in ChunkKeys(p, n) |-> p.rows[x]]]

\* The id of an outbox request covers all of it (pending_request_id); that of
\* a profile request its rows only (content_request_id).
RequestId(q) == IF q.kind = "profile" THEN [q EXCEPT !.version = 0] ELSE q

------------------------------------------------------------------------------
(* The cycle of a reporter: the profiles (phase 1), the outbox of each     *)
(* stream (2, 3), new pages of each stream (4, 5).                         *)

PC == {"idle", "cursor", "pending", "read", "prepare", "send", "wait", "commit", "advance"}

Idle == [pc |-> "idle", phase |-> 1, state |-> ZeroCursor, page |-> None,
         index |-> 0, attempt |-> 0, left |-> 0]

StreamOf(r) == IF proc[r].phase \in {2, 4} THEN "usage" ELSE "token"
Draining(r) == proc[r].phase < 4

Init ==
  /\ usage = {} /\ lastId = 0 /\ tokens = [k \in Key |-> 0]
  /\ cursor = ZeroCursor /\ pending = [s \in Stream |-> None]
  /\ version = 0 /\ proc = [r \in Reporter |-> Idle] /\ wire = {}
  /\ stored = [i \in Id |-> 0] /\ held = [k \in Key |-> 0] /\ replays = {}
  /\ sweep = tokens

Work == lastId + FoldFunction(+, 0, tokens) + version

Goes(r, step) == proc' = [proc EXCEPT ![r] = step]
Fails(r) == Goes(r, Idle)

\* The next part of the cycle from cursor c, or its end.
NextPart(r, c) ==
  IF proc[r].phase = 5 THEN Idle
  ELSE [Idle EXCEPT !.pc = "pending", !.phase = proc[r].phase + 1, !.state = c,
                    !.left = IF proc[r].phase < 3 THEN 0 ELSE MaxPages]

\* Mutant: the index of the requests is not set.
SendingOn(r, p) == [proc[r] EXCEPT !.pc = "send", !.page = p, !.attempt = 1]

\* Sends a page from its first request.
Sending(r, p) ==
  [proc[r] EXCEPT !.pc = "send", !.page = p, !.index = 1, !.attempt = 1]

Begin(r) ==
  /\ proc[r].pc = "idle"
  /\ Goes(r, Sending(r, ProfilePage))
  /\ UNCHANGED <<sourceVars, outboxVars, version, wire, receiverVars>>

LoadCursor(r) ==
  /\ proc[r].pc = "cursor"
  /\ Goes(r, NextPart(r, cursor))
  /\ UNCHANGED <<sourceVars, outboxVars, version, wire, receiverVars>>

\* ensure_pending_expected: a cycle stops that is not at the page's cursor.
SendOutbox(r, p) ==
  IF p.expected = proc[r].state THEN Goes(r, Sending(r, p)) ELSE Fails(r)

LoadPending(r) ==
  /\ proc[r].pc = "pending"
  /\ LET p == pending[StreamOf(r)]
     IN \/ p # None /\ SendOutbox(r, p)
        \/ p = None /\ Draining(r) /\ Goes(r, NextPart(r, proc[r].state))
        \/ p = None /\ ~Draining(r) /\ Goes(r, [proc[r] EXCEPT !.pc = "read"])
  /\ UNCHANGED <<sourceVars, outboxVars, version, wire, receiverVars>>

\* report_usage_pages
ReadUsage(r) ==
  /\ proc[r].pc = "read" /\ StreamOf(r) = "usage"
  /\ LET c == proc[r].state
     IN Goes(r, IF UsageAfter(c) = {} THEN NextPart(r, c)
                ELSE [proc[r] EXCEPT !.pc = "prepare", !.page = UsagePage(c)])
  /\ UNCHANGED <<sourceVars, outboxVars, version, wire, receiverVars>>

\* report_token_pages: past the last row the cursor goes back to the first.
ReadTokens(r) ==
  /\ proc[r].pc = "read" /\ StreamOf(r) = "token"
  /\ LET c == proc[r].state
     IN Goes(r, IF TokensAfter(c) # {}
                THEN [proc[r] EXCEPT !.pc = "prepare", !.page = TokenPage(c)]
                ELSE IF c.after > 0 THEN [proc[r] EXCEPT !.pc = "advance"] ELSE Idle)
  /\ UNCHANGED <<sourceVars, outboxVars, version, wire, receiverVars>>

\* Mutant: only the page of the own stream is looked for.
PrepareBeside(r) ==
  /\ proc[r].pc = "prepare"
  /\ LET draft == proc[r].page
         there == pending[draft.kind]
     IN IF there # None
        THEN SendOutbox(r, there) /\ UNCHANGED pending
        ELSE IF draft.expected # cursor
             THEN Fails(r) /\ UNCHANGED pending
             ELSE /\ pending' = [pending EXCEPT ![draft.kind] = draft]
                  /\ SendOutbox(r, draft)
  /\ UNCHANGED <<sourceVars, cursor, sweep, version, wire, receiverVars>>

\* prepare_reporter_pending: a page of the stream that is there already is sent
\* in place of the draft; one of the other stream, or a moved cursor, stops it.
Prepare(r) ==
  /\ proc[r].pc = "prepare"
  /\ LET draft == proc[r].page
         there == pending[draft.kind]
     IN IF there # None
        THEN SendOutbox(r, there) /\ UNCHANGED pending
        ELSE IF draft.expected # cursor \/ \E s \in Stream : pending[s] # None
             THEN Fails(r) /\ UNCHANGED pending
             ELSE /\ pending' = [pending EXCEPT ![draft.kind] = draft]
                  /\ SendOutbox(r, draft)
  /\ UNCHANGED <<sourceVars, cursor, sweep, version, wire, receiverVars>>

Send(r) ==
  /\ proc[r].pc = "send"
  /\ Cardinality(wire) < MaxWire
  /\ wire' = wire \cup {[from |-> r, attempt |-> proc[r].attempt,
                         body |-> Request(proc[r].page, proc[r].index)]}
  /\ Goes(r, [proc[r] EXCEPT !.pc = "wait"])
  /\ UNCHANGED <<sourceVars, outboxVars, version, receiverVars>>

\* Mutant: a page is done when its first request is.
AnsweredEarly(r, status) ==
  LET p == proc[r]
  IN CASE status = "ok" ->
            [p EXCEPT !.pc = IF p.page.kind = "profile" THEN "cursor" ELSE "commit"]
       [] status = "retry" /\ p.attempt < MaxAttempts ->
            [p EXCEPT !.pc = "send", !.attempt = @ + 1]
       [] OTHER -> Idle

\* report_chunks on a 2xx answer, one worth a retry, or any other.
Answered(r, status) ==
  LET p == proc[r]
  IN CASE status = "ok" /\ p.index < Chunks(p.page) ->
            [p EXCEPT !.pc = "send", !.index = @ + 1, !.attempt = 1]
       [] status = "ok" /\ p.index = Chunks(p.page) ->
            [p EXCEPT !.pc = IF p.page.kind = "profile" THEN "cursor" ELSE "commit"]
       [] status = "retry" /\ p.attempt < MaxAttempts ->
            [p EXCEPT !.pc = "send", !.attempt = @ + 1]
       [] OTHER -> Idle

\* No answer within HTTP_REQUEST_TIMEOUT; the request may still arrive.
Timeout(r) ==
  /\ proc[r].pc = "wait"
  /\ Goes(r, Answered(r, "retry"))
  /\ UNCHANGED <<sourceVars, outboxVars, version, wire, receiverVars>>

\* commit_reporter_pending: the cursor moves and the page goes, or neither.
Commit(r) ==
  /\ proc[r].pc = "commit"
  /\ LET p == proc[r].page
     IN IF pending[p.kind] = p /\ cursor = p.expected
        THEN /\ cursor' = p.next
             /\ pending' = [pending EXCEPT ![p.kind] = None]
             /\ Goes(r, IF Draining(r) \/ proc[r].left = 1 THEN NextPart(r, p.next)
                        ELSE [Idle EXCEPT !.pc = "pending", !.phase = proc[r].phase,
                                          !.state = p.next, !.left = proc[r].left - 1])
        ELSE Fails(r) /\ UNCHANGED <<cursor, pending>>
  /\ UNCHANGED <<sourceVars, sweep, version, wire, receiverVars>>

\* Mutant: the cursor is not compared.
AdvanceBlindly(r) ==
  /\ proc[r].pc = "advance"
  /\ proc[r].state.gen < MaxGen
  /\ cursor' = [cursor EXCEPT !.after = 0, !.gen = @ + 1]
  /\ sweep' = tokens
  /\ Goes(r, Idle)
  /\ UNCHANGED <<sourceVars, pending, version, wire, receiverVars>>

\* advance_reporter_cursor: a new generation of the token rows begins.
Advance(r) ==
  /\ proc[r].pc = "advance"
  /\ proc[r].state.gen < MaxGen
  /\ IF cursor = proc[r].state
     THEN /\ cursor' = [cursor EXCEPT !.after = 0, !.gen = @ + 1]
          /\ sweep' = tokens
     ELSE UNCHANGED <<cursor, sweep>>
  /\ Goes(r, Idle)
  /\ UNCHANGED <<sourceVars, pending, version, wire, receiverVars>>

\* The process ends or the cycle is cancelled.
Stop(r) ==
  /\ proc[r].pc # "idle"
  /\ Goes(r, Idle)
  /\ UNCHANGED <<sourceVars, outboxVars, version, wire, receiverVars>>

\* Every atmux that uses the store is replaced by a newer one.
Upgrade ==
  /\ version < MaxVersion /\ Work < MaxWork
  /\ version' = version + 1
  /\ proc' = [r \in Reporter |-> Idle]
  /\ UNCHANGED <<sourceVars, outboxVars, wire, receiverVars>>

------------------------------------------------------------------------------
(* The receiver.                                                           *)

\* The answer to a request reaches the reporter that waits for it, or not.
Hears(m, status) ==
  \/ UNCHANGED proc
  \/ /\ proc[m.from].pc = "wait" /\ proc[m.from].attempt = m.attempt
     /\ Request(proc[m.from].page, proc[m.from].index) = m.body
     /\ Goes(m.from, Answered(m.from, status))

Known(q) == \E b \in replays : RequestId(b) = RequestId(q)
Conflicts(q) == Known(q) /\ q \notin replays

\* Mutant: the replay key is lost.
StoreForgets(m) ==
  LET q == m.body
  IN /\ ~Known(q) /\ Cardinality(replays) < MaxReplays
     /\ stored' = [i \in Id |-> stored[i] +
                     (IF q.kind = "usage" /\ i \in DOMAIN q.rows THEN 1 ELSE 0)]
     /\ held' = [k \in Key |-> IF q.kind = "token" /\ k \in DOMAIN q.rows
                               THEN q.rows[k] ELSE held[k]]
     /\ UNCHANGED replays
     /\ \E status \in {"ok", "final"} : Hears(m, status)

\* ingest_batch_once: the rows and the replay key are one transaction.  The
\* token may be revoked before it is touched.
Store(m) ==
  LET q == m.body
  IN /\ ~Known(q) /\ Cardinality(replays) < MaxReplays
     /\ stored' = [i \in Id |-> stored[i] +
                     (IF q.kind = "usage" /\ i \in DOMAIN q.rows THEN 1 ELSE 0)]
     /\ held' = [k \in Key |-> IF q.kind = "token" /\ k \in DOMAIN q.rows
                               THEN q.rows[k] ELSE held[k]]
     /\ replays' = replays \cup {q}
     /\ \E status \in {"ok", "final"} : Hears(m, status)

\* A known id is answered from its replay key; with another body it conflicts.
Replay(m) ==
  /\ Known(m.body)
  /\ Hears(m, IF Conflicts(m.body) THEN "final" ELSE "ok")
  /\ UNCHANGED receiverVars

\* The account has no room for another replay key.
Full(m) ==
  /\ ~Known(m.body) /\ Cardinality(replays) >= MaxReplays
  /\ Hears(m, "final")
  /\ UNCHANGED receiverVars

\* Rate limits and failures (retry); credentials and row caps (final).  A lost
\* request is one refused unheard.
Refuse(m) ==
  /\ \E status \in {"retry", "final"} : Hears(m, status)
  /\ UNCHANGED receiverVars

Receive(m) ==
  /\ Store(m) \/ Replay(m) \/ Full(m) \/ Refuse(m)
  /\ wire' = wire \ {m}
  /\ UNCHANGED <<sourceVars, outboxVars, version>>

------------------------------------------------------------------------------
(* The other writers of the reporting machine's store.                     *)

AppendSnapshot ==
  /\ lastId < MaxUsage /\ Work < MaxWork
  /\ lastId' = lastId + 1 /\ usage' = usage \cup {lastId'}
  /\ UNCHANGED <<tokens, outboxVars, version, proc, wire, receiverVars>>

WriteToken(k) ==
  /\ tokens[k] < MaxToken /\ Work < MaxWork
  /\ tokens' = [tokens EXCEPT ![k] = @ + 1]
  /\ UNCHANGED <<usage, lastId, outboxVars, version, proc, wire, receiverVars>>

\* apply_retention thins out old snapshots and keeps the newest of each interval.
Retain(i) ==
  /\ i # lastId
  /\ usage' = usage \ {i}
  /\ UNCHANGED <<lastId, tokens, outboxVars, version, proc, wire, receiverVars>>

------------------------------------------------------------------------------
Cycle(r) ==
  \/ Begin(r) \/ LoadCursor(r) \/ LoadPending(r) \/ ReadUsage(r) \/ ReadTokens(r)
  \/ Prepare(r) \/ Send(r) \/ Timeout(r) \/ Commit(r) \/ Advance(r) \/ Stop(r)

Source ==
  \/ AppendSnapshot
  \/ \E k \in Key : WriteToken(k)
  \/ \E i \in usage : Retain(i)

Next ==
  \/ \E r \in Reporter : Cycle(r)
  \/ \E m \in wire : Receive(m)
  \/ Source
  \/ Upgrade

Spec == Init /\ [][Next]_vars

------------------------------------------------------------------------------
(* Properties.                                                             *)

IsPage(p) ==
  /\ p.version \in 0..MaxVersion /\ {p.expected, p.next} \subseteq Cursor
  /\ DOMAIN p.rows # {}
  /\ DOMAIN p.rows \subseteq (IF p.kind = "usage" THEN Id ELSE Key)
  /\ p.rows \in [DOMAIN p.rows -> 0..MaxToken]

\* Types, and a request that is being sent is one of its page's (report_chunks).
TypeOK ==
  /\ usage \subseteq 1..lastId /\ lastId \in 0..MaxUsage
  /\ tokens \in [Key -> 0..MaxToken]
  /\ cursor \in Cursor /\ version \in 0..MaxVersion
  /\ \A s \in Stream : pending[s] = None \/ (IsPage(pending[s]) /\ pending[s].kind = s)
  /\ \A r \in Reporter :
       /\ proc[r].pc \in PC /\ proc[r].phase \in 1..5 /\ proc[r].state \in Cursor
       /\ proc[r].left \in 0..MaxPages /\ proc[r].attempt \in 0..MaxAttempts
       /\ proc[r].pc \in {"send", "wait"} => proc[r].index \in 1..Chunks(proc[r].page)
  /\ stored \in [Id -> Nat] /\ held \in [Key -> 0..MaxToken]

\* reporter.rs: the receiver can "resume safely after a timeout without appending
\* duplicate usage", and the keyset cursor skips nothing.
Feed == INSTANCE OnceFeed
FeedSpec == Feed!Spec

\* "progress advances only after the complete remote page succeeds": what lies
\* behind the cursor and is still kept is at the receiver
\* (commit_reporter_pending).
BehindCursorStored == \A i \in usage : i <= cursor.usage => stored[i] = 1

\* A generation of the token cursor ends only when the receiver has every row
\* at least as new as it was when the generation began, though rows are written
\* meanwhile (report_token_pages).
SweepIsComplete ==
  [][cursor'.gen > cursor.gen => \A k \in Key : held[k] >= sweep[k]]_vars

\* A late request never puts an older token row in place of a newer one: the
\* receiver's upsert does not compare, only the outbox and the replay keys
\* prevent it (upsert_token_batch).
TokensNeverGoBack == [][\A k \in Key : held'[k] >= held[k]]_vars

\* The streams share one cursor, so at most one page waits
\* (prepare_reporter_pending).
OneOutbox == pending["usage"] = None \/ pending["token"] = None

\* What the cursor record says can be resumed from: both of the above.
PushIsRecoverable == BehindCursorStored /\ OneOutbox

\* The reporters' variables have their types, and what was read is stored or
\* can be sent again, under one outbox.
PushSafe == TypeOK /\ PushIsRecoverable

\* "no kind's page is stranded by a cursor advance" (drain_reporter_pending).
NothingStranded == \A s \in Stream : pending[s] # None => pending[s].expected = cursor

\* "A new process rebuilding the same batch derives the same request id, so
\* receiver replay state remains resumable across reporter restarts"
\* (report_batch): no request on its way is taken for another one.
Resumable == \A m \in wire : ~Conflicts(m.body)
=============================================================================
