------------------------------ MODULE PulseStore ------------------------------
(***************************************************************************)
(* The contract of the Pulse store's operations that read, decide and      *)
(* write: each of them is one step on the committed rows.  SQLite keeps it *)
(* by one writer at a time (BEGIN IMMEDIATE); PostgresStore shows that the *)
(* PostgreSQL backend's statements and locks keep it too.                  *)
(*                                                                         *)
(* The tables of one account, by the operations that touch them together:  *)
(* a behaviour is about one such group.                                    *)
(***************************************************************************)
EXTENDS Integers, Sequences, FiniteSets

CONSTANTS
  Client,      \* callers, each in a process of its own
  NoRow,        \* no row
  Refused,     \* the answer to a request the operation rejects
  Failed,      \* the answer of an operation that failed, or whose answer was lost
  Cap,         \* the row caps: replies, pending resumes, tokens, destinations
  Cooldown,    \* minutes between two alerts of a subscription
  MaxRequest,  \* bound on requests, of each group
  MaxNow       \* bound on the instants callers pass

VARIABLES
  group,    \* the tables this behaviour is about
  db,       \* committed rows: <<table, key>> -> value or NoRow
  answers   \* per client: its last request and what it was told

storeVars == <<group, db, answers>>

Group ==
  {"alerts", "resets", "receivers", "reports", "outbox", "tokens", "peers", "usage", "imports"}

\* Requests, and the identities they generate.
Number == UNION {1..MaxRequest[g] : g \in Group}
Now == 0..MaxNow
Keys == {1, 2}

Table(name, keys) == {name} \X keys

Subscription == <<"subscription", 1>>
Events == Table("event", Number)
Replies == Table("reply", Number)
Jobs == Table("job", Keys)
Machine == <<"machine", 1>>
Receivers == Table("receiver", Number)
Replays == Table("replay", Keys)
Reports == Table("report", Number)
AccountRow == <<"account", 1>>
Cursors == Table("cursor", Keys)
Stream == {"usage", "token"}
Pages == Stream \X Keys
Revision == <<"revision", 1>>
LocalGrain == <<"local", 1>>
ReportedGrain == <<"reported", 1>>
Progress == <<"progress", 1>>
Peer == <<"peer", 1>>
Records == Table("record", Keys)
Snapshots == Table("snapshot", Number)
Claims == Table("claim", Keys)
Imported == Table("imported", Number)

Rows == [
  alerts |-> {Subscription} \cup Events \cup Replies,
  resets |-> Jobs,
  receivers |-> {Machine} \cup Receivers,
  reports |-> Replays \cup Reports,
  outbox |-> {AccountRow} \cup Cursors \cup Pages,
  tokens |-> {Revision, LocalGrain, ReportedGrain, Progress},
  peers |-> {Peer} \cup Records,
  usage |-> Snapshots,
  imports |-> Claims \cup Imported]

\* The generated identity of a snapshot, which no row holds before.
Id == <<"id", 1>>

\* What the rows hold that are read back: the others hold a reference, or what
\* the group's own operations say.
EventRow == [at : Nat, acknowledged : BOOLEAN]
JobRow == [state : {"pending", "delivered", "cancelled"}, lease : Nat]
ReceiverRow == [revoked : BOOLEAN, used : Nat]
CursorRow == [usage : Nat, token : Nat]
PageRow == [id : Number, expected : CursorRow, next : CursorRow]

ASSUME StoreAssumption ==
  /\ Cap \in Nat /\ Cooldown \in Nat /\ MaxNow \in Nat /\ MaxRequest \in [Group -> Nat]
  /\ NoRow \notin Nat \cup {"account"}
  /\ NoRow \notin EventRow \cup JobRow \cup ReceiverRow \cup CursorRow \cup PageRow

Unasked == [op |-> "unasked"]
NoAnswer == <<Unasked, NoRow>>
Request(a) == a[1]
Result(a) == a[2]

First(row) ==
  IF row = Subscription THEN [id |-> 0, enabled |-> TRUE]
  ELSE IF row = AccountRow THEN "account" ELSE NoRow

StoreInit ==
  /\ group \in Group
  /\ db = [row \in Rows[group] |-> First(row)]
  /\ answers = [c \in Client |-> NoAnswer]

----------------------------------------------------------------------------
(* Each operation decides on a view of the rows: what it answers and what   *)
(* it writes.                                                               *)

\* Put is :> and Over is @@ of TLC, defined here for the provers.
Put(row, value) == [x \in {row} |-> value]
Over(writes, rows) ==
  [x \in DOMAIN writes \cup DOMAIN rows |-> IF x \in DOMAIN writes THEN writes[x] ELSE rows[x]]

Told(answer) == [answer |-> answer, writes |-> << >>]
Writes(answer, rows) == [answer |-> answer, writes |-> rows]
Present(view, rows) == {row \in rows : view[row] # NoRow}
Full(view, rows) == Cardinality(Present(view, rows)) >= Cap

CreateSubscription(r, view) ==
  LET id == IF view[Subscription] = NoRow THEN r.q ELSE view[Subscription].id
  IN Writes([id |-> id], Put(Subscription, [id |-> id, enabled |-> r.enabled]))

\* Its events and their replies go with it.
DeleteSubscription(r, view) ==
  IF view[Subscription] = NoRow \/ view[Subscription].id # r.sub THEN Told("none")
  ELSE Writes("deleted", [row \in Rows.alerts |-> NoRow])

RecordAlert(r, view) ==
  LET sub == view[Subscription]
  IN IF sub = NoRow \/ sub.id # r.sub THEN Told(Refused)
     ELSE IF ~sub.enabled THEN Told("none")
     ELSE IF \E e \in Present(view, Events) : r.now < view[e].at + Cooldown THEN Told("none")
     ELSE Writes("recorded", Put(<<"event", r.q>>, [at |-> r.now, acknowledged |-> FALSE]))

ReplyToAlert(r, view) ==
  LET event == <<"event", r.event>>
  IN IF view[event] = NoRow THEN Told("none")
     ELSE IF Cardinality({x \in Replies : view[x] = r.event}) >= Cap THEN Told(Refused)
     ELSE Writes("replied", Over(Put(event, [view[event] EXCEPT !.acknowledged = TRUE]),
                                 Put(<<"reply", r.q>>, r.event)))

IsPending(job) == job # NoRow /\ job.state = "pending"
IsDue(r, key, job) == IsPending(job) /\ key <= r.now /\ job.lease <= r.now

ScheduleReset(r, view) ==
  LET job == view[<<"job", r.job>>]
  IN IF job # NoRow /\ job.state # "cancelled" THEN Told("kept")
     ELSE IF Cardinality({x \in Jobs : IsPending(view[x])}) >= Cap THEN Told(Refused)
     ELSE Writes("scheduled", Put(<<"job", r.job>>, [state |-> "pending", lease |-> 0]))

ClaimResets(r, view) ==
  LET due == {x \in Jobs : IsDue(r, x[2], view[x])}
  IN IF due = {} THEN Told({})
     ELSE Writes({x[2] : x \in due}, [x \in due |-> [view[x] EXCEPT !.lease = r.now + 1]])

CompleteReset(r, view) ==
  LET row == <<"job", r.job>>
  IN IF ~IsPending(view[row]) THEN Told("none")
     ELSE Writes("delivered", Put(row, [state |-> "delivered", lease |-> 0]))

CancelResets(r, view) ==
  LET pending == {x \in Jobs : IsPending(view[x])}
  IN IF pending = {} THEN Told("none")
     ELSE Writes("cancelled", [x \in pending |-> [state |-> "cancelled", lease |-> 0]])

IssueReceiver(r, view) ==
  IF Cardinality({x \in Present(view, Receivers) : ~view[x].revoked}) >= Cap THEN Told(Refused)
  ELSE Writes("issued", Over(Put(Machine, "seen"),
                             Put(<<"receiver", r.q>>, [revoked |-> FALSE, used |-> 0])))

TouchReceiver(r, view) ==
  LET row == <<"receiver", r.receiver>>
  IN IF view[row] = NoRow \/ view[row].revoked THEN Told("none")
     ELSE Writes("touched", Put(row, [view[row] EXCEPT !.used = IF @ > r.now THEN @ ELSE r.now]))

RevokeReceiver(r, view) ==
  LET row == <<"receiver", r.receiver>>
  IN IF view[row] = NoRow THEN Told("none")
     ELSE Writes("revoked", Put(row, [view[row] EXCEPT !.revoked = TRUE]))

\* A request id answers for what it stored, to the same payload only.
IngestOnce(r, view) ==
  LET replay == view[<<"replay", r.id>>]
  IN IF replay # NoRow THEN Told(IF replay = r.payload THEN "replayed" ELSE Refused)
     ELSE IF Full(view, Replays) \/ Full(view, Reports) THEN Told(Refused)
     ELSE Writes("stored", Over(Put(<<"report", r.q>>, r.id), Put(<<"replay", r.id>>, r.payload)))

Origin == [usage |-> 0, token |-> 0]
NextCursor(kind, cursor) == [cursor EXCEPT ![kind] = @ + 1]

LoadCursor(r, view) ==
  LET row == <<"cursor", r.to>>
  IN IF view[row] # NoRow THEN Told(view[row])
     ELSE IF Full(view, Cursors) THEN Told(Refused)
     ELSE Writes(Origin, Put(row, Origin))

AdvanceCursor(r, view) ==
  LET row == <<"cursor", r.to>>
      next == NextCursor(r.kind, r.expected)
  IN IF view[row] # r.expected THEN Told(Refused) ELSE Writes(next, Put(row, next))

Other(kind) == IF kind = "usage" THEN "token" ELSE "usage"

PreparePage(r, view) ==
  LET row == <<r.kind, r.to>>
      page == [id |-> r.q, expected |-> r.expected, next |-> NextCursor(r.kind, r.expected)]
  IN IF view[<<"cursor", r.to>>] = NoRow THEN Told(Refused)
     ELSE IF view[row] # NoRow THEN Told(view[row])
     ELSE IF view[<<Other(r.kind), r.to>>] # NoRow \/ view[<<"cursor", r.to>>] # r.expected
          THEN Told(Refused)
     ELSE Writes(page, Put(row, page))

CommitPage(r, view) ==
  LET row == <<r.kind, r.to>>
      cursor == <<"cursor", r.to>>
      page == view[row]
  IN IF view[cursor] = NoRow THEN Told(Refused)
     ELSE IF page = NoRow THEN Told(Refused)
     ELSE IF page.id # r.id \/ view[cursor] # page.expected THEN Told(Refused)
     ELSE Writes(page.next, Over(Put(cursor, page.next), Put(row, NoRow)))

Allocated(view) == IF view[Revision] = NoRow THEN 1 ELSE view[Revision] + 1

BeginObservation(r, view) == Writes(Allocated(view), Put(Revision, Allocated(view)))

\* The conditional upsert of a tally: only over an older revision.
NewerOnly(view, row, revision, value) ==
  IF view[row] # NoRow /\ view[row].revision >= revision THEN << >>
  ELSE Put(row, [revision |-> revision, value |-> value])

StoreObserved(r, view) ==
  IF view[Revision] # r.revision THEN Told(Refused)
  ELSE Writes("stored", NewerOnly(view, LocalGrain, r.revision, r.value))

StoreReported(r, view) ==
  IF view[ReportedGrain] # NoRow /\ view[ReportedGrain].value = r.value THEN Told("stored")
  ELSE Writes("stored", Over(Put(Revision, Allocated(view)),
                             Put(ReportedGrain, [revision |-> Allocated(view), value |-> r.value])))

BeginBackfill(r, view) ==
  LET old == view[Progress]
      fresh == [generation |-> IF old = NoRow THEN 1 ELSE old.generation + 1, source |-> r.source,
                revision |-> Allocated(view), cursor |-> 0, complete |-> FALSE]
  IN IF old # NoRow /\ old.source = r.source /\ ~(old.complete /\ r.restart) THEN Told(old)
     ELSE Writes(fresh, Over(Put(Progress, fresh), Put(Revision, fresh.revision)))

ApplyBackfill(r, view) ==
  LET next == [r.expected EXCEPT !.cursor = @ + 1, !.complete = r.last]
  IN IF view[Progress] # r.expected THEN Told(Refused)
     ELSE Writes(next, Over(Put(Progress, next), NewerOnly(view, LocalGrain, next.revision, r.value)))

BeginSync(r, view) ==
  LET old == view[Peer]
      fresh == [cursor |-> 0, generation |-> IF old = NoRow THEN 1 ELSE old.generation + 1,
                complete |-> FALSE]
  IN IF old # NoRow /\ ~old.complete THEN Told(old) ELSE Writes(fresh, Put(Peer, fresh))

ApplyPage(r, view) ==
  LET peer == view[Peer]
      record == <<"record", r.record>>
      next == [peer EXCEPT !.cursor = IF r.last THEN 0 ELSE @ + 1, !.complete = r.last]
  IN IF peer = NoRow THEN Told(Refused)
     ELSE IF peer.cursor # r.cursor \/ peer.complete THEN Told(Refused)
     ELSE IF view[record] \notin {NoRow, r.value} THEN Told(Refused)
     ELSE Writes(next, Over(Put(Peer, next), Put(record, r.value)))

\* insert_snapshot: windows are numbered in the order of their reset, then of
\* their used share; one is accepted unless it is before the last accepted one
\* of its profile.
AppendUsage(r, view) ==
  LET accepted == {x \in Present(view, Snapshots) : view[x].profile = r.profile /\ view[x].accepted}
      id == view[Id]
  IN Writes(id, Put(<<"snapshot", id>>,
       [profile |-> r.profile, window |-> r.window,
        accepted |-> \A x \in accepted : view[x].window <= r.window]))

UsagePage(r, view) == Told({x[2] : x \in Present(view, Snapshots)})

ImportRow(r, view) ==
  LET claim == view[<<"claim", r.target>>]
  IN IF claim # NoRow THEN Told(IF claim = r.payload THEN "known" ELSE Refused)
     ELSE Writes("imported", Over(Put(<<"claim", r.target>>, r.payload), Put(<<"imported", r.q>>, r.target)))

Outcome(r, view) ==
  CASE r.op = "create_subscription" -> CreateSubscription(r, view)
    [] r.op = "delete_subscription" -> DeleteSubscription(r, view)
    [] r.op = "record_alert" -> RecordAlert(r, view)
    [] r.op = "reply" -> ReplyToAlert(r, view)
    [] r.op = "schedule" -> ScheduleReset(r, view)
    [] r.op = "claim" -> ClaimResets(r, view)
    [] r.op = "complete" -> CompleteReset(r, view)
    [] r.op = "cancel" -> CancelResets(r, view)
    [] r.op = "issue" -> IssueReceiver(r, view)
    [] r.op = "touch" -> TouchReceiver(r, view)
    [] r.op = "revoke" -> RevokeReceiver(r, view)
    [] r.op = "ingest" -> IngestOnce(r, view)
    [] r.op = "load_cursor" -> LoadCursor(r, view)
    [] r.op = "advance" -> AdvanceCursor(r, view)
    [] r.op = "prepare" -> PreparePage(r, view)
    [] r.op = "commit" -> CommitPage(r, view)
    [] r.op = "observe" -> BeginObservation(r, view)
    [] r.op = "store_observed" -> StoreObserved(r, view)
    [] r.op = "store_reported" -> StoreReported(r, view)
    [] r.op = "begin_backfill" -> BeginBackfill(r, view)
    [] r.op = "apply_backfill" -> ApplyBackfill(r, view)
    [] r.op = "begin_sync" -> BeginSync(r, view)
    [] r.op = "apply_page" -> ApplyPage(r, view)
    [] r.op = "append" -> AppendUsage(r, view)
    [] r.op = "usage_page" -> UsagePage(r, view)
    [] r.op = "import" -> ImportRow(r, view)

----------------------------------------------------------------------------
(* What a caller may ask, given what it was last told.                      *)

Ops == [
  alerts |-> {"create_subscription", "delete_subscription", "record_alert", "reply"},
  resets |-> {"schedule", "claim", "complete", "cancel"},
  receivers |-> {"issue", "touch", "revoke"},
  reports |-> {"ingest"},
  outbox |-> {"load_cursor", "advance", "prepare", "commit"},
  tokens |-> {"observe", "store_observed", "store_reported", "begin_backfill", "apply_backfill"},
  peers |-> {"begin_sync", "apply_page"},
  usage |-> {"append", "usage_page"},
  imports |-> {"import"}]

Was(a, ops) == Request(a).op \in ops /\ Result(a) \notin {Refused, Failed}

\* Arguments of the operations, one set of records each.
Arguments(op, q, a) ==
  CASE op = "create_subscription" -> [op : {op}, q : {q}, enabled : BOOLEAN]
    [] op = "delete_subscription" ->
         [op : {op}, q : {q}, sub : {0} \cup (IF Was(a, {"create_subscription"}) THEN {Result(a).id} ELSE {})]
    [] op = "record_alert" ->
         [op : {op}, q : {q}, now : Now,
          sub : {0} \cup (IF Was(a, {"create_subscription"}) THEN {Result(a).id} ELSE {})]
    [] op = "reply" -> [op : {op}, q : {q}, event : 1..(q - 1)]
    [] op = "schedule" -> [op : {op}, q : {q}, job : Keys]
    [] op = "claim" -> [op : {op}, q : {q}, now : Now]
    [] op = "complete" ->
         [op : {op}, q : {q}, job : IF Was(a, {"claim"}) THEN Result(a) ELSE {}]
    [] op \in {"cancel", "issue", "observe", "begin_sync", "usage_page"} -> [op : {op}, q : {q}]
    [] op = "touch" -> [op : {op}, q : {q}, receiver : 1..(q - 1), now : Now]
    [] op = "revoke" -> [op : {op}, q : {q}, receiver : 1..(q - 1)]
    [] op = "ingest" -> [op : {op}, q : {q}, id : Keys, payload : Keys]
    [] op = "load_cursor" -> [op : {op}, q : {q}, to : Keys]
    [] op \in {"advance", "prepare"} ->
         [op : {op}, q : {q}, kind : Stream,
          to : IF Was(a, {"load_cursor", "commit", "advance"}) THEN {Request(a).to} ELSE {},
          expected : IF Was(a, {"load_cursor", "commit", "advance"}) THEN {Result(a)} ELSE {}]
    [] op = "commit" ->
         [op : {op}, q : {q}, kind : IF Was(a, {"prepare"}) THEN {Request(a).kind} ELSE {},
          to : IF Was(a, {"prepare"}) THEN {Request(a).to} ELSE {},
          id : IF Was(a, {"prepare"}) THEN {Result(a).id} ELSE {}]
    [] op = "store_observed" ->
         [op : {op}, q : {q}, value : {1}, revision : IF Was(a, {"observe"}) THEN {Result(a)} ELSE {}]
    [] op = "store_reported" -> [op : {op}, q : {q}, value : Keys]
    [] op = "begin_backfill" -> [op : {op}, q : {q}, source : Keys, restart : BOOLEAN]
    [] op = "apply_backfill" ->
         [op : {op}, q : {q}, value : {1}, last : BOOLEAN,
          expected : IF Was(a, {"begin_backfill", "apply_backfill"}) THEN {Result(a)} ELSE {}]
    [] op = "apply_page" ->
         [op : {op}, q : {q}, record : Keys, value : Keys, last : BOOLEAN,
          cursor : IF Was(a, {"begin_sync", "apply_page"}) THEN {Result(a).cursor} ELSE {}]
    [] op = "append" ->
         [op : {op}, q : {q}, profile : Keys, window : Keys]
    [] op = "import" -> [op : {op}, q : {q}, target : Keys, payload : Keys]

Requests(g, q, a) == UNION {Arguments(op, q, a) : op \in Ops[g]}

\* What an execution in one step may decide on: the rows; but a claim may pass
\* over rows another caller is at work on, a cancel over rows that are scheduled
\* while it is at work, and an append is given an identity.
Views(r, d) ==
  CASE r.op \in {"claim", "cancel"} ->
         {[x \in DOMAIN d |-> IF x \in S THEN NoRow ELSE d[x]] : S \in SUBSET DOMAIN d}
    [] r.op = "append" -> {Over(Put(Id, x[2]), d) : x \in {y \in Snapshots : d[y] = NoRow}}
    [] OTHER -> {d}

\* A caller's request is what its new answer names, so that a step determines it.
Answers(c) ==
  LET r == Request(answers'[c]) IN
    /\ answers'[c] # answers[c]
    /\ answers' = [answers EXCEPT ![c] = answers'[c]]
    /\ r.op \in Ops[group] /\ r.q \in Number /\ r \in Arguments(r.op, r.q, answers[c])
    /\ UNCHANGED group

\* Its outcome, which it may fail to learn.
Perform(c) ==
  LET r == Request(answers'[c]) IN
    \E view \in Views(r, db) :
      LET o == Outcome(r, view)
      IN Result(answers'[c]) \in {o.answer, Failed} /\ db' = Over(o.writes, db)

\* It fails and has done nothing.
FailRequest(c) == Result(answers'[c]) = Failed /\ UNCHANGED db

StoreNext == \E c \in Client : Answers(c) /\ (FailRequest(c) \/ Perform(c))

StoreSpec == StoreInit /\ [][StoreNext]_storeVars

=============================================================================
