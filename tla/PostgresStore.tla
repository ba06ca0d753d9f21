---------------------------- MODULE PostgresStore ----------------------------
(***************************************************************************)
(* The PostgreSQL backend (pulse/store/postgres.rs): an operation is a     *)
(* transaction of several statements at READ COMMITTED.  Each statement    *)
(* sees what is committed when it runs; row locks (FOR UPDATE, writes),    *)
(* keys being inserted and advisory locks are held until the transaction   *)
(* ends.  A process has one connection behind a mutex, so the hazard is    *)
(* another process: a web service beside `pulse push --once`, an import, a *)
(* web process being replaced.                                             *)
(*                                                                         *)
(* What a transaction writes becomes visible when it commits; the model    *)
(* keeps what its statements have read and applies Outcome to that.        *)
(***************************************************************************)
EXTENDS PulseStore

VARIABLES
  tx,        \* per client: its request, statements run, rows read, locks held
  asked,     \* requests so far
  sequence   \* the identity sequence of the snapshots, which no rollback turns back

postgresVars == <<storeVars, tx, asked, sequence>>

Closed == [request |-> Unasked, run |-> 0, read |-> << >>, held |-> {}]

PostgresInit ==
  /\ StoreInit
  /\ tx = [c \in Client |-> Closed]
  /\ asked = 0 /\ sequence = 0

----------------------------------------------------------------------------
(* The statements of an operation: those it decides on, which depend on    *)
(* what it has read, and those that follow if it writes.                   *)

AdvisoryLock(name) == [kind |-> "lock", rows |-> {<<name, 0>>}]
Select(rows) == [kind |-> "select", rows |-> rows]
SelectForUpdate(rows) == [kind |-> "for_update", rows |-> rows]
SkipLocked(rows) == [kind |-> "skip_locked", rows |-> rows]
InsertIfAbsent(row) == [kind |-> "if_absent", rows |-> {row}]
Insert(row) == [kind |-> "insert", rows |-> {row}]
Upsert(row) == [kind |-> "upsert", rows |-> {row}]
NextId == [kind |-> "identity", rows |-> {Id}]

Statements(reads, writes) == [reads |-> reads, writes |-> writes]
If(condition, statements) == IF condition THEN statements ELSE << >>

\* A row that was not found, or not read yet, is NoRow.
Found(read, row) == IF row \in DOMAIN read THEN read[row] ELSE NoRow
IsSub(r, read) ==
  LET sub == Found(read, Subscription) IN IF sub = NoRow THEN FALSE ELSE sub.id = r.sub

\* Mutant: the last alert is looked up without holding the subscription.
RecordPlanUnlocked(r, read) == Statements(
  <<Select({Subscription})>> \o If(IsSub(r, read), <<Select(Events)>>),
  <<Insert(<<"event", r.q>>)>>)

RecordPlan(r, read) == Statements(
  <<SelectForUpdate({Subscription})>> \o If(IsSub(r, read), <<Select(Events)>>),
  <<Insert(<<"event", r.q>>)>>)

\* The delete cascades to the events and their replies.
DeletePlan(r, read) == Statements(
  <<SelectForUpdate({Subscription})>>, <<SelectForUpdate(Events), SelectForUpdate(Replies)>>)

ReplyPlan(r, read) ==
  LET event == <<"event", r.event>>
  IN Statements(<<SelectForUpdate({event})>> \o If(Found(read, event) # NoRow, <<Select(Replies)>>),
                <<Insert(<<"reply", r.q>>)>>)

SchedulePlan(r, read) ==
  LET job == <<"job", r.job>>
      old == Found(read, job)
      kept == IF old = NoRow THEN FALSE ELSE old.state # "cancelled"
  IN Statements(<<AdvisoryLock("reset"), SelectForUpdate({job})>> \o If(~kept, <<Select(Jobs)>>),
                <<Upsert(job)>>)

\* Mutant: the receivers are counted without the account's lock.
IssuePlanUnlocked(r, read) == Statements(
  <<Select(Receivers)>>, <<Upsert(Machine), Insert(<<"receiver", r.q>>)>>)

IssuePlan(r, read) == Statements(
  <<AdvisoryLock("receiver"), Select(Receivers)>>,
  <<Upsert(Machine), Insert(<<"receiver", r.q>>)>>)

IngestPlan(r, read) ==
  LET replay == <<"replay", r.id>>
  IN Statements(
       <<AdvisoryLock("ingest"), Select({replay})>>
         \o If(Found(read, replay) = NoRow, <<Select(Replays), Select(Reports)>>),
       <<AdvisoryLock("profile"), Insert(<<"report", r.q>>), Insert(replay)>>)

LoadCursorPlan(r, read) ==
  LET cursor == <<"cursor", r.to>>
  IN Statements(
       <<SelectForUpdate({AccountRow}), Select({cursor})>>
         \o If(Found(read, cursor) = NoRow, <<Select(Cursors)>>),
       <<Insert(cursor)>>)

PreparePlan(r, read) ==
  LET cursor == <<"cursor", r.to>>
      page == <<r.kind, r.to>>
  IN Statements(
       <<SelectForUpdate({cursor})>>
         \o If(Found(read, cursor) # NoRow,
              <<SelectForUpdate({page})>>
                \o If(Found(read, page) = NoRow, <<SelectForUpdate({<<Other(r.kind), r.to>>})>>)),
       <<Insert(page)>>)

CommitPlan(r, read) ==
  LET cursor == <<"cursor", r.to>>
  IN Statements(
       <<SelectForUpdate({cursor})>>
         \o If(Found(read, cursor) # NoRow, <<SelectForUpdate({<<r.kind, r.to>>})>>),
       << >>)

ReserveRevision == <<InsertIfAbsent(Revision), SelectForUpdate({Revision})>>

ObservedPlan(r, read) == Statements(
  ReserveRevision \o If(Found(read, Revision) = r.revision, <<Upsert(LocalGrain)>>), << >>)

ReportedPlan(r, read) == Statements(ReserveRevision \o <<Select({ReportedGrain})>>, <<Upsert(ReportedGrain)>>)

BackfillPlan(r, read) ==
  LET old == Found(read, Progress)
      goesOn == IF old = NoRow THEN FALSE ELSE old.source = r.source /\ ~(old.complete /\ r.restart)
  IN Statements(<<InsertIfAbsent(Progress), SelectForUpdate({Progress})>> \o If(~goesOn, ReserveRevision),
                << >>)

ApplyBackfillPlan(r, read) == Statements(
  <<SelectForUpdate({Progress})>> \o If(Found(read, Progress) = r.expected, <<Upsert(LocalGrain)>>), << >>)

SyncPlan == Statements(<<InsertIfAbsent(Peer), SelectForUpdate({Peer})>>, << >>)

ApplyPagePlan(r, read) ==
  LET peer == Found(read, Peer)
      goesOn == IF peer = NoRow THEN FALSE ELSE peer.cursor = r.cursor /\ ~peer.complete
  IN Statements(
       <<SelectForUpdate({Peer})>> \o If(goesOn, <<Select({<<"record", r.record>>})>>),
       If(Found(read, <<"record", r.record>>) = NoRow, <<Insert(<<"record", r.record>>)>>))

AppendPlan(r) == Statements(<<AdvisoryLock(<<"profile", r.profile>>), NextId, Select(Snapshots)>>, << >>)

ImportPlan(r, read) == Statements(
  <<AdvisoryLock("import"), SelectForUpdate({<<"claim", r.target>>})>>,
  <<Insert(<<"claim", r.target>>), AdvisoryLock("profile"), Insert(<<"imported", r.q>>)>>)

Plan(r, read) ==
  CASE r.op = "create_subscription" -> Statements(<<Upsert(Subscription)>>, << >>)
    [] r.op = "delete_subscription" -> DeletePlan(r, read)
    [] r.op = "record_alert" -> RecordPlan(r, read)
    [] r.op = "reply" -> ReplyPlan(r, read)
    [] r.op = "schedule" -> SchedulePlan(r, read)
    [] r.op = "claim" -> Statements(<<SkipLocked(Jobs)>>, << >>)
    [] r.op = "complete" -> Statements(<<SelectForUpdate({<<"job", r.job>>})>>, << >>)
    [] r.op = "cancel" -> Statements(<<SelectForUpdate(Jobs)>>, << >>)
    [] r.op = "issue" -> IssuePlan(r, read)
    [] r.op \in {"touch", "revoke"} -> Statements(<<SelectForUpdate({<<"receiver", r.receiver>>})>>, << >>)
    [] r.op = "ingest" -> IngestPlan(r, read)
    [] r.op = "load_cursor" -> LoadCursorPlan(r, read)
    [] r.op = "advance" -> Statements(<<SelectForUpdate({<<"cursor", r.to>>})>>, << >>)
    [] r.op = "prepare" -> PreparePlan(r, read)
    [] r.op = "commit" -> CommitPlan(r, read)
    [] r.op = "observe" -> Statements(ReserveRevision, << >>)
    [] r.op = "store_observed" -> ObservedPlan(r, read)
    [] r.op = "store_reported" -> ReportedPlan(r, read)
    [] r.op = "begin_backfill" -> BackfillPlan(r, read)
    [] r.op = "apply_backfill" -> ApplyBackfillPlan(r, read)
    [] r.op = "begin_sync" -> SyncPlan
    [] r.op = "apply_page" -> ApplyPagePlan(r, read)
    [] r.op = "append" -> AppendPlan(r)
    [] r.op = "usage_page" -> Statements(<<Select(Snapshots)>>, << >>)
    [] r.op = "import" -> ImportPlan(r, read)

\* The rows a WHERE clause lets through; the others are neither locked nor
\* waited for.
Wanted(r, row) ==
  CASE r.op = "claim" -> IsDue(r, row[2], db[row])
    [] r.op \in {"complete", "cancel"} -> IsPending(db[row])
    [] r.op = "touch" -> ~db[row].revoked
    [] r.op = "advance" -> db[row] = r.expected
    [] r.op \in {"record_alert", "delete_subscription"} /\ row = Subscription -> db[row].id = r.sub
    [] OTHER -> TRUE

----------------------------------------------------------------------------
(* A transaction                                                            *)

Begin(c) ==
  /\ tx[c] = Closed /\ asked < MaxRequest[group]
  /\ asked' = asked + 1
  /\ \E r \in Requests(group, asked', answers[c]) : tx' = [tx EXCEPT ![c].request = r]
  /\ UNCHANGED <<storeVars, sequence>>

Unheld(c, rows) == \A d \in Client \ {c} : tx[d].held \cap rows = {}

Script(c) == LET plan == Plan(tx[c].request, tx[c].read) IN plan.reads \o plan.writes

\* It has run: it read these rows and holds those.  A transaction that has
\* read all it decides on and will not write has its answer.
Ran(c, got, locked) ==
  LET t == [tx[c] EXCEPT !.run = @ + 1, !.read = Over(got, @), !.held = @ \cup locked]
      decides == t.run >= Len(Plan(t.request, t.read).reads)
      o == Outcome(t.request, t.read)
  IN /\ IF decides /\ o.writes = << >>
        THEN /\ tx' = [tx EXCEPT ![c] = Closed]
             /\ answers' = [answers EXCEPT ![c] = <<t.request, o.answer>>]
        ELSE tx' = [tx EXCEPT ![c] = t] /\ UNCHANGED answers
     /\ UNCHANGED <<group, db, asked>>

Lock(c, s) ==
  /\ s.kind = "lock" /\ Unheld(c, s.rows)
  /\ Ran(c, << >>, s.rows)
  /\ UNCHANGED sequence

RunSelect(c, s) ==
  /\ s.kind = "select"
  /\ Ran(c, [row \in s.rows |-> db[row]], {})
  /\ UNCHANGED sequence

\* FOR UPDATE, UPDATE and DELETE wait for the rows they want and then see
\* them as they were committed.
RunSelectForUpdate(c, s) ==
  /\ s.kind = "for_update"
  /\ LET wanted == {row \in s.rows : db[row] # NoRow /\ Wanted(tx[c].request, row)}
     IN Unheld(c, wanted) /\ Ran(c, [row \in s.rows |-> db[row]], wanted)
  /\ UNCHANGED sequence

RunSkipLocked(c, s) ==
  /\ s.kind = "skip_locked"
  /\ LET free == {row \in s.rows : Unheld(c, {row})}
         wanted == {row \in free : db[row] # NoRow /\ Wanted(tx[c].request, row)}
     IN Ran(c, [row \in s.rows |-> IF row \in free THEN db[row] ELSE NoRow], wanted)
  /\ UNCHANGED sequence

\* ON CONFLICT DO NOTHING waits only for another insert of the row.
RunInsertIfAbsent(c, s) ==
  /\ s.kind = "if_absent"
  /\ LET absent == {row \in s.rows : db[row] = NoRow}
     IN Unheld(c, absent) /\ Ran(c, << >>, absent)
  /\ UNCHANGED sequence

\* An insert of a row that has come to exist fails, and the transaction with it.
RunInsert(c, s) ==
  /\ s.kind = "insert" /\ Unheld(c, s.rows)
  /\ \A row \in s.rows : db[row] = NoRow
  /\ Ran(c, << >>, s.rows)
  /\ UNCHANGED sequence

RunUpsert(c, s) ==
  /\ s.kind = "upsert" /\ Unheld(c, s.rows)
  /\ Ran(c, [row \in s.rows |-> db[row]], s.rows)
  /\ UNCHANGED sequence

TakeId(c, s) ==
  /\ s.kind = "identity"
  /\ sequence' = sequence + 1
  /\ Ran(c, Put(Id, sequence'), {})

\* The caller may not learn of a commit.
CommitTransaction(c) ==
  /\ tx[c] # Closed /\ tx[c].run = Len(Script(c))
  /\ LET o == Outcome(tx[c].request, tx[c].read) IN
       /\ db' = Over(o.writes, db)
       /\ \E told \in {o.answer, Failed} :
            answers' = [answers EXCEPT ![c] = <<tx[c].request, told>>]
  /\ tx' = [tx EXCEPT ![c] = Closed]
  /\ UNCHANGED <<group, asked, sequence>>

\* The connection is lost, the process dies, the server picks it as the victim
\* of a deadlock, or a statement fails.
Abort(c) ==
  /\ tx[c] # Closed
  /\ answers' = [answers EXCEPT ![c] = <<tx[c].request, Failed>>]
  /\ tx' = [tx EXCEPT ![c] = Closed]
  /\ UNCHANGED <<group, db, asked, sequence>>

\* s is the next statement of its script.
RunStatement(c) ==
  LET script == Script(c) IN
  /\ tx[c] # Closed /\ tx[c].run < Len(script)
  /\ LET s == script[tx[c].run + 1] IN
       \/ Lock(c, s) \/ RunSelect(c, s) \/ RunSelectForUpdate(c, s) \/ RunSkipLocked(c, s)
       \/ RunInsertIfAbsent(c, s) \/ RunInsert(c, s) \/ RunUpsert(c, s) \/ TakeId(c, s)

PostgresNext == \E c \in Client : Begin(c) \/ RunStatement(c) \/ CommitTransaction(c) \/ Abort(c)

PostgresSpec == PostgresInit /\ [][PostgresNext]_postgresVars

----------------------------------------------------------------------------
\* The caps and uniqueness the operations promise one caller hold with several.
CapsHold ==
  /\ group = "alerts" =>
       /\ \A e \in Number : Cardinality({x \in Replies : db[x] = e}) <= Cap
       /\ \A x, y \in Present(db, Events) :
            x # y => db[x].at + Cooldown <= db[y].at \/ db[y].at + Cooldown <= db[x].at
  /\ group = "resets" => Cardinality({x \in Jobs : IsPending(db[x])}) <= Cap
  /\ group = "receivers" => Cardinality({x \in Present(db, Receivers) : ~db[x].revoked}) <= Cap
  /\ group = "reports" => \A x, y \in Present(db, Reports) : db[x] = db[y] => x = y
  /\ group = "outbox" =>
       /\ Cardinality(Present(db, Cursors)) <= Cap
       /\ \A to \in Keys : Cardinality(Present(db, Stream \X {to})) <= 1
  /\ group = "imports" => \A x, y \in Present(db, Imported) : db[x] = db[y] => x = y
=============================================================================
