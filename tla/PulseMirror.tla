---------------------------- MODULE PulseMirror ----------------------------
(***************************************************************************)
(* Pull federation of Pulse rows (pulse/federation.rs, the stores'         *)
(* begin_federation_sync, apply_federation_page and local_federation_page):*)
(* a node pulls the rows of one peer in pages, in the order of their keys, *)
(* and keeps the cursor, a ledger of the record keys it applied and the    *)
(* rows themselves in one transaction per page.                            *)
(*                                                                         *)
(* The rows are those whose store keeps the newest observation (context    *)
(* sessions): a version is the time of an observation.  A record key is    *)
(* the digest of row key and row content.                                  *)
(***************************************************************************)
EXTENDS Integers, Sequences, FiniteSets

CONSTANTS
  MaxRow,         \* the peer's rows are 1..MaxRow, in key order
  MaxVersion,     \* observations of a row are 1..MaxVersion
  Puller,         \* processes that pull into the same store
  PageRows,       \* rows of a page
  MaxPages,       \* pages of one sync
  MaxPullFault    \* bound on lost pages and crashes

Rows == 1..MaxRow
Done == MaxRow + 1  \* the cursor of a completed scan
Start == 0          \* no cursor

ASSUME PullAssumption == {MaxRow, MaxVersion, PageRows, MaxPages, MaxPullFault} \subseteq Nat \ {0}

VARIABLES
  source,      \* the peer's rows: version, 0 when there is none yet
  cursor,      \* federation_peers: cursor, Done when complete
  ledger,      \* federation_records: <<row, version>>
  mirror,      \* the imported rows
  pulls,       \* per process: [step, prior, page, next, pages, old]
  began,       \* the peer's rows when the current scan began (observer)
  mixed,       \* a page of an earlier scan was applied in this one (observer)
  pullFaults

pullVars == <<source, cursor, ledger, mirror, pulls, began, mixed, pullFaults>>

Resting == [step |-> "idle", prior |-> Start, page |-> {}, next |-> Start, pages |-> 0, old |-> FALSE]

PullInit ==
  /\ source \in [Rows -> {0, 1}]
  /\ cursor = Done /\ ledger = {} /\ mirror = [r \in Rows |-> 0]
  /\ pulls = [p \in Puller |-> Resting]
  /\ began = mirror /\ mixed = FALSE /\ pullFaults = 0

PullFault == pullFaults < MaxPullFault /\ pullFaults' = pullFaults + 1

----------------------------------------------------------------------------
\* A collector of the peer stores an observation.
RowChanges(r) ==
  /\ source[r] < MaxVersion /\ source' = [source EXCEPT ![r] = @ + 1]
  /\ UNCHANGED <<cursor, ledger, mirror, pulls, began, mixed, pullFaults>>

\* Mutant: a completed scan is the last.
ScanFromCursor == cursor

\* begin_federation_sync: a completed scan is followed by the next.
ScanFrom == IF cursor = Done THEN Start ELSE cursor

BeginSync(p) ==
  /\ pulls[p].step = "idle"
  /\ LET prior == ScanFrom
         restarts == prior # cursor
     IN /\ cursor' = prior
        /\ began' = IF restarts THEN source ELSE began
        /\ mixed' = (mixed /\ ~restarts)
        /\ pulls' = [q \in Puller |->
             IF q = p THEN [Resting EXCEPT !.step = "fetch", !.prior = prior]
             ELSE [pulls[q] EXCEPT !.old = (@ \/ restarts) /\ pulls[q].step = "apply"]]
  /\ UNCHANGED <<source, ledger, mirror, pullFaults>>

\* local_page: the first PageRows rows behind the cursor, and a cursor when
\* there are more.
After(position) == {r \in Rows : r > position /\ source[r] # 0}
PageAfter(position) == {r \in After(position) :
  Cardinality({q \in After(position) : q < r}) < PageRows}

Fetch(p) ==
  /\ pulls[p].step = "fetch"
  /\ LET rows == PageAfter(pulls[p].prior)
         more == After(pulls[p].prior) # rows
     IN pulls' = [pulls EXCEPT ![p] = [@ EXCEPT
          !.step = "apply", !.old = FALSE,
          !.page = {<<r, source[r]>> : r \in rows},
          !.next = IF more THEN CHOOSE r \in rows : \A q \in rows : q <= r ELSE Done]]
  /\ UNCHANGED <<source, cursor, ledger, mirror, began, mixed, pullFaults>>

\* Mutant: a page is applied whatever the stored cursor.
AtAnyCursor(p) == cursor # Done

\* apply_federation_page accepts a page at the stored cursor only.
AtCursor(p) == cursor = pulls[p].prior

\* Mutant: a record key names the row, not its content.
NewRecordsByRow(page) == {record \in page : ~\E seen \in ledger : seen[1] = record[1]}

NewRecords(page) == page \ ledger

\* The store keeps the newer observation.
Imported(records) == [r \in Rows |->
  IF \E record \in records : record[1] = r /\ record[2] >= mirror[r]
  THEN (CHOOSE record \in records : record[1] = r)[2] ELSE mirror[r]]

Apply(p) ==
  /\ pulls[p].step = "apply"
  /\ LET pull == pulls[p] IN
       IF ~AtCursor(p)
       THEN pulls' = [pulls EXCEPT ![p] = Resting] /\ UNCHANGED <<cursor, ledger, mirror, mixed>>
       ELSE /\ mirror' = Imported(NewRecords(pull.page))
            /\ ledger' = ledger \cup NewRecords(pull.page)
            /\ cursor' = pull.next
            /\ mixed' = (mixed \/ (pull.old /\ cursor = pull.prior))
            /\ pulls' = [pulls EXCEPT ![p] =
                 IF pull.next = Done \/ pull.pages + 1 = MaxPages THEN Resting
                 ELSE [Resting EXCEPT !.step = "fetch", !.prior = pull.next, !.pages = pull.pages + 1]]
  /\ UNCHANGED <<source, began, pullFaults>>

\* The peer is offline, a transaction fails, or the process ends.
Lose(p) ==
  /\ pulls[p].step # "idle" /\ PullFault
  /\ pulls' = [pulls EXCEPT ![p] = Resting]
  /\ UNCHANGED <<source, cursor, ledger, mirror, began, mixed>>

PullStep(p) == BeginSync(p) \/ Fetch(p) \/ Apply(p)

PullNext ==
  \/ \E p \in Puller : PullStep(p) \/ Lose(p)
  \/ \E r \in Rows : RowChanges(r)

\* The lifecycle scans again after every interval, and requests time out.
PullFairness == \A p \in Puller : WF_pullVars(PullStep(p))

----------------------------------------------------------------------------
PullTypeOK ==
  /\ source \in [Rows -> 0..MaxVersion] /\ mirror \in [Rows -> 0..MaxVersion]
  /\ cursor \in Start..Done /\ ledger \subseteq Rows \X (1..MaxVersion)
  /\ \A p \in Puller :
       /\ pulls[p].step \in {"idle", "fetch", "apply"}
       /\ {pulls[p].prior, pulls[p].next} \subseteq Start..Done
       /\ pulls[p].page \subseteq Rows \X (1..MaxVersion)
  /\ pullFaults \in 0..MaxPullFault

\* A completed scan has covered the peer: every row is imported at least as it
\* was when the scan began, however pulls of several processes, lost pages and
\* crashes cut the scan up.  A page that an earlier scan fetched for the very
\* position this scan stands at is indistinguishable, and excepted.
ScanCovers == cursor = Done /\ ~mixed => \A r \in Rows : mirror[r] >= began[r]

\* The import catches up with a peer whose rows rest: scan follows scan
\* (the federation lifecycle), and a lost page is asked for again.
MirrorCatchesUp == <>[](mirror = source)
=============================================================================
