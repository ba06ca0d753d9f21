---------------------------- MODULE TokenBackfill ----------------------------
(***************************************************************************)
(* Token totals on their way from an agent's transcripts to the store.     *)
(* Observers tally the recent days over and over (service.rs, native.rs);  *)
(* backfills page through the whole history (ops.rs) with a cursor that is *)
(* stored with each page.  Both write the same rows; a revision reserved   *)
(* before the transcripts are read says which of two totals is the later   *)
(* one (store/sqlite.rs).  A key stands for a day, session, model and      *)
(* settings; keys are numbered in the order of their tally, so that rows   *)
(* are a function from keys to totals.                                     *)
(***************************************************************************)
EXTENDS Integers, Sequences, FiniteSets

CONSTANTS
  Backfill,         \* runs of the full history, in any processes
  Observer,         \* token collections, in any processes
  NumTokenKey,
  BackfillRows,     \* MAX_FULL_HISTORY_ROWS_PER_PROFILE
  BackfillRestarts, \* MAX_BACKFILL_GENERATION_RESTARTS
  MaxAppend         \* bound on the changes of the transcripts and the revisions together

ASSUME BackfillAssumption ==
  /\ NumTokenKey \in Nat \ {0} /\ BackfillRows \in Nat \ {0}
  /\ BackfillRestarts \in Nat /\ MaxAppend \in Nat

VARIABLES
  asOf,          \* the totals of the transcripts at each source generation
  tokenRevision, \* token_write_revisions.revision
  tokenRow,      \* token_usage: [total, revision] of each key, total 0 when absent
  progress,      \* backfill_progress
  history,       \* per backfill: [at, read, after, state, page, restarts]
  tally          \* per observer: [at, revision, rows]

backfillVars == <<asOf, tokenRevision, tokenRow, progress, history, tally>>

TokenKey == 1..NumTokenKey
SourceGeneration == Len(asOf)
Transcripts == asOf[SourceGeneration]
Bounded == SourceGeneration - 1 + tokenRevision < MaxAppend

NoProgress == [generation |-> 0, source |-> 0, revision |-> 0, cursor |-> 0, complete |-> FALSE]
NoRows == [k \in {} |-> 0]
NoPage == [source |-> 0, rows |-> NoRows, complete |-> FALSE]
NoHistory == [at |-> "idle", read |-> 0, after |-> 0, state |-> NoProgress, page |-> NoPage, restarts |-> 0]
NoTally == [at |-> "idle", revision |-> 0, rows |-> NoRows]

\* Some sessions were written before, none was collected.
BackfillInit ==
  /\ \E n \in TokenKey : asOf = <<[k \in TokenKey |-> IF k <= n THEN 1 ELSE 0]>>
  /\ tokenRevision = 0
  /\ tokenRow = [k \in TokenKey |-> [total |-> 0, revision |-> 0]]
  /\ progress = NoProgress
  /\ history = [b \in Backfill |-> NoHistory]
  /\ tally = [o \in Observer |-> NoTally]

----------------------------------------------------------------------------
(* The agents' sessions append to their transcripts. *)

Grow(k) ==
  /\ Bounded
  /\ asOf' = Append(asOf, [Transcripts EXCEPT ![k] = @ + 1])
  /\ UNCHANGED <<tokenRevision, tokenRow, progress, history, tally>>

----------------------------------------------------------------------------
(* The tables. *)

\* Mutant: the last writer wins.
UpsertRowsAlways(stored, rows, revision) ==
  [k \in TokenKey |-> IF k \in DOMAIN rows THEN [total |-> rows[k], revision |-> revision] ELSE stored[k]]

\* upsert_token_at_revision, conditional, of each row.
UpsertRows(stored, rows, revision) ==
  [k \in TokenKey |->
     IF k \in DOMAIN rows /\ ~(stored[k].total > 0 /\ stored[k].revision >= revision)
     THEN [total |-> rows[k], revision |-> revision] ELSE stored[k]]

\* begin_sqlite_token_backfill: a stored scan of the same source goes on.
Restarts(source, again) == progress.source # source \/ (progress.complete /\ again)

Begun(source) ==
  [generation |-> progress.generation + 1, source |-> source, revision |-> tokenRevision + 1,
   cursor |-> 0, complete |-> FALSE]

BeginScan(source, again) ==
  IF Restarts(source, again)
  THEN /\ Bounded
       /\ progress' = Begun(source) /\ tokenRevision' = tokenRevision + 1
  ELSE UNCHANGED <<progress, tokenRevision>>

----------------------------------------------------------------------------
(* backfill_profile *)

EndHistory(b) == history' = [history EXCEPT ![b] = NoHistory]

\* tally_profile_page: the totals of the first keys after the cursor, and
\* whether others are left.
Tallied(keys) == [k \in keys |-> Transcripts[k]]

Page(cursor) ==
  LET after == {k \in TokenKey : k > cursor /\ Transcripts[k] > 0}
      first == {k \in after : Cardinality({j \in after : j < k}) < BackfillRows}
  IN [source |-> SourceGeneration, rows |-> Tallied(first), complete |-> after = first]

StartBackfill(b) ==
  /\ history[b].at = "idle"
  /\ history' = [history EXCEPT ![b].at = "begin", ![b].read = SourceGeneration]
  /\ UNCHANGED <<asOf, tokenRevision, tokenRow, progress, tally>>

BeginProfile(b) ==
  /\ history[b].at = "begin"
  /\ \E again \in BOOLEAN : BeginScan(history[b].read, again)
  /\ IF progress'.complete THEN EndHistory(b)
     ELSE history' = [history EXCEPT ![b] = [NoHistory EXCEPT !.at = "collect", !.state = progress', !.after = progress'.cursor]]
  /\ UNCHANGED <<asOf, tokenRow, tally>>

\* The source is looked at before and after; a page across a change fails.
CollectPage(b) ==
  /\ history[b].at = "collect"
  /\ history' = [history EXCEPT ![b].at = "page", ![b].page = Page(history[b].after)]
  /\ UNCHANGED <<asOf, tokenRevision, tokenRow, progress, tally>>

OtherSource(b) == history[b].page.source # history[b].state.source

\* The scan begins again for the source the page was read from.
RestartGeneration(b) ==
  /\ history[b].at = "page" /\ OtherSource(b)
  /\ IF history[b].restarts = BackfillRestarts
     THEN EndHistory(b) /\ UNCHANGED <<progress, tokenRevision>>
     ELSE /\ BeginScan(history[b].page.source, FALSE)
          /\ history' = [history EXCEPT ![b] =
               [NoHistory EXCEPT !.at = "collect", !.state = progress', !.restarts = history[b].restarts + 1]]
  /\ UNCHANGED <<asOf, tokenRow, tally>>

\* TokenBackfillPage::validate
Valid(state, page) ==
  /\ ~state.complete
  /\ DOMAIN page.rows = {} => page.complete
  /\ \A k \in DOMAIN page.rows : k > state.cursor

\* The last key of the page.
CursorAfter(state, page) ==
  IF DOMAIN page.rows = {} THEN state.cursor
  ELSE CHOOSE k \in DOMAIN page.rows : \A j \in DOMAIN page.rows : j <= k

\* Mutant: the stored cursor is not compared.
ExpectedAlways(state) == TRUE

\* Nobody else has advanced or begun the scan.
IsExpected(state) == progress = state

\* apply_sqlite_token_backfill_page: the rows and the cursor in one
\* transaction, or an error that ends the run.
ApplyScanned(b) ==
  LET state == history[b].state
      page == history[b].page
      next == [state EXCEPT !.cursor = CursorAfter(state, page), !.complete = page.complete]
  IN /\ history[b].at = "page" /\ ~OtherSource(b)
     /\ IF Valid(state, page) /\ IsExpected(state)
        THEN /\ tokenRow' = UpsertRows(tokenRow, page.rows, state.revision)
             /\ progress' = [progress EXCEPT !.cursor = next.cursor, !.complete = next.complete]
             /\ IF next.complete THEN EndHistory(b)
                ELSE history' = [history EXCEPT ![b].at = "collect", ![b].state = next,
                                                ![b].after = next.cursor, ![b].page = NoPage]
        ELSE EndHistory(b) /\ UNCHANGED <<tokenRow, progress>>
     /\ UNCHANGED <<asOf, tokenRevision, tally>>

\* Cancelled, failed, or its process died; what it committed stays.
StopBackfill(b) ==
  /\ history[b].at # "idle"
  /\ EndHistory(b)
  /\ UNCHANGED <<asOf, tokenRevision, tokenRow, progress, tally>>

----------------------------------------------------------------------------
(* collect_and_persist_tokens *)

EndTally(o) == tally' = [tally EXCEPT ![o] = NoTally]

BeginTally(o) ==
  /\ tally[o].at = "idle" /\ Bounded
  /\ tokenRevision' = tokenRevision + 1
  /\ tally' = [tally EXCEPT ![o] = [NoTally EXCEPT !.at = "scan", !.revision = tokenRevision + 1]]
  /\ UNCHANGED <<asOf, tokenRow, progress, history>>

\* The recent days: the keys from some day on.
ScanRecent(o) ==
  /\ tally[o].at = "scan"
  /\ \E since \in TokenKey :
       LET recent == {k \in TokenKey : k >= since /\ Transcripts[k] > 0} IN
         tally' = [tally EXCEPT ![o].at = "store", ![o].rows = Tallied(recent)]
  /\ UNCHANGED <<asOf, tokenRevision, tokenRow, progress, history>>

\* upsert_observed_token_grain, a transaction for each row in their order; a row
\* that conflicts is counted, the others are tried.
StoreTally(o) ==
  LET rows == tally[o].rows IN
    /\ tally[o].at = "store"
    /\ \E k \in DOMAIN rows :
         /\ \A j \in DOMAIN rows : k <= j
         /\ tokenRow' = IF tokenRevision = tally[o].revision
                        THEN UpsertRows(tokenRow, [j \in {k} |-> rows[j]], tally[o].revision) ELSE tokenRow
         /\ tally' = [tally EXCEPT ![o].rows = [j \in DOMAIN rows \ {k} |-> rows[j]]]
    /\ UNCHANGED <<asOf, tokenRevision, progress, history>>

EndObservation(o) ==
  /\ tally[o].at = "scan" \/ (tally[o].at = "store" /\ DOMAIN tally[o].rows = {})
  /\ EndTally(o)
  /\ UNCHANGED <<asOf, tokenRevision, tokenRow, progress, history>>

----------------------------------------------------------------------------
BackfillStep(b) ==
  StartBackfill(b) \/ BeginProfile(b) \/ CollectPage(b) \/ RestartGeneration(b) \/ ApplyScanned(b)

BackfillNext ==
  \/ \E k \in TokenKey : Grow(k)
  \/ \E b \in Backfill : BackfillStep(b) \/ StopBackfill(b)
  \/ \E o \in Observer :
       BeginTally(o) \/ ScanRecent(o) \/ StoreTally(o) \/ EndObservation(o)

BackfillSpec == BackfillInit /\ [][BackfillNext]_backfillVars

----------------------------------------------------------------------------
\* Every variable has its type.
BackfillTypeOK ==
  LET State == [generation : Nat, source : 0..SourceGeneration, revision : 0..tokenRevision,
                cursor : 0..NumTokenKey, complete : BOOLEAN]
      Rows == UNION {[keys -> 1..MaxAppend + 1] : keys \in SUBSET TokenKey}
  IN /\ \A g \in 1..SourceGeneration : asOf[g] \in [TokenKey -> 0..MaxAppend + 1]
     /\ tokenRevision \in 0..MaxAppend
     /\ tokenRow \in [TokenKey -> [total : 0..MaxAppend + 1, revision : 0..tokenRevision]]
     /\ progress \in State
     /\ \A b \in Backfill :
          /\ history[b].at \in {"idle", "begin", "collect", "page"}
          /\ history[b].state \in State /\ history[b].page.rows \in Rows
          /\ history[b].restarts \in 0..BackfillRestarts
     /\ \A o \in Observer :
          tally[o].at \in {"idle", "scan", "store"} /\ tally[o].rows \in Rows

\* A scan that is stored as complete has stored every key of the source it
\* names, with at least the total it had there, although two runs, restarts
\* and observers moved the cursor and the rows in between; and of an
\* incomplete one that holds for the keys behind its cursor.
BehindCursorCovered ==
  progress.source > 0 =>
    \A k \in TokenKey :
      k <= progress.cursor \/ progress.complete => tokenRow[k].total >= asOf[progress.source][k]

\* No total in the store is replaced by one that was read earlier, whichever
\* writer was the slower one.
TotalsNeverShrink ==
  [][\A k \in TokenKey : tokenRow'[k].total >= tokenRow[k].total]_backfillVars
=============================================================================
