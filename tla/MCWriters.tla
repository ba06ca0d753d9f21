------------------------------ MODULE MCWriters ------------------------------
(***************************************************************************)
(* Seven components whose hazard is several writers of one thing, for TLC in *)
(* one run.  They share no state: part says which of them a behaviour is   *)
(* about, the others stay as they start.                                   *)
(***************************************************************************)
EXTENDS TokenBackfill, QuickResume, ComposerDrafts, LaunchDirectory, AttachmentSpool, PulseLive,
        PostgresStore

CONSTANTS h1, h2, m1, m2, m3

\* Two messages of one web process and one of another.
TwoHosts == [m \in Mail |-> IF m = m3 THEN h2 ELSE h1]

VARIABLE part

\* The requests of a behaviour of the store: as many as bring each group to its
\* caps, and a caller to the operations that need an earlier answer.
StoreRequests ==
  [alerts |-> 3, resets |-> 3, receivers |-> 3, reports |-> 3, outbox |-> 4,
   tokens |-> 3, peers |-> 4, usage |-> 3, imports |-> 3]

writersVars ==
  <<part, backfillVars, resumeVars, draftVars, directoryVars, spoolVars, liveVars, postgresVars>>

WritersInit ==
  /\ part \in {"rows", "resume", "drafts", "directory", "spool", "live", "store"}
  /\ BackfillInit /\ ResumeInit /\ DraftsInit /\ DirectoryInit /\ SpoolInit /\ LiveInit
  /\ PostgresInit
  \* One start is enough for a part that rests.
  /\ part # "rows" => Transcripts[NumTokenKey] = 1
  /\ part # "spool" => cache = {}
  /\ part # "store" => group = "resets"

\* Bounds on what happens together: a user's acts and faults of a recovery, what
\* is done to the names and faults of the operations in a directory.
MaxResumeTrouble == 2
MaxDirectoryTrouble == 3

\* Is(m) says that the other parts' variables are unchanged.
Is(m) ==
  /\ part = m /\ UNCHANGED part
  /\ m # "rows" => UNCHANGED backfillVars
  /\ m # "resume" => UNCHANGED resumeVars
  /\ m # "drafts" => UNCHANGED draftVars
  /\ m # "directory" => UNCHANGED directoryVars
  /\ m # "spool" => UNCHANGED spoolVars
  /\ m # "live" => UNCHANGED liveVars
  /\ m # "store" => UNCHANGED postgresVars

WritersNext ==
  \/ part = "rows" /\ BackfillNext /\ Is("rows")
  \/ part = "resume" /\ ResumeNext /\ Is("resume") /\ userActs' + runFaults' <= MaxResumeTrouble
  \/ part = "drafts" /\ DraftsNext /\ Is("drafts")
  \/ part = "directory" /\ DirectoryNext /\ Is("directory") /\ renames' + opFaults' <= MaxDirectoryTrouble
  \/ part = "spool" /\ SpoolNext /\ Is("spool")
  \/ part = "live" /\ LiveNext /\ Is("live")
  \/ part = "store" /\ PostgresNext /\ Is("store")

WritersSpec == WritersInit /\ [][WritersNext]_writersVars

----------------------------------------------------------------------------
\* The variables of every part have their types; a reader behind the backfill's
\* cursor misses nothing; of the recovery, one process runs the units at a time
\* and what reported success has launched every agent; tabs at rest agree, unless
\* a record was dropped for age, room or a failed write; a clone at its destination
\* is whole or reported as a conflict.
WritersSafe ==
  /\ part = "rows" => BackfillTypeOK /\ BehindCursorCovered
  /\ part = "resume" => ResumeTypeOK /\ OneRecovery /\ UnitsAreWhole
  /\ part = "drafts" => DraftsTypeOK /\ TabsAgree
  /\ part = "directory" => DirectoryTypeOK /\ DestinationIsWhole
  /\ part = "spool" => SpoolTypeOK
  /\ part = "live" => LiveTypeOK

\* The operations of the PostgreSQL store keep their contract (StoreSpec),
\* whatever the interleaving of their statements.
StoreContract == StoreSpec

\* The caps and the uniqueness of what they store hold (CapsHold).
StoreCapsHold == part = "store" => CapsHold
=============================================================================
