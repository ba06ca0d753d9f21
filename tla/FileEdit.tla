------------------------------ MODULE FileEdit ------------------------------
(***************************************************************************)
(* The conditional write of a project file (workspace.rs write_file): the  *)
(* new text is prepared under a hidden name, the names are exchanged, and  *)
(* the displaced file is verified or put back, while editors that know     *)
(* nothing of atmux write the same file.                                   *)
(*                                                                         *)
(* One request: requests of the process are serialized by FILE_EDIT_GATE.  *)
(* A content is a number; the editors' contents are numbered as written,   *)
(* from the opened one, 0.  Inodes are reused once nothing refers to them. *)
(***************************************************************************)
EXTENDS Integers, FiniteSets

CONSTANTS
  Inode,        \* inodes of the directory
  MaxRestore,   \* MAX_RECOVERY_EXCHANGES
  MaxEdit       \* bound on the editors' writes

Requested == -1  \* the content of the request
Absent == "no file"

ASSUME FileAssumption == Absent \notin Inode /\ MaxRestore \in Nat /\ MaxEdit \in Nat

VARIABLES
  step,      \* progress of write_file_blocking
  names,     \* the names: [target, temp] -> inode, or Absent
  text,      \* content of an inode
  original,  \* inode opened at the start and held open
  ours,      \* inode of the prepared file, held open
  restore,   \* restore_after_failed_exchange: [expected, candidate, round]
  newest,    \* the editors' newest content (observer)
  aliased    \* an inode that only restore remembers was reused (observer)

editVars == <<step, names, text, original, ours, restore, newest, aliased>>

Ended == {"ok", "conflict", "busy", "crashed"}
NoRestore == [expected |-> Absent, candidate |-> Absent, round |-> 0]

FileInit ==
  /\ step = "open" /\ newest = 0
  /\ \E i \in Inode : names = [target |-> i, temp |-> Absent]
  /\ text = [i \in Inode |-> 0]
  /\ original = Absent /\ ours = Absent /\ restore = NoRestore /\ aliased = FALSE

----------------------------------------------------------------------------
Unused == Inode \ ({names.target, names.temp} \cup
                 (IF step \in Ended THEN {} ELSE {original, ours}))

\* open_edit_target and the expected hash, then create_edit_temp and
\* prepare_temporary.
Prepare ==
  /\ step = "open"
  /\ IF text[names.target] # 0
     THEN step' = "conflict" /\ UNCHANGED <<names, text, original, ours>>
     ELSE \E i \in Unused :
       /\ original' = names.target /\ ours' = i
       /\ text' = [text EXCEPT ![i] = Requested]
       /\ names' = [names EXCEPT !.temp = i]
       /\ step' = "prepared"
  /\ UNCHANGED <<restore, newest, aliased>>

Restoring == step \in {"restore", "candidate", "displaced"}

Unchanged(i) == i = original /\ text[i] = 0

\* revalidate_edit_path; a conflict removes the temporary file.
Revalidate ==
  /\ step = "prepared"
  /\ IF Unchanged(names.target)
     THEN step' = "checked" /\ UNCHANGED names
     ELSE step' = "conflict" /\ names' = [names EXCEPT !.temp = Absent]
  /\ UNCHANGED <<text, original, ours, restore, newest, aliased>>

Swapped == [target |-> names.temp, temp |-> names.target]

Exchange ==
  /\ step = "checked" /\ step' = "exchanged" /\ names' = Swapped
  /\ UNCHANGED <<text, original, ours, restore, newest, aliased>>

\* Mutant: what was checked before the exchange is not checked again.
DisplacedAny == TRUE

\* named_file_matches of the temporary name.
DisplacedMatches == Unchanged(names.temp)

Verify ==
  /\ step = "exchanged"
  /\ IF DisplacedMatches
     THEN step' = "accepted" /\ UNCHANGED restore
     ELSE step' = "restore" /\ restore' = [NoRestore EXCEPT !.expected = ours]
  /\ UNCHANGED <<names, text, original, ours, newest, aliased>>

\* One round of restore_after_failed_exchange: inspect, exchange, inspect.
Candidate ==
  /\ step = "restore"
  /\ IF restore.round = MaxRestore
     THEN step' = "busy" /\ UNCHANGED restore
     ELSE step' = "candidate" /\ restore' = [restore EXCEPT !.candidate = names.temp]
  /\ UNCHANGED <<names, text, original, ours, newest, aliased>>

PutBack ==
  /\ step = "candidate" /\ step' = "displaced" /\ names' = Swapped
  /\ UNCHANGED <<text, original, ours, restore, newest, aliased>>

\* Identity is device, inode and file type; the two files that are compared are
\* not held open.
Restored == names.temp = restore.expected

Inspect ==
  /\ step = "displaced"
  /\ IF Restored
     THEN step' = "undone" /\ UNCHANGED restore
     ELSE /\ step' = "restore"
          /\ restore' = [expected |-> restore.candidate, candidate |-> Absent,
                         round |-> restore.round + 1]
  /\ UNCHANGED <<names, text, original, ours, newest, aliased>>

\* remove_and_sync
RemoveTemp ==
  /\ step \in {"accepted", "undone"}
  /\ names' = [names EXCEPT !.temp = Absent]
  /\ step' = IF step = "accepted" THEN "ok" ELSE "conflict"
  /\ UNCHANGED <<text, original, ours, restore, newest, aliased>>

RequestDies ==
  /\ step \notin Ended /\ step' = "crashed"
  /\ UNCHANGED <<names, text, original, ours, restore, newest, aliased>>

(* Editors                                                                 *)

\* An atomic replacement: a complete new file is renamed over the target.
Replace ==
  /\ newest < MaxEdit /\ newest' = newest + 1
  /\ \E i \in Unused :
       /\ text' = [text EXCEPT ![i] = newest + 1]
       /\ names' = [names EXCEPT !.target = i]
       /\ aliased' = (aliased \/ (Restoring /\ i \in {restore.expected, restore.candidate}))
  /\ UNCHANGED <<step, original, ours, restore>>

\* A write into the file itself, until its name is exchanged: past that the
\* editor has to keep off.
Overwrite ==
  /\ step \in {"open", "prepared", "checked"}
  /\ newest < MaxEdit /\ newest' = newest + 1
  /\ text' = [text EXCEPT ![names.target] = newest + 1]
  /\ UNCHANGED <<step, names, original, ours, restore, aliased>>

FileNext ==
  \/ Prepare \/ Revalidate \/ Exchange \/ Verify
  \/ Candidate \/ PutBack \/ Inspect \/ RemoveTemp \/ RequestDies
  \/ Replace \/ Overwrite

FileSpec == FileInit /\ [][FileNext]_editVars

----------------------------------------------------------------------------
FileTypeOK ==
  /\ step \in Ended \cup {"open", "prepared", "checked", "exchanged", "accepted",
                          "restore", "candidate", "displaced", "undone"}
  /\ names.target \in Inode /\ names.temp \in Inode \cup {Absent}
  /\ text \in [Inode -> Requested..MaxEdit] /\ newest \in 0..MaxEdit
  /\ restore.round \in 0..MaxRestore

NamedText == {text[i] : i \in {names.target, names.temp} \ {Absent}}

\* What an editor wrote last is never lost: it is under one of the two names
\* at every moment, a crash included, unless the request replaced exactly the
\* text it expected, or an inode number that restore compares was given to
\* another file meanwhile.
NewestKept ==
  newest \in NamedText \/ aliased \/ (newest = 0 /\ step \in {"accepted", "ok", "crashed"})
=============================================================================
