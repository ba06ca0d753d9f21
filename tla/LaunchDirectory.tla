--------------------------- MODULE LaunchDirectory ---------------------------
(***************************************************************************)
(* New folders and clones for a launch (launch_directory.rs).  Each        *)
(* operation fills a payload directory in a private staging directory of   *)
(* the parent, and renames it to its destination, which must be free.      *)
(* Users and other programs rename what they like meanwhile; git runs in a *)
(* process group that may outlive its leader.  Directories are objects,    *)
(* held open by the operation, names may come to mean others.              *)
(***************************************************************************)
EXTENDS Integers

CONSTANTS
  NumOp,       \* operations 1..NumOp on one parent and destination
  Clones,      \* which of them are clones
  MaxRename,   \* bound on what users do
  MaxOpFault   \* bound on failed calls

ASSUME LaunchDirectoryAssumption ==
  NumOp \in Nat \ {0} /\ Clones \subseteq 1..NumOp /\ MaxRename \in Nat /\ MaxOpFault \in Nat

VARIABLES
  parent,      \* the parent's entries: dest, aside, and the stage of each operation
  payloadIn,   \* per directory: its entry "payload"
  content,     \* per directory: other entries it holds
  resolves,    \* the parent's path is allowed and leads to the held parent
  op,          \* per operation: [at, stage, payload, opened, git, result, residue]
  renames, opFaults

directoryVars == <<parent, payloadIn, content, resolves, op, renames, opFaults>>

Op == 1..NumOp
None0 == 0
StageOf(a) == 2 * a - 1
PayloadOf(a) == 2 * a
UserDirectory == (2 * NumOp + 1)..(2 * NumOp + MaxRename)
Directory == 1..(2 * NumOp + MaxRename)

NoOp == [at |-> "idle", stage |-> None0, payload |-> None0, opened |-> None0, git |-> FALSE,
         result |-> "none", residue |-> FALSE]

DirectoryInit ==
  /\ parent = [dest |-> None0, aside |-> None0, stage |-> [a \in Op |-> None0]]
  /\ payloadIn = [d \in Directory |-> None0]
  /\ content = [d \in Directory |-> IF d \in UserDirectory THEN {"user"} ELSE {}]
  /\ resolves = TRUE
  /\ op = [a \in Op |-> NoOp]
  /\ renames = 0 /\ opFaults = 0

At(a, at) == op[a].at = at
To(a, at) == op' = [op EXCEPT ![a].at = at]
Empty(d) == content[d] = {} /\ payloadIn[d] = None0
OpFaults == opFaults < MaxOpFault /\ opFaults' = opFaults + 1

\* unlinkat(REMOVEDIR) of the stage's name: nothing that holds an entry.
RemovedStage(a) ==
  IF parent.stage[a] # None0 /\ Empty(parent.stage[a]) THEN [parent EXCEPT !.stage[a] = None0] ELSE parent

\* What is left of a directory's entries after the next one was removed.
RestOf(entries) == IF "whole" \in entries THEN {"part"} ELSE {}

\* The recursion of clear_directory: an entry is removed, or none is left.
ClearsEntry(d) ==
  /\ content[d] # {} /\ content' = [content EXCEPT ![d] = RestOf(@)]
  /\ UNCHANGED op

End(a, result) == op' = [op EXCEPT ![a].at = "ended", ![a].result = result]

----------------------------------------------------------------------------
(* Users and other programs of the owner. *)

UserRenames ==
  /\ renames < MaxRename /\ renames' = renames + 1
  /\ LET new == 2 * NumOp + renames + 1 IN
       \/ parent.dest = None0 /\ parent' = [parent EXCEPT !.dest = new] /\ UNCHANGED <<payloadIn, resolves>>
       \/ /\ parent.dest # None0 /\ parent.aside = None0
          /\ parent' = [parent EXCEPT !.aside = parent.dest, !.dest = None0]
          /\ UNCHANGED <<payloadIn, resolves>>
       \/ \E a \in Op :
            /\ parent.stage[a] # None0 /\ parent' = [parent EXCEPT !.stage[a] = new]
            /\ UNCHANGED <<payloadIn, resolves>>
       \/ \E a \in Op :
            /\ payloadIn[StageOf(a)] # None0 /\ payloadIn' = [payloadIn EXCEPT ![StageOf(a)] = new]
            /\ UNCHANGED <<parent, resolves>>
       \/ resolves' = ~resolves /\ UNCHANGED <<parent, payloadIn>>
  /\ UNCHANGED <<content, op, opFaults>>

----------------------------------------------------------------------------
(* Staging. *)

\* resolve_parent, ensure_target_absent_at
Resolve(a) ==
  /\ At(a, "idle")
  /\ IF resolves /\ parent.dest = None0 THEN To(a, "stage") ELSE End(a, "refused")
  /\ UNCHANGED <<parent, payloadIn, content, resolves, renames, opFaults>>

\* create_staging_directory: a random name, and what it is opened as.
MakeStage(a) ==
  /\ At(a, "stage")
  /\ parent' = [parent EXCEPT !.stage[a] = StageOf(a)]
  /\ To(a, "open")
  /\ UNCHANGED <<payloadIn, content, resolves, renames, opFaults>>

OpenStage(a) ==
  /\ At(a, "open")
  /\ \/ op' = [op EXCEPT ![a].at = "payload", ![a].stage = parent.stage[a]] /\ UNCHANGED <<parent, opFaults>>
     \* PendingStagingName is dropped.
     \/ OpFaults /\ parent' = RemovedStage(a) /\ End(a, "failed")
  /\ UNCHANGED <<payloadIn, content, resolves, renames>>

MakePayload(a) ==
  /\ At(a, "payload")
  /\ \/ payloadIn' = [payloadIn EXCEPT ![op[a].stage] = PayloadOf(a)] /\ To(a, "retain") /\ UNCHANGED opFaults
     \/ OpFaults /\ To(a, "cleanup") /\ UNCHANGED payloadIn
  /\ UNCHANGED <<parent, content, resolves, renames>>

RetainPayload(a) ==
  /\ At(a, "retain")
  /\ \/ /\ op' = [op EXCEPT ![a].payload = payloadIn[op[a].stage],
                            ![a].at = IF a \in Clones THEN "clone" ELSE "publish"]
        /\ UNCHANGED opFaults
     \/ OpFaults /\ To(a, "cleanup")
  /\ UNCHANGED <<parent, payloadIn, content, resolves, renames>>

----------------------------------------------------------------------------
(* run_git_clone, in the held stage; git refuses a directory with entries. *)

StartClone(a) ==
  /\ At(a, "clone") /\ ~op[a].git
  /\ op' = [op EXCEPT ![a].git = TRUE]
  /\ UNCHANGED <<parent, payloadIn, content, resolves, renames, opFaults>>

\* Whatever is left of the group goes on in the object it found.
GitWrites(a) ==
  LET d == payloadIn[op[a].stage] IN
    /\ op[a].git /\ d # None0 /\ content[d] = {}
    /\ content' = [content EXCEPT ![d] = {"part"}]
    /\ UNCHANGED <<parent, payloadIn, resolves, op, renames, opFaults>>

CloneSucceeds(a) ==
  LET d == payloadIn[op[a].stage] IN
    /\ At(a, "clone") /\ op[a].git /\ content[d] = {"part"}
    /\ content' = [content EXCEPT ![d] = {"whole"}]
    /\ op' = [op EXCEPT ![a].at = "publish", ![a].git = FALSE]
    /\ UNCHANGED <<parent, payloadIn, resolves, renames, opFaults>>

\* Mutant: a group that could not be stopped does not forbid the cleanup.
AfterCloneFailed(stopped) == "cleanup"

\* CloneRunError.cleanup_safe
AfterClone(stopped) == IF stopped THEN "cleanup" ELSE "ended"

\* It failed, timed out, or left processes behind its leader.
CloneFails(a) ==
  /\ At(a, "clone") /\ op[a].git /\ OpFaults
  /\ \E stopped \in BOOLEAN :
       op' = [op EXCEPT ![a].at = AfterClone(stopped), ![a].git = ~stopped, ![a].result = "failed"]
  /\ UNCHANGED <<parent, payloadIn, content, resolves, renames>>

----------------------------------------------------------------------------
(* publish_payload *)

\* parent_is_still_authorized
Publish(a) ==
  /\ At(a, "publish")
  /\ To(a, IF resolves THEN "rename" ELSE "cleanup")
  /\ UNCHANGED <<parent, payloadIn, content, resolves, renames, opFaults>>

\* Mutant: a plain rename, which replaces an empty directory, and here any.
FreeAlways == TRUE

\* RenameFlags::NOREPLACE
Free == parent.dest = None0

Rename(a) ==
  /\ At(a, "rename")
  /\ IF Free /\ payloadIn[op[a].stage] # None0
     THEN /\ parent' = [parent EXCEPT !.dest = payloadIn[op[a].stage]]
          /\ payloadIn' = [payloadIn EXCEPT ![op[a].stage] = None0]
          /\ To(a, "check")
     ELSE To(a, "cleanup") /\ UNCHANGED <<parent, payloadIn>>
  /\ UNCHANGED <<content, resolves, renames, opFaults>>

\* The name and the path lead to the held payload.
Check(a) ==
  /\ At(a, "check")
  /\ op' = IF parent.dest = op[a].payload /\ resolves
           THEN [op EXCEPT ![a].at = "cleanup", ![a].result = "created"]
           ELSE [op EXCEPT ![a].at = "empty", ![a].result = "conflict"]
  /\ UNCHANGED <<parent, payloadIn, content, resolves, renames, opFaults>>

\* cleanup_published_directory: entry by entry, under whatever name the payload
\* has by now, and a failure is ignored.
EmptyPublished(a) ==
  /\ At(a, "empty")
  /\ \/ ClearsEntry(op[a].payload) /\ UNCHANGED opFaults
     \/ content[op[a].payload] = {} /\ To(a, "cleanup") /\ UNCHANGED <<content, opFaults>>
     \/ OpFaults /\ To(a, "cleanup") /\ UNCHANGED content
  /\ UNCHANGED <<parent, payloadIn, resolves, renames>>

----------------------------------------------------------------------------
(* cleanup_staging_parts, also when the operation ends well. *)

\* Mutant: what has the payload's name is taken for the payload.
RetainedByName(a) == payloadIn[op[a].stage] # None0

Retained(a) == payloadIn[op[a].stage] = op[a].payload /\ op[a].payload # None0

Cleanup(a) ==
  /\ At(a, "cleanup")
  /\ op' = [op EXCEPT
       ![a].opened = payloadIn[op[a].stage],
       ![a].at = IF content[op[a].stage] # {} THEN "ended"
                 ELSE IF payloadIn[op[a].stage] = None0 THEN "remove"
                 ELSE IF Retained(a) THEN "clear" ELSE "ended"]
  /\ UNCHANGED <<parent, payloadIn, content, resolves, renames, opFaults>>

\* clear_directory of the payload as it was opened, then its name, if that is it.
Clear(a) ==
  \/ /\ At(a, "clear") /\ ClearsEntry(op[a].opened)
     /\ UNCHANGED <<parent, payloadIn, resolves, renames, opFaults>>
  \/ /\ At(a, "clear") /\ content[op[a].opened] = {} /\ To(a, "unlink")
     /\ UNCHANGED <<parent, payloadIn, content, resolves, renames, opFaults>>
  \/ /\ At(a, "unlink")
     /\ IF payloadIn[op[a].stage] = op[a].opened /\ Empty(op[a].opened)
        THEN payloadIn' = [payloadIn EXCEPT ![op[a].stage] = None0] /\ To(a, "remove")
        ELSE To(a, "ended") /\ UNCHANGED payloadIn
     /\ UNCHANGED <<parent, content, resolves, renames, opFaults>>

RemoveStage(a) ==
  /\ At(a, "remove") /\ To(a, "ended")
  /\ parent' = IF parent.stage[a] = op[a].stage THEN RemovedStage(a) ELSE parent
  /\ UNCHANGED <<payloadIn, content, resolves, renames, opFaults>>

\* A call of the cleanup fails: what is left of the stage stays.
CleanupFails(a) ==
  /\ op[a].at \in {"cleanup", "clear", "unlink", "remove"} /\ OpFaults
  /\ op' = [op EXCEPT ![a].at = "ended", ![a].residue = TRUE]
  /\ UNCHANGED <<parent, payloadIn, content, resolves, renames>>

----------------------------------------------------------------------------
OpStep(a) ==
  \/ Resolve(a) \/ MakeStage(a) \/ OpenStage(a) \/ MakePayload(a) \/ RetainPayload(a)
  \/ StartClone(a) \/ GitWrites(a) \/ CloneSucceeds(a) \/ CloneFails(a)
  \/ Publish(a) \/ Rename(a) \/ Check(a) \/ EmptyPublished(a)
  \/ Cleanup(a) \/ Clear(a) \/ RemoveStage(a) \/ CleanupFails(a)

DirectoryNext == UserRenames \/ \E a \in Op : OpStep(a)

DirectorySpec == DirectoryInit /\ [][DirectoryNext]_directoryVars

----------------------------------------------------------------------------
\* Every variable has its type.
DirectoryTypeOK ==
  /\ parent \in [dest : Directory \cup {None0}, aside : Directory \cup {None0},
                 stage : [Op -> Directory \cup {None0}]]
  /\ payloadIn \in [Directory -> Directory \cup {None0}]
  /\ content \in [Directory -> SUBSET {"user", "part", "whole"}]
  /\ \A a \in Op : op[a].stage \in Directory \cup {None0} /\ op[a].payload \in Directory \cup {None0}

\* A clone is under the destination's name whole, or its operation found it moved
\* or exchanged there and answered "conflict" (its emptying may stop half way); no
\* process of its group writes there any more.  While users touch nothing, a
\* staging directory stays as long as such a process lives, and is gone once
\* the operation has ended, unless its payload was never held or a call of the
\* cleanup failed.
DestinationIsWhole ==
  /\ \A a \in Clones : parent.dest = PayloadOf(a) =>
       ~op[a].git /\ (content[parent.dest] = {"whole"} \/ op[a].result = "conflict")
  /\ renames = 0 => \A a \in Op :
       IF op[a].git THEN parent.stage[a] = StageOf(a)
       ELSE At(a, "ended") /\ ~op[a].residue /\ (payloadIn[StageOf(a)] # None0 => op[a].payload # None0) =>
              parent.stage[a] = None0

\* "A concurrent rename can at worst leave that owned directory as residue,
\* never cause an unrelated replacement to be deleted": an operation replaces
\* no entry of the destination's name, and empties or removes only what it has
\* held since it made it, however the names were exchanged.
OthersAreKept ==
  [][renames' = renames =>
       /\ parent.dest # None0 => parent'.dest = parent.dest
       /\ \A d \in Directory :
            content[d] \ {"part"} # {} /\ content'[d] # content[d] => \E a \in Op : op[a].payload = d]_directoryVars
=============================================================================
