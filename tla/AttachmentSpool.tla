--------------------------- MODULE AttachmentSpool ---------------------------
(***************************************************************************)
(* The images of messages on their way to an agent (attachment.rs): they   *)
(* are staged in one cache directory of the user, which every web process  *)
(* fills and clears of old files, their paths are pasted and submitted,    *)
(* and they stay only if the agent has the message.                        *)
(***************************************************************************)
EXTENDS Integers, FiniteSets

CONSTANTS
  Host,        \* web processes of the user
  Mail,        \* messages with images
  HostOf,      \* who delivers each
  NumImage,    \* the images of each
  CacheCap,    \* MAX_CACHE_ENTRIES
  Nobody,
  MaxOld,      \* bound on the files that are there before
  MaxMailFault \* bound on failures and crashes

ASSUME SpoolAssumption ==
  /\ IsFiniteSet(Host) /\ Host # {}
  /\ HostOf \in [Mail -> Host] /\ NumImage \in Nat \ {0} /\ Nobody \notin Mail
  /\ CacheCap \in Nat /\ MaxOld \in Nat /\ MaxMailFault \in Nat

VARIABLES
  cache,      \* the files: <<message, image>>, or <<Nobody, i>> of before
  expired,    \* those older than ATTACHMENT_TTL
  stageLock,  \* per process: CACHE_STAGE_LOCK
  mail,       \* per message: [at, toScan, retained, written, shown]
  mailFaults

spoolVars == <<cache, expired, stageLock, mail, mailFaults>>

Image == 1..NumImage
OldFile == {<<Nobody, i>> : i \in 1..MaxOld}
MailFile(m) == {<<m, i>> : i \in Image}
CacheFile == OldFile \cup UNION {MailFile(m) : m \in Mail}
NoMail == [at |-> "idle", toScan |-> {}, retained |-> 0, written |-> 0, shown |-> FALSE]

SpoolInit ==
  /\ \E n \in 0..MaxOld : cache = {<<Nobody, i>> : i \in 1..n}
  /\ expired \in SUBSET cache
  /\ stageLock = [h \in Host |-> Nobody]
  /\ mail = [m \in Mail |-> NoMail]
  /\ mailFaults = 0

MailAt(m, at) == mail[m].at = at
MailTo(m, at) == mail' = [mail EXCEPT ![m].at = at]
MailFaults == mailFaults < MaxMailFault /\ mailFaults' = mailFaults + 1
Unlock(m) == stageLock' = [stageLock EXCEPT ![HostOf[m]] = Nobody]

----------------------------------------------------------------------------
(* stage *)

\* Mutant: the scan is not serialised.
LockedAnyhow(m) == TRUE

Locked(m) == stageLock[HostOf[m]] = Nobody

StartStage(m) ==
  /\ MailAt(m, "idle") /\ Locked(m)
  /\ stageLock' = [stageLock EXCEPT ![HostOf[m]] = m]
  /\ mail' = [mail EXCEPT ![m] = [NoMail EXCEPT !.at = "scan", !.toScan = cache]]
  /\ UNCHANGED <<cache, expired, mailFaults>>

\* cleanup_and_check_capacity; a file that another process has removed
\* meanwhile ends the staging.
ScanEntry(m) ==
  /\ MailAt(m, "scan")
  /\ \E f \in mail[m].toScan :
       IF f \notin cache THEN MailTo(m, "failed") /\ Unlock(m) /\ UNCHANGED cache
       ELSE /\ UNCHANGED stageLock
            /\ cache' = IF f \in expired THEN cache \ {f} ELSE cache
            /\ mail' = [mail EXCEPT ![m].toScan = @ \ {f},
                                    ![m].retained = IF f \in expired THEN @ ELSE @ + 1]
  /\ UNCHANGED <<expired, mailFaults>>

\* Mutant: what comes in is not counted.
FitsWithout(m) == mail[m].retained <= CacheCap

Fits(m) == mail[m].retained + NumImage <= CacheCap

CheckCapacity(m) ==
  /\ MailAt(m, "scan") /\ mail[m].toScan = {}
  /\ IF Fits(m) THEN MailTo(m, "write") /\ UNCHANGED stageLock
     ELSE MailTo(m, "failed") /\ Unlock(m)
  /\ UNCHANGED <<cache, expired, mailFaults>>

\* write_image, under a name of its own; a failure removes those before it.
WriteImage(m) ==
  LET n == mail[m].written + 1 IN
    /\ MailAt(m, "write")
    /\ \/ /\ cache' = cache \cup {<<m, n>>}
          /\ mail' = [mail EXCEPT ![m].written = n, ![m].at = IF n = NumImage THEN "paste" ELSE @]
          /\ IF n = NumImage THEN Unlock(m) ELSE UNCHANGED stageLock
          /\ UNCHANGED mailFaults
       \/ MailFaults /\ cache' = cache \ MailFile(m) /\ MailTo(m, "failed") /\ Unlock(m)
    /\ UNCHANGED expired

----------------------------------------------------------------------------
(* deliver *)

\* Mutant: dropping the message always removes the files.
DroppedAlways(m, retained) == cache \ MailFile(m)

\* StagedMessage::drop
Dropped(m, retained) == IF retained THEN cache ELSE cache \ MailFile(m)

\* The paste fails, or the pane is gone or another by then.
Paste(m) ==
  /\ MailAt(m, "paste")
  /\ \/ MailTo(m, "submit") /\ UNCHANGED <<cache, mailFaults>>
     \/ MailFaults /\ cache' = Dropped(m, FALSE) /\ MailTo(m, "failed")
  /\ UNCHANGED <<expired, stageLock>>

SubmitMail(m) ==
  /\ MailAt(m, "submit")
  /\ \/ /\ mail' = [mail EXCEPT ![m].at = "sent", ![m].shown = TRUE] /\ cache' = Dropped(m, TRUE)
        /\ UNCHANGED mailFaults
     \* Another pane, or tmux fails, whether or not the Enter went through.
     \/ MailFaults /\ cache' = Dropped(m, FALSE) /\ MailTo(m, "failed")
  /\ UNCHANGED <<expired, stageLock>>

\* A process ends between two steps: no destructor runs.
HostDies(h) ==
  /\ \E m \in Mail : HostOf[m] = h /\ mail[m].at \in {"scan", "write", "paste", "submit"}
  /\ MailFaults
  /\ mail' = [m \in Mail |->
       IF HostOf[m] = h /\ mail[m].at \in {"scan", "write", "paste", "submit"}
       THEN [mail[m] EXCEPT !.at = "dead"] ELSE mail[m]]
  /\ stageLock' = [stageLock EXCEPT ![h] = Nobody]
  /\ UNCHANGED <<cache, expired>>

\* A day passes; deliveries take seconds.
GrowsOld ==
  /\ \A m \in Mail : mail[m].at \notin {"scan", "write", "paste", "submit"}
  /\ \E f \in cache \ expired : expired' = expired \cup {f}
  /\ UNCHANGED <<cache, stageLock, mail, mailFaults>>

MailStep(m) ==
  StartStage(m) \/ ScanEntry(m) \/ CheckCapacity(m) \/ WriteImage(m) \/ Paste(m) \/ SubmitMail(m)

SpoolNext == (\E m \in Mail : MailStep(m)) \/ (\E h \in Host : HostDies(h)) \/ GrowsOld

SpoolSpec == SpoolInit /\ [][SpoolNext]_spoolVars

----------------------------------------------------------------------------
\* Every variable has its type.
SpoolTypeOK ==
  /\ cache \subseteq CacheFile /\ expired \subseteq CacheFile
  /\ \A h \in Host : stageLock[h] \in Mail \cup {Nobody}
  /\ \A m \in Mail :
       /\ mail[m].at \in {"idle", "scan", "write", "paste", "submit", "sent", "failed", "dead"}
       /\ mail[m].toScan \subseteq CacheFile /\ mail[m].written \in 0..NumImage

\* "Files are retained only after tmux accepts the complete literal message":
\* what an agent was shown is there until it is old, although other messages
\* and processes clear the same directory; a message that failed leaves no
\* file; and the directory outgrows its limit by no more than what the other
\* processes stage at the same time.
SpoolKeepsWhatIsShown ==
  /\ \A m \in Mail : mail[m].shown => MailFile(m) \subseteq cache \cup expired
  /\ \A m \in Mail : MailAt(m, "failed") => MailFile(m) \cap cache = {}
  /\ Cardinality(cache \ OldFile) <= CacheCap + NumImage * (Cardinality(Host) - 1)
=============================================================================
