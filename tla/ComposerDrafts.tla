--------------------------- MODULE ComposerDrafts ---------------------------
(***************************************************************************)
(* The draft of one pane's message in the tabs of one browser              *)
(* (web/app.js).  Each tab keeps a draft or a tombstone, with the time it  *)
(* was made; it merges what it knows with localStorage, which is one value *)
(* for all tabs, writes it back, and the others hear of it later.          *)
(* localStorage is read and written in one step.  A text is a number, 0    *)
(* the empty one.  The drafts of other panes share the caps of the maps    *)
(* and of the stored value, and their writes store this one too.           *)
(***************************************************************************)
EXTENDS Integers, Sequences

CONSTANTS
  Tab,
  NumText,
  TombstoneTTL,  \* COMPOSER_DRAFT_TOMBSTONE_TTL_MS
  MaxClock,      \* bound on the clock
  MaxAct         \* bound on what users do, evictions and failed writes together

ASSUME DraftsAssumption ==
  /\ NumText \in Nat /\ TombstoneTTL \in Nat \ {0} /\ MaxClock \in Nat \ {0}
  /\ MaxAct \in Nat

VARIABLES
  clock,       \* Date.now()
  saved,       \* COMPOSER_DRAFT_STORAGE_KEY: [draft, deletedAt]
  known,       \* per tab: composerDrafts and composerDraftTombstones
  stamp,       \* per tab: composerDraftTimestamp and composerDraftSequence
  saveTimer,   \* per tab: a write is due in 250 ms
  heard,       \* per tab: storage events on their way
  aged,        \* history: a merge dropped a tombstone for its age
  draftFaults, \* history: entries evicted by a cap, and failed writes
  place,       \* per tab: the pane is "shown", not shown ("other"), or known to be "gone"
  composer,    \* per tab: the textarea, and whether a send has emptied it
  submission,  \* per tab: the message being sent
  paneEnded, acts

savedVars == <<saved, known, stamp, saveTimer, heard, aged, draftFaults>>
draftVars == <<savedVars, clock, place, composer, submission, paneEnded, acts>>

Text == 0..NumText
NoDraft == [text |-> 0, version |-> 0, updatedAt |-> 0]
Nothing == [draft |-> NoDraft, deletedAt |-> 0]
NoSubmission == [text |-> 0, version |-> 0, cleared |-> FALSE]
Blank == [text |-> 0, emptied |-> FALSE]
Fresh(k) == [at |-> IF k.draft.updatedAt > k.deletedAt THEN k.draft.updatedAt ELSE k.deletedAt,
             sequence |-> k.draft.version]

DraftsInit ==
  /\ clock = 1 /\ saved = Nothing
  /\ known = [t \in Tab |-> Nothing]
  /\ stamp = [t \in Tab |-> [at |-> 1, sequence |-> 0]]
  /\ saveTimer = [t \in Tab |-> FALSE]
  /\ heard = [t \in Tab |-> <<>>]
  /\ aged = FALSE /\ draftFaults = 0
  /\ place = [t \in Tab |-> "shown"]
  /\ composer = [t \in Tab |-> Blank]
  /\ submission = [t \in Tab |-> NoSubmission]
  /\ paneEnded = FALSE /\ acts = 0

Acts == acts + draftFaults < MaxAct /\ acts' = acts + 1
DraftFaults == acts + draftFaults < MaxAct /\ draftFaults' = draftFaults + 1

----------------------------------------------------------------------------
(* Merging. *)

\* composerDraftIsNewer
Newer(d, prior) ==
  \/ d.updatedAt > prior.updatedAt
  \/ /\ d.updatedAt = prior.updatedAt
     /\ \/ d.version > prior.version
        \/ d.version = prior.version /\ d.text > prior.text

\* A tombstone that is as old as the TTL counts for nothing.
Expired(k) == k.deletedAt # 0 /\ k.deletedAt <= clock - TombstoneTTL
Aged(k) == IF Expired(k) THEN [k EXCEPT !.deletedAt = 0] ELSE k

\* The newest of drafts and tombstones, which win ties.
Newest(local, incoming) ==
  LET deletedAt == IF incoming.deletedAt > local.deletedAt THEN incoming.deletedAt ELSE local.deletedAt
      draft == IF incoming.draft.updatedAt > deletedAt /\ Newer(incoming.draft, local.draft)
               THEN incoming.draft ELSE local.draft
  IN IF draft.updatedAt <= deletedAt THEN [draft |-> NoDraft, deletedAt |-> deletedAt]
     ELSE [draft |-> draft, deletedAt |-> 0]

\* Mutant: the tab's own map is kept as a whole.
MergeOwn(local, incoming) == IF local = Nothing THEN incoming ELSE local

\* mergeComposerDraftState
Merge(local, incoming) == Newest(Aged(local), Aged(incoming))

Ages(local, incoming) == aged' = (aged \/ Expired(local) \/ Expired(incoming))

\* syncComposerDraftTimestamp
Synced(s, k) == [s EXCEPT !.at = IF Fresh(k).at > @ THEN Fresh(k).at ELSE @]

\* nextComposerDraftTimestamp
NextAt(s) == IF s.at + 1 > clock THEN s.at + 1 ELSE clock

\* recordComposerDraftTombstone
Forgotten(s) == [draft |-> NoDraft, deletedAt |-> NextAt(s)]
Stamped(s) == [s EXCEPT !.at = NextAt(s)]

\* The other tabs hear what localStorage holds now.
Stores(t, all) ==
  /\ saved' = all
  /\ heard' = IF all = saved THEN heard
              ELSE [u \in Tab |-> IF u = t THEN heard[u] ELSE Append(heard[u], all)]

\* protectedComposerDraftKeys; they are about drafts in memory.
Protected(t) == place[t] = "shown" \/ submission[t] # NoSubmission

\* The entry, or none where a cap makes room for those of other panes.
Pruned(t, all) == {all} \cup IF Protected(t) /\ all.draft # NoDraft THEN {} ELSE {Nothing}

\* saveComposerDraftStorage(true), of a tab that knows k.  What is pruned from the
\* maps is not written, nor is what is beyond the cap of the value; writing may
\* fail, and nobody asks.
Save(t, k, s) ==
  LET all == Merge(k, saved) IN
    /\ stamp' = [stamp EXCEPT ![t] = Synced(s, all)]
    /\ saveTimer' = [saveTimer EXCEPT ![t] = FALSE]
    /\ \/ Stores(t, all) /\ known' = [known EXCEPT ![t] = all] /\ UNCHANGED draftFaults
       \/ /\ DraftFaults
          /\ Stores(t, Nothing) \/ UNCHANGED <<saved, heard>>
          /\ \E rest \in Pruned(t, all) : known' = [known EXCEPT ![t] = rest]

SaveLater(t, k, s) ==
  /\ known' = [known EXCEPT ![t] = k] /\ stamp' = [stamp EXCEPT ![t] = s]
  /\ saveTimer' = [saveTimer EXCEPT ![t] = TRUE]
  /\ UNCHANGED <<saved, heard, aged, draftFaults>>

\* The timer of a write, for this pane's draft or for another's.
Write(t) ==
  /\ Save(t, known[t], stamp[t]) /\ Ages(known[t], saved)
  /\ UNCHANGED <<clock, place, composer, submission, paneEnded, acts>>

\* A newer draft or tombstone of another pane takes the place of this one.
Evict(t) ==
  /\ known[t] # Nothing /\ Nothing \in Pruned(t, known[t])
  /\ DraftFaults
  /\ known' = [known EXCEPT ![t] = Nothing]
  /\ UNCHANGED <<clock, saved, stamp, saveTimer, heard, aged, place, composer, submission, paneEnded, acts>>

----------------------------------------------------------------------------
(* persistBoundComposerDraft, of a textarea with this text. *)

Typed(s, text) == [text |-> text, version |-> s.sequence + 1, updatedAt |-> NextAt(s)]

\* What the tab knows then, and whether that is to be saved.
Persisted(t, text, emptied) ==
  LET s == stamp[t] IN
    IF text = known[t].draft.text \/ (text = 0 /\ emptied)
    THEN [k |-> known[t], s |-> s, save |-> text # 0]
    ELSE IF text = 0 THEN [k |-> Forgotten(s), s |-> Stamped(s), save |-> TRUE]
    ELSE [k |-> [draft |-> Typed(s, text), deletedAt |-> 0],
          s |-> [at |-> NextAt(s), sequence |-> s.sequence + 1], save |-> TRUE]

Persist(t, text, emptied) ==
  LET p == Persisted(t, text, emptied) IN
    IF p.save THEN SaveLater(t, p.k, p.s) ELSE UNCHANGED savedVars

\* Typing, or a selection in the same text.
Type(t) ==
  /\ Acts /\ place[t] = "shown"
  /\ \E text \in Text :
       /\ composer' = [composer EXCEPT ![t] = [text |-> text, emptied |-> @.emptied /\ @.text = text]]
       /\ Persist(t, text, composer[t].emptied /\ composer[t].text = text)
  /\ UNCHANGED <<clock, place, submission, paneEnded>>

\* bindComposerDraftToSelection, and a page that is hidden: the draft is flushed.
Leave(t) ==
  /\ Acts /\ place[t] = "shown"
  /\ \E to \in {"shown", "other"} :
       /\ place' = [place EXCEPT ![t] = to]
       /\ composer' = IF to = "other" THEN [composer EXCEPT ![t] = Blank] ELSE composer
  /\ LET p == Persisted(t, composer[t].text, composer[t].emptied) IN
       IF p.save \/ composer[t].emptied THEN Save(t, p.k, p.s) /\ Ages(p.k, saved) ELSE UNCHANGED savedVars
  /\ UNCHANGED <<clock, submission, paneEnded>>

\* The same, where the pane is selected again.
SelectAgain(t) ==
  /\ Acts /\ place[t] = "other"
  /\ place' = [place EXCEPT ![t] = "shown"]
  /\ composer' = [composer EXCEPT ![t] = [text |-> known[t].draft.text, emptied |-> FALSE]]
  /\ UNCHANGED <<savedVars, clock, submission, paneEnded>>

\* sendComposerMessage; Quick Talk empties the textarea at once.
StartSend(t) ==
  /\ Acts /\ place[t] = "shown"
  /\ submission[t] = NoSubmission /\ composer[t].text # 0
  /\ Persist(t, composer[t].text, FALSE)
  /\ \E cleared \in BOOLEAN :
       /\ submission' = [submission EXCEPT ![t] =
            [text |-> composer[t].text, version |-> known'[t].draft.version, cleared |-> cleared]]
       /\ composer' = IF cleared THEN [composer EXCEPT ![t] = [text |-> 0, emptied |-> TRUE]] ELSE composer
  /\ UNCHANGED <<clock, place, paneEnded>>

\* composerDraftCanClear
CanClear(t) ==
  /\ known[t].draft.version = submission[t].version
  /\ known[t].draft.text = submission[t].text

\* finishComposerDraftSubmission
Sent(t) ==
  /\ submission[t] # NoSubmission
  /\ submission' = [submission EXCEPT ![t] = NoSubmission]
  /\ IF CanClear(t)
     THEN /\ Save(t, Forgotten(stamp[t]), Stamped(stamp[t])) /\ Ages(Nothing, saved)
          /\ composer' = [composer EXCEPT ![t] =
               [text |-> IF @.text = submission[t].text THEN 0 ELSE @.text, emptied |-> FALSE]]
     ELSE /\ composer' = [composer EXCEPT ![t].emptied = FALSE]
          /\ UNCHANGED savedVars
  /\ UNCHANGED <<clock, place, paneEnded, acts>>

\* restoreComposerSubmission
NotSent(t) ==
  /\ submission[t] # NoSubmission
  /\ submission' = [submission EXCEPT ![t] = NoSubmission]
  /\ composer' = IF submission[t].cleared /\ composer[t].emptied
                 THEN [composer EXCEPT ![t] = [text |-> submission[t].text, emptied |-> FALSE]]
                 ELSE [composer EXCEPT ![t].emptied = FALSE]
  /\ UNCHANGED <<savedVars, clock, place, paneEnded, acts>>

----------------------------------------------------------------------------
(* What the tab hears. *)

Learns(t, incoming) ==
  /\ known' = [known EXCEPT ![t] = Merge(@, incoming)]
  /\ stamp' = [stamp EXCEPT ![t] = Synced(@, known'[t])]
  /\ Ages(known[t], incoming)

\* The storage event; the textarea follows the draft.
StorageEvent(t) ==
  /\ heard[t] # <<>>
  /\ heard' = [heard EXCEPT ![t] = Tail(@)]
  /\ Learns(t, Head(heard[t]))
  /\ composer' = IF \/ place[t] # "shown"
                    \/ /\ known'[t].draft.updatedAt = known[t].draft.updatedAt
                       /\ known'[t].draft.text = known[t].draft.text
                 THEN composer
                 ELSE [composer EXCEPT ![t] = [text |-> known'[t].draft.text, emptied |-> FALSE]]
  /\ UNCHANGED <<clock, saved, saveTimer, draftFaults, place, submission, paneEnded, acts>>

PaneEnds ==
  /\ Acts
  /\ ~paneEnded /\ paneEnded' = TRUE
  /\ UNCHANGED <<savedVars, clock, place, composer, submission>>

\* applyOverview merges what is stored; the textarea stays.  Where the pane has
\* gone from the list, its draft is forgotten.
ApplyOverview(t) ==
  /\ LET k == Merge(known[t], saved)
         s == Synced(stamp[t], k)
     IN \/ Learns(t, saved) /\ UNCHANGED <<saved, saveTimer, heard, draftFaults, place, composer>>
        \/ /\ paneEnded
           /\ IF k.draft = NoDraft
              THEN Learns(t, saved) /\ UNCHANGED <<saved, saveTimer, heard, draftFaults>>
              ELSE Save(t, Forgotten(s), Stamped(s)) /\ Ages(known[t], saved)
           /\ place' = [place EXCEPT ![t] = "gone"]
           /\ composer' = [composer EXCEPT ![t] = Blank]
  /\ UNCHANGED <<clock, submission, paneEnded, acts>>

\* The owner's pane.removed, and the deletion of the session by this tab.
PaneRemoved(t) ==
  /\ paneEnded /\ place[t] = "shown"
  /\ IF known[t].draft = NoDraft THEN UNCHANGED savedVars
     ELSE Save(t, Forgotten(stamp[t]), Stamped(stamp[t])) /\ Ages(Nothing, saved)
  /\ place' = [place EXCEPT ![t] = "other"]
  /\ composer' = [composer EXCEPT ![t] = Blank]
  /\ UNCHANGED <<clock, submission, paneEnded, acts>>

\* pagehide flushes a draft, not a timer; the page starts from what is stored.
Reload(t) ==
  /\ Acts
  /\ LET p == Persisted(t, composer[t].text, composer[t].emptied)
         flushes == place[t] = "shown" /\ (p.save \/ composer[t].emptied)
         all == IF flushes THEN Merge(p.k, saved) ELSE Aged(saved)
     IN /\ \/ /\ saved' = IF flushes THEN all ELSE saved
              /\ known' = [known EXCEPT ![t] = all] /\ UNCHANGED draftFaults
           \/ /\ flushes /\ DraftFaults /\ saved' \in {Nothing, saved}
              /\ known' = [known EXCEPT ![t] = Aged(saved')]
        /\ aged' = (aged \/ Expired(saved) \/ (flushes /\ Expired(p.k)))
        /\ stamp' = [stamp EXCEPT ![t] =
             [at |-> IF Fresh(known'[t]).at > clock THEN Fresh(known'[t]).at ELSE clock,
              sequence |-> known'[t].draft.version]]
        /\ heard' = [u \in Tab |-> IF u = t THEN <<>> ELSE IF saved' = saved THEN heard[u] ELSE Append(heard[u], saved')]
  /\ saveTimer' = [saveTimer EXCEPT ![t] = FALSE]
  /\ place' = [place EXCEPT ![t] = IF @ = "gone" THEN "gone" ELSE "other"]
  /\ composer' = [composer EXCEPT ![t] = Blank]
  /\ submission' = [submission EXCEPT ![t] = NoSubmission]
  /\ UNCHANGED <<clock, paneEnded>>

ClockTicks ==
  /\ clock < MaxClock /\ clock' = clock + 1
  /\ UNCHANGED <<savedVars, place, composer, submission, paneEnded, acts>>

DraftsNext ==
  \/ ClockTicks \/ PaneEnds
  \/ \E t \in Tab :
       \/ Type(t) \/ Leave(t) \/ SelectAgain(t) \/ StartSend(t) \/ Sent(t) \/ NotSent(t)
       \/ Write(t) \/ Evict(t) \/ StorageEvent(t) \/ ApplyOverview(t) \/ PaneRemoved(t) \/ Reload(t)

DraftsSpec == DraftsInit /\ [][DraftsNext]_draftVars

----------------------------------------------------------------------------
\* Every variable has its type.
DraftsTypeOK ==
  LET Known == [draft : [text : Text, version : Nat, updatedAt : Nat], deletedAt : Nat] IN
    /\ clock \in 1..MaxClock /\ saved \in Known
    /\ \A t \in Tab :
         /\ known[t] \in Known /\ composer[t] \in [text : Text, emptied : BOOLEAN]
         /\ place[t] \in {"shown", "other", "gone"}
         /\ \A i \in DOMAIN heard[t] : heard[t][i] \in Known

\* Once every write is made and heard of, all tabs know the same draft or
\* tombstone as is stored, whatever they typed, sent, deleted, forgot or reloaded
\* at the same time; unless a tombstone was dropped for its age, a cap evicted
\* the entry, or a write failed.
TabsAgree ==
  ~aged /\ draftFaults = 0 /\ (\A t \in Tab : ~saveTimer[t] /\ heard[t] = <<>>) =>
    \A t \in Tab : known[t] = saved

\* "Tombstones win ties so a stale tab cannot revive a successfully submitted
\* or deleted pane draft": what is stored is never replaced by what is older,
\* and a tombstone not by a draft of its own time, except that a tombstone is
\* dropped once it has reached its TTL, and an entry where a cap evicts it.
NeverOlder ==
  [][LET at(k) == Fresh(k).at IN
       \/ /\ at(saved') >= at(saved)
          /\ at(saved') = at(saved) /\ saved.draft = NoDraft => saved'.draft = NoDraft
       \/ Expired(saved)
       \/ saved' = Nothing /\ draftFaults' > draftFaults]_draftVars
=============================================================================
