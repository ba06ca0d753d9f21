---------------------------- MODULE WritersProofs ----------------------------
(* Proofs about four components whose hazard is several writers of one     *)
(* thing: the drafts of a browser's tabs, the launch directories, the      *)
(* cache of the images of messages, and the quick recovery of tmux         *)
(* sessions.  They share no state, and each theorem is about the           *)
(* specification of one of them, for every value of its constants.  The    *)
(* last two are about all the components of MCWriters, with those of       *)
(* PulseProofs.                                                            *)
EXTENDS MCWriters, PulseProofs, SequenceTheorems,
        FiniteSetTheorems, FunctionTheorems, WellFoundedInduction, TLAPS

-----------------------------------------------------------------------------
(* Drafts.  What a tab knows is a draft or a tombstone, and these are in a *)
(* total order in which merging takes the greater.                         *)

Draft == [text : Text, version : Nat, updatedAt : Nat]
Known == [draft : Draft, deletedAt : Nat]

\* A tombstone, or a draft without one.
Normal(k) == k \in Known /\ (k.draft = NoDraft \/ (k.deletedAt = 0 /\ k.draft.updatedAt > 0))

Time(k) == Fresh(k).at

AtMost(k, l) ==
  \/ Time(k) < Time(l)
  \/ /\ Time(k) = Time(l)
     /\ \/ l.draft = NoDraft
        \/ /\ k.draft # NoDraft
           /\ \/ k.draft.version < l.draft.version
              \/ k.draft.version = l.draft.version /\ k.draft.text <= l.draft.text

LEMMA NormalForms ==
  ASSUME NEW k, Normal(k)
  PROVE  /\ k.draft.text \in Int /\ k.draft.version \in Nat /\ k.draft.updatedAt \in Nat
         /\ k.deletedAt \in Nat /\ Time(k) \in Nat
         /\ Time(k) = IF k.draft = NoDraft THEN k.deletedAt ELSE k.draft.updatedAt
         /\ k.draft = NoDraft => k.draft.updatedAt = 0
         /\ k.draft # NoDraft => k.deletedAt = 0 /\ k.draft.updatedAt > 0
  BY DraftsAssumption DEF Normal, Known, Draft, Text, Time, Fresh, NoDraft

LEMMA NormalRecords ==
  ASSUME NEW k, NEW l, Normal(k), Normal(l), k.deletedAt = l.deletedAt,
         k.draft.text = l.draft.text, k.draft.version = l.draft.version,
         k.draft.updatedAt = l.draft.updatedAt
  PROVE  k = l
  BY DEF Normal, Known, Draft

LEMMA NothingIsNormal ==
  Normal(Nothing) /\ Nothing.draft = NoDraft
  BY DraftsAssumption DEF Normal, Nothing, NoDraft, Known, Draft, Text

LEMMA OrderLaws ==
  ASSUME NEW k, NEW l, NEW m, Normal(k), Normal(l), Normal(m)
  PROVE  /\ AtMost(k, k) /\ (AtMost(k, l) \/ AtMost(l, k))
         /\ AtMost(k, l) /\ AtMost(l, m) => AtMost(k, m)
  <1>1. AtMost(k, k) /\ (AtMost(k, l) \/ AtMost(l, k))
    BY NormalForms DEF AtMost
  <1>2. AtMost(k, l) /\ AtMost(l, m) => AtMost(k, m)
    BY NormalForms DEF AtMost
  <1> QED
    BY <1>1, <1>2

LEMMA OrderIsAntisymmetric ==
  ASSUME NEW k, NEW l, Normal(k), Normal(l), AtMost(k, l), AtMost(l, k)
  PROVE  k = l
  <1>1. Time(k) = Time(l) /\ (k.draft = NoDraft) = (l.draft = NoDraft)
    BY NormalForms DEF AtMost
  <1>2. CASE k.draft = NoDraft
    BY <1>1, <1>2, NormalForms, NormalRecords
  <1>3. CASE k.draft # NoDraft
    <2>1. k.draft.version = l.draft.version /\ k.draft.text = l.draft.text
      BY <1>1, <1>3, NormalForms DEF AtMost
    <2>2. k.draft.updatedAt = l.draft.updatedAt /\ k.deletedAt = l.deletedAt
      BY <1>1, <1>3, NormalForms
    <2> QED
      BY <2>1, <2>2, NormalRecords
  <1> QED
    BY <1>2, <1>3

\* mergeComposerDraftState, but for the age, takes the greater of two.
LEMMA NewestIsGreater ==
  ASSUME NEW k, NEW l, Normal(k), Normal(l)
  PROVE  Newest(k, l) \in {k, l} /\ AtMost(k, Newest(k, l)) /\ AtMost(l, Newest(k, l))
  <1> USE NormalForms
  <1>1. NoDraft.updatedAt = 0 /\ NoDraft.text = 0 /\ NoDraft.version = 0
    BY DEF NoDraft
  <1>a. /\ k = [draft |-> k.draft, deletedAt |-> k.deletedAt]
        /\ l = [draft |-> l.draft, deletedAt |-> l.deletedAt]
    BY DEF Normal, Known
  <1>2. CASE k.draft = NoDraft /\ l.draft = NoDraft
    <2>1. Newest(k, l) = [draft |-> NoDraft,
                         deletedAt |-> IF l.deletedAt > k.deletedAt THEN l.deletedAt ELSE k.deletedAt]
      BY <1>1, <1>2 DEF Newest
    <2>2. Newest(k, l) = IF l.deletedAt > k.deletedAt THEN l ELSE k
      BY <2>1, <1>2, <1>a
    <2> QED
      BY <2>2, <1>2 DEF AtMost
  <1>3. CASE k.draft = NoDraft /\ l.draft # NoDraft
    <2>1. Newest(k, l) = IF l.draft.updatedAt > k.deletedAt THEN l ELSE k
      BY <1>1, <1>3, <1>a DEF Newest, Newer
    <2> QED
      BY <2>1, <1>3 DEF AtMost
  <1>4. CASE k.draft # NoDraft /\ l.draft = NoDraft
    <2>1. Newest(k, l) = IF k.draft.updatedAt <= l.deletedAt THEN l ELSE k
      BY <1>1, <1>4, <1>a DEF Newest, Newer
    <2> QED
      BY <2>1, <1>4 DEF AtMost
  <1>5. CASE k.draft # NoDraft /\ l.draft # NoDraft
    <2>1. Newest(k, l) = IF Newer(l.draft, k.draft) THEN l ELSE k
      BY <1>1, <1>5, <1>a DEF Newest
    <2> QED
      BY <2>1, <1>5 DEF AtMost, Newer
  <1> QED
    BY <1>2, <1>3, <1>4, <1>5

LEMMA NewestAbsorbs ==
  ASSUME NEW k, NEW l, NEW m, Normal(k), Normal(l), Normal(m), AtMost(k, m), AtMost(l, m)
  PROVE  /\ Normal(Newest(k, l)) /\ AtMost(Newest(k, l), m)
         /\ k = m \/ l = m => Newest(k, l) = m
  <1>1. Newest(k, l) \in {k, l} /\ AtMost(k, Newest(k, l)) /\ AtMost(l, Newest(k, l))
    BY NewestIsGreater
  <1>2. Normal(Newest(k, l)) /\ AtMost(Newest(k, l), m)
    BY <1>1
  <1> QED
    BY <1>1, <1>2, OrderIsAntisymmetric

\* A tombstone that is too old counts for nothing, everything else for itself.
LEMMA AgingIsNormal ==
  ASSUME NEW k, Normal(k)
  PROVE  Normal(Aged(k)) /\ (~Expired(k) => Aged(k) = k)
  <1>1. CASE Expired(k)
    <2>1. Aged(k) = [k EXCEPT !.deletedAt = 0] /\ k.draft = NoDraft /\ k \in Known
      BY <1>1, NormalForms DEF Aged, Expired, Normal
    <2> QED
      BY <1>1, <2>1 DEF Normal, Known
  <1>2. CASE ~Expired(k)
    BY <1>2 DEF Aged
  <1> QED
    BY <1>1, <1>2

LEMMA Merged ==
  ASSUME NEW k, NEW l, Normal(k), Normal(l)
  PROVE  /\ Normal(Merge(k, l)) /\ Merge(k, l) \in Known
         /\ ~Expired(l) => AtMost(l, Merge(k, l))
         /\ ~Expired(k) /\ ~Expired(l) => Merge(k, l) = Newest(k, l)
  <1> DEFINE a == Aged(k)
             b == Aged(l)
  <1>1. Normal(a) /\ Normal(b) /\ (~Expired(k) => a = k) /\ (~Expired(l) => b = l)
    BY AgingIsNormal
  <1>2. Merge(k, l) = Newest(a, b)
    BY DEF Merge
  <1> HIDE DEF a, b
  <1>3. Newest(a, b) \in {a, b} /\ AtMost(b, Newest(a, b))
    BY <1>1, NewestIsGreater
  <1>4. Normal(Merge(k, l)) /\ Merge(k, l) \in Known
    BY <1>1, <1>2, <1>3 DEF Normal
  <1> QED
    BY <1>1, <1>2, <1>3, <1>4

\* What holds of the tabs.  While no tombstone was dropped for its age, no entry
\* evicted and no write failed, a tab without a write due knows no more than what
\* is stored, and will know that once it has heard everything.
Stamp == [at : Nat, sequence : Nat]
Composers == [Tab -> [text : Text, emptied : BOOLEAN]]
Submissions == [Tab -> [text : Text, version : Nat, cleared : BOOLEAN]]
Places == [Tab -> {"shown", "other", "gone"}]

\* What is stored, known and on its way.
StoreRecords ==
  /\ Normal(saved) /\ known \in [Tab -> Known] /\ \A t \in Tab : Normal(known[t])
  /\ stamp \in [Tab -> Stamp] /\ saveTimer \in [Tab -> BOOLEAN]
  /\ heard \in [Tab -> Seq(Known)]
  /\ \A t \in Tab : \A i \in 1..Len(heard[t]) : Normal(heard[t][i])
  /\ aged \in BOOLEAN /\ draftFaults \in Nat

DraftRecords ==
  /\ StoreRecords /\ clock \in 1..MaxClock
  /\ composer \in Composers /\ submission \in Submissions /\ place \in Places

Hearing(t) ==
  /\ saveTimer[t] \/ AtMost(known[t], saved)
  /\ \A i \in 1..Len(heard[t]) : AtMost(heard[t][i], saved)
  /\ saveTimer[t] \/ known[t] = saved \/ (heard[t] # <<>> /\ heard[t][Len(heard[t])] = saved)

Undropped == ~aged /\ draftFaults = 0

\* What the tabs know and hear fits, whatever the rest does.
KnownFits == StoreRecords /\ (Undropped => \A t \in Tab : Hearing(t))

DraftsInv == DraftRecords /\ KnownFits

\* What is stored becomes no older, but for a tombstone's age and the caps.
StoredGrows ==
  AtMost(saved, saved') \/ Expired(saved) \/ (saved' = Nothing /\ draftFaults' > draftFaults)

LEMMA TextFacts ==
  /\ 0 \in Text /\ NoDraft \in Draft /\ Nothing \in Known /\ Normal(Nothing) /\ <<>> \in Seq(Known)
  /\ NoSubmission \in [text : Text, version : Nat, cleared : BOOLEAN]
  /\ Blank \in [text : Text, emptied : BOOLEAN]
  BY DraftsAssumption, NothingIsNormal DEF Text, NoDraft, Draft, Nothing, Known, NoSubmission, Blank

\* What a tab makes of its own draft is a draft or a tombstone, and a new one.
LEMMA NewTombstone ==
  ASSUME clock \in Nat, NEW s \in Stamp
  PROVE  /\ Normal(Forgotten(s)) /\ Stamped(s) \in Stamp /\ NextAt(s) \in Nat /\ NextAt(s) > 0
         /\ ~Expired(Forgotten(s))
  <1>1. NextAt(s) \in Nat /\ NextAt(s) > 0 /\ NextAt(s) >= clock
    BY DEF NextAt, Stamp
  <1>2. Normal(Forgotten(s)) /\ Stamped(s) \in Stamp
    BY <1>1, TextFacts DEF Forgotten, Stamped, Normal, Known, Stamp
  <1>3. ~Expired(Forgotten(s))
    BY <1>1, DraftsAssumption DEF Forgotten, Expired
  <1> QED
    BY <1>1, <1>2, <1>3

LEMMA OwnDrafts ==
  ASSUME DraftRecords, NEW t \in Tab
  PROVE  /\ stamp[t] \in Stamp /\ clock \in Nat /\ Normal(known[t])
         /\ \A text \in Text, emptied \in BOOLEAN :
              LET p == Persisted(t, text, emptied) IN
                Normal(p.k) /\ p.s \in Stamp /\ p.save \in BOOLEAN
  <1>1. /\ stamp[t] \in Stamp /\ stamp[t].at \in Nat /\ stamp[t].sequence \in Nat /\ clock \in Nat
        /\ Normal(known[t])
    BY DraftsAssumption DEF DraftRecords, StoreRecords, Stamp
  <1>2. /\ NextAt(stamp[t]) \in Nat /\ NextAt(stamp[t]) > 0
        /\ Normal(Forgotten(stamp[t])) /\ Stamped(stamp[t]) \in Stamp
    BY <1>1, NewTombstone
  <1>4. ASSUME NEW text \in Text
        PROVE  Normal([draft |-> Typed(stamp[t], text), deletedAt |-> 0])
    BY <1>1, <1>2 DEF Typed, Normal, Known, Draft
  <1>5. [at |-> NextAt(stamp[t]), sequence |-> stamp[t].sequence + 1] \in Stamp
    BY <1>1, <1>2 DEF Stamp
  <1>6. ASSUME NEW text \in Text, NEW emptied \in BOOLEAN
        PROVE  LET p == Persisted(t, text, emptied) IN
                 Normal(p.k) /\ p.s \in Stamp /\ p.save \in BOOLEAN
    BY <1>1, <1>2, <1>4, <1>5, <1>6 DEF Persisted
  <1> QED
    BY <1>1, <1>6

LEMMA SyncedStamp ==
  ASSUME NEW s \in Stamp, NEW k, Normal(k)
  PROVE  Synced(s, k) \in Stamp
  BY NormalForms DEF Synced, Stamp, Time

\* A write to localStorage of something, after which the others are to hear it.
WritesOut(t, all) ==
  /\ saved' = all /\ Normal(all) /\ heard'[t] \in {heard[t], <<>>} /\ heard' \in [Tab -> Seq(Known)]
  /\ \A u \in Tab \ {t} : heard'[u] = IF all = saved THEN heard[u] ELSE Append(heard[u], all)

\* An event is delivered, or one is appended.
LEMMA HeardIsNormal ==
  ASSUME StoreRecords, NEW t \in Tab, NEW all, WritesOut(t, all)
  PROVE  \A u \in Tab : \A i \in 1..Len(heard'[u]) : Normal(heard'[u][i])
  <1> USE DEF StoreRecords
  <1>1. ASSUME NEW u \in Tab \ {t}, all # saved
        PROVE  \A i \in 1..Len(heard'[u]) : Normal(heard'[u][i])
    <2>1. heard[u] \in Seq(Known) /\ heard'[u] = Append(heard[u], all) /\ Normal(all)
      BY <1>1 DEF WritesOut
    <2> QED
      BY <2>1
  <1>2. ASSUME NEW u \in Tab, heard'[u] \in {heard[u], <<>>}
        PROVE  \A i \in 1..Len(heard'[u]) : Normal(heard'[u][i])
    BY <1>2, EmptySeq
  <1>3. /\ heard'[t] \in {heard[t], <<>>}
        /\ \A u \in Tab \ {t} : all = saved => heard'[u] = heard[u]
    BY DEF WritesOut
  <1> QED
    BY <1>1, <1>2, <1>3

LEMMA WriteIsHeard ==
  ASSUME StoreRecords, \A u \in Tab : Hearing(u), NEW t \in Tab, NEW all, WritesOut(t, all), AtMost(saved, all),
         known'[t] = all, \A u \in Tab \ {t} : known'[u] = known[u] /\ saveTimer'[u] = saveTimer[u]
  PROVE  \A u \in Tab : Hearing(u)'
  <1> USE DEF StoreRecords
  <1>1. /\ saved' = all /\ AtMost(all, all)
        /\ \A k : Normal(k) /\ AtMost(k, saved) => AtMost(k, all)
    BY OrderLaws DEF WritesOut
  <1>4. \A i \in 1..Len(heard'[t]) : AtMost(heard'[t][i], all)
    BY <1>1 DEF WritesOut, Hearing
  <1>5. ASSUME NEW u \in Tab \ {t}
        PROVE  Hearing(u)'
    <2>1. heard[u] \in Seq(Known) /\ Normal(known[u])
      OBVIOUS
    <2>2. CASE all = saved
      <3>1. heard'[u] = heard[u] /\ known'[u] = known[u] /\ saveTimer'[u] = saveTimer[u] /\ saved' = saved
        BY <2>2, <1>1 DEF WritesOut
      <3> QED
        BY <3>1 DEF Hearing
    <2>3. CASE all # saved
      <3>1. /\ heard'[u] = Append(heard[u], all) /\ Len(heard'[u]) = Len(heard[u]) + 1
            /\ heard'[u][Len(heard'[u])] = all /\ heard'[u] # <<>>
            /\ \A i \in 1..Len(heard[u]) : heard'[u][i] = heard[u][i]
        <4>1. heard'[u] = Append(heard[u], all) /\ all \in Known
          BY <2>3 DEF WritesOut, Normal
        <4> QED
          BY ONLY <2>1, <4>1, AppendProperties
      <3>2. \A i \in 1..Len(heard'[u]) : AtMost(heard'[u][i], all)
        BY <3>1, <2>1, <1>1 DEF Hearing
      <3>3. saveTimer'[u] \/ AtMost(known'[u], all)
        BY <2>1, <1>1 DEF Hearing
      <3> QED
        BY <3>1, <3>2, <3>3, <1>1 DEF Hearing
    <2> QED
      BY <2>2, <2>3
  <1>6. Hearing(t)'
    BY <1>1, <1>4 DEF Hearing
  <1> QED
    BY <1>5, <1>6


LEMMA StoringWrites ==
  ASSUME StoreRecords, NEW t \in Tab, NEW all, Normal(all), Stores(t, all)
  PROVE  WritesOut(t, all)
  <1>1. heard \in [Tab -> Seq(Known)] /\ all \in Known
    BY DEF StoreRecords, Normal
  <1>2. heard' \in [Tab -> Seq(Known)] /\ heard'[t] = heard[t]
        /\ \A u \in Tab \ {t} : heard'[u] = IF all = saved THEN heard[u] ELSE Append(heard[u], all)
    BY <1>1 DEF Stores
  <1> QED
    BY <1>2 DEF Stores, WritesOut

LEMMA SaveKeeps ==
  ASSUME DraftsInv, NEW t \in Tab, NEW k, NEW s \in Stamp, NEW e, Normal(k), Save(t, k, s),
         Ages(e, saved), Expired(k) => Expired(e)
  PROVE  KnownFits' /\ StoredGrows
  <1> DEFINE all == Merge(k, saved)
  <1> USE DEF DraftsInv, KnownFits
  <1>1. Normal(all) /\ all \in Known /\ (~Expired(saved) => AtMost(saved, all)) /\ Normal(saved)
    BY Merged DEF StoreRecords
  <1>2. aged' \in BOOLEAN /\ (~aged' => ~aged /\ ~Expired(k) /\ ~Expired(saved))
    BY DEF Ages
  <1>3. /\ stamp' = [stamp EXCEPT ![t] = Synced(s, all)] /\ saveTimer' = [saveTimer EXCEPT ![t] = FALSE]
        /\ \/ Stores(t, all) /\ known' = [known EXCEPT ![t] = all] /\ UNCHANGED draftFaults
           \/ /\ DraftFaults
              /\ Stores(t, Nothing) \/ UNCHANGED <<saved, heard>>
              /\ \E rest \in Pruned(t, all) : known' = [known EXCEPT ![t] = rest]
    BY DEF Save
  <1> HIDE DEF all
  <1>4. /\ stamp' \in [Tab -> Stamp] /\ saveTimer' \in [Tab -> BOOLEAN]
        /\ \A u \in Tab \ {t} : saveTimer'[u] = saveTimer[u]
    BY <1>1, <1>3, SyncedStamp DEF StoreRecords
  <1>5. CASE Stores(t, all) /\ known' = [known EXCEPT ![t] = all] /\ UNCHANGED draftFaults
    <2>1. WritesOut(t, all)
      BY <1>1, <1>5, StoringWrites
    <2>2. /\ known' \in [Tab -> Known] /\ known'[t] = all /\ \A u \in Tab \ {t} : known'[u] = known[u]
          /\ \A u \in Tab : Normal(known'[u])
      BY <1>1, <1>5 DEF StoreRecords
    <2>3. \A u \in Tab : \A i \in 1..Len(heard'[u]) : Normal(heard'[u][i])
      BY <2>1, HeardIsNormal
    <2>4. StoreRecords'
      BY <1>1, <1>2, <1>4, <1>5, <2>1, <2>2, <2>3 DEF StoreRecords, WritesOut
    <2>5. ASSUME Undropped'
          PROVE  \A u \in Tab : Hearing(u)'
      <3>1. Undropped /\ AtMost(saved, all)
        BY <1>1, <1>2, <1>5, <2>5 DEF Undropped
      <3> QED
        BY <1>4, <2>1, <2>2, <3>1, WriteIsHeard
    <2>6. StoredGrows
      BY <1>1, <2>1 DEF StoredGrows, WritesOut
    <2> QED
      BY <2>4, <2>5, <2>6
  <1>6. CASE /\ DraftFaults
             /\ Stores(t, Nothing) \/ UNCHANGED <<saved, heard>>
             /\ \E rest \in Pruned(t, all) : known' = [known EXCEPT ![t] = rest]
    <2>1. PICK rest \in {all, Nothing} : known' = [known EXCEPT ![t] = rest]
      BY <1>6 DEF Pruned
    <2>2. known' \in [Tab -> Known] /\ \A u \in Tab : Normal(known'[u])
      BY <1>1, <2>1, TextFacts DEF StoreRecords
    <2>3. draftFaults' \in Nat /\ draftFaults' > draftFaults /\ ~Undropped'
      BY <1>6 DEF DraftFaults, StoreRecords, Undropped
    <2>4. CASE Stores(t, Nothing)
      <3>1. WritesOut(t, Nothing)
        BY <2>4, TextFacts, StoringWrites
      <3>2. \A u \in Tab : \A i \in 1..Len(heard'[u]) : Normal(heard'[u][i])
        BY <3>1, HeardIsNormal
      <3>3. StoreRecords'
        BY <1>2, <1>4, <2>2, <2>3, <3>1, <3>2 DEF StoreRecords, WritesOut
      <3> QED
        BY <2>3, <3>1, <3>3 DEF StoredGrows, WritesOut
    <2>5. CASE UNCHANGED <<saved, heard>>
      <3>1. StoreRecords'
        BY <1>1, <1>2, <1>4, <2>2, <2>3, <2>5 DEF StoreRecords
      <3> QED
        BY <1>1, <2>3, <2>5, <3>1, OrderLaws DEF StoredGrows
    <2> QED
      BY <1>6, <2>4, <2>5
  <1> QED
    BY <1>3, <1>5, <1>6

LEMMA Unstored ==
  ASSUME DraftsInv, UNCHANGED savedVars
  PROVE  KnownFits' /\ StoredGrows
  <1>1. UNCHANGED <<saved, known, stamp, saveTimer, heard, aged, draftFaults>>
    BY DEF savedVars
  <1>2. KnownFits'
    BY <1>1 DEF DraftsInv, KnownFits, StoreRecords, Undropped, Hearing
  <1> QED
    BY <1>1, <1>2, OrderLaws DEF StoredGrows, KnownFits, StoreRecords

\* Of a tab whose write is due nothing is asked but that it knows a draft.
LEMMA PersistKeeps ==
  ASSUME DraftsInv, NEW t \in Tab, NEW text \in Text, NEW emptied \in BOOLEAN,
         Persist(t, text, emptied)
  PROVE  KnownFits' /\ StoredGrows
  <1> DEFINE p == Persisted(t, text, emptied)
  <1> USE DEF DraftsInv, KnownFits
  <1>1. Normal(p.k) /\ p.k \in Known /\ p.s \in Stamp
    BY OwnDrafts DEF Normal
  <1>2. CASE p.save
    <2>1. /\ known' = [known EXCEPT ![t] = p.k] /\ stamp' = [stamp EXCEPT ![t] = p.s]
          /\ saveTimer' = [saveTimer EXCEPT ![t] = TRUE] /\ UNCHANGED <<saved, heard, aged, draftFaults>>
      BY <1>2 DEF Persist, SaveLater
    <2> HIDE DEF p
    <2>2. /\ known'[t] = p.k /\ saveTimer'[t] /\ known' \in [Tab -> Known]
          /\ stamp' \in [Tab -> Stamp] /\ saveTimer' \in [Tab -> BOOLEAN]
          /\ \A u \in Tab \ {t} : known'[u] = known[u] /\ saveTimer'[u] = saveTimer[u]
      BY <1>1, <2>1 DEF StoreRecords
    <2>3. \A u \in Tab : Normal(known'[u])
      BY <1>1, <2>2 DEF StoreRecords
    <2>4. StoreRecords'
      BY <2>1, <2>2, <2>3 DEF StoreRecords
    <2>5. Undropped' => \A u \in Tab : Hearing(u)'
      BY <2>1, <2>2 DEF Hearing, Undropped
    <2>6. StoredGrows
      BY <2>1, OrderLaws DEF StoredGrows, StoreRecords
    <2> QED
      BY <2>4, <2>5, <2>6
  <1>3. CASE ~p.save
    <2>1. UNCHANGED savedVars
      BY <1>3 DEF Persist
    <2> HIDE DEF p
    <2> QED
      BY <2>1, Unstored
  <1> QED
    BY <1>2, <1>3

\* A tab that merges what is stored, or what it hears first, with what it knows.
LEMMA LearnKeeps ==
  ASSUME DraftsInv, NEW t \in Tab, NEW k, Learns(t, k), UNCHANGED <<saved, saveTimer, draftFaults>>,
         \/ k = saved /\ heard' = heard
         \/ k = Head(heard[t]) /\ heard[t] # <<>> /\ heard' = [heard EXCEPT ![t] = Tail(@)]
  PROVE  KnownFits' /\ StoredGrows
  <1> USE DEF DraftsInv, KnownFits
  <1>1. /\ known' = [known EXCEPT ![t] = Merge(@, k)]
        /\ stamp' = [stamp EXCEPT ![t] = Synced(@, known'[t])]
        /\ aged' = (aged \/ Expired(known[t]) \/ Expired(k))
    BY DEF Learns, Ages
  <1>2. heard[t] \in Seq(Known) /\ Normal(saved) /\ Normal(known[t])
    BY DEF StoreRecords
  <1>3. heard[t] # <<>> =>
          /\ Head(heard[t]) = heard[t][1] /\ 1 \in 1..Len(heard[t]) /\ Tail(heard[t]) \in Seq(Known)
          /\ Len(Tail(heard[t])) = Len(heard[t]) - 1
          /\ \A i \in 1..Len(Tail(heard[t])) : Tail(heard[t])[i] = heard[t][i + 1] /\ i + 1 \in 1..Len(heard[t])
    BY <1>2, EmptySeq, HeadTailProperties
  <1>4. Normal(k)
    BY <1>2, <1>3 DEF StoreRecords
  <1>5. Normal(Merge(known[t], k)) /\ Merge(known[t], k) \in Known
    BY <1>2, <1>4, Merged
  <1>6. /\ known'[t] = Merge(known[t], k) /\ \A u \in Tab \ {t} : known'[u] = known[u]
        /\ known' \in [Tab -> Known] /\ stamp' \in [Tab -> Stamp] /\ \A u \in Tab : Normal(known'[u])
    BY <1>1, <1>5, SyncedStamp DEF StoreRecords
  <1>7. /\ heard' \in [Tab -> Seq(Known)] /\ \A u \in Tab \ {t} : heard'[u] = heard[u]
        /\ heard'[t] = heard[t] \/ (heard[t] # <<>> /\ heard'[t] = Tail(heard[t]))
        /\ heard'[t] # heard[t] => k = heard[t][1]
    BY <1>3 DEF StoreRecords
  <1>8. \A i \in 1..Len(heard'[t]) : \E j \in 1..Len(heard[t]) : heard'[t][i] = heard[t][j]
    <2>1. CASE heard'[t] = heard[t]
      BY <2>1
    <2>2. CASE heard[t] # <<>> /\ heard'[t] = Tail(heard[t])
      <3> DEFINE q == Tail(heard[t])
      <3>1. \A i \in 1..Len(q) : q[i] = heard[t][i + 1] /\ i + 1 \in 1..Len(heard[t])
        BY <1>3, <2>2
      <3> HIDE DEF q
      <3>2. \A i \in 1..Len(q) : \E j \in 1..Len(heard[t]) : q[i] = heard[t][j]
        BY <3>1
      <3> QED
        BY <2>2, <3>2 DEF q
    <2> QED
      BY <1>7, <2>1, <2>2
  <1>9. StoreRecords'
    <2>1. \A i \in 1..Len(heard'[t]) : Normal(heard'[t][i])
      BY <1>8 DEF StoreRecords
    <2> QED
      BY <1>1, <1>6, <1>7, <2>1 DEF StoreRecords
  <1>10. ASSUME Undropped'
         PROVE  \A u \in Tab : Hearing(u)'
    <2>1. /\ \A u \in Tab : Hearing(u)
          /\ ~Expired(known[t]) /\ ~Expired(k)
      BY <1>1, <1>10 DEF Undropped
    <2>2. AtMost(k, saved)
      BY <1>2, <1>3, <2>1, OrderLaws DEF Hearing
    <2>3. /\ AtMost(known[t], saved) =>
               /\ AtMost(known'[t], saved)
               /\ known[t] = saved \/ k = saved => known'[t] = saved
      <3>1. known'[t] = Newest(known[t], k)
        BY <1>2, <1>4, <1>6, <2>1, Merged
      <3>2. AtMost(saved, saved)
        BY <1>2, OrderLaws
      <3>3. ASSUME AtMost(known[t], saved)
            PROVE  /\ AtMost(Newest(known[t], k), saved)
                   /\ known[t] = saved \/ k = saved => Newest(known[t], k) = saved
        BY ONLY <1>2, <1>4, <2>2, <3>3, NewestAbsorbs
      <3> QED
        BY <3>1, <3>3
    <2>4. \A i \in 1..Len(heard'[t]) : AtMost(heard'[t][i], saved)
      BY <1>8, <2>1 DEF Hearing
    <2>5. saveTimer[t] \/ known'[t] = saved \/ (heard'[t] # <<>> /\ heard'[t][Len(heard'[t])] = saved)
      <3>1. SUFFICES ASSUME ~saveTimer[t], known'[t] # saved
                     PROVE  heard'[t] # <<>> /\ heard'[t][Len(heard'[t])] = saved
        OBVIOUS
      <3>2. known[t] # saved /\ k # saved
        BY <2>1, <2>3, <3>1 DEF Hearing
      <3>3. heard[t] # <<>> /\ heard[t][Len(heard[t])] = saved
        BY <2>1, <3>1, <3>2 DEF Hearing
      <3>4. k = heard[t][1] /\ heard'[t] = Tail(heard[t])
        BY <1>3, <3>2 DEF StoreRecords
      <3>5. Len(heard[t]) \in Nat \ {0, 1}
        BY <1>2, <1>3, <3>2, <3>3, <3>4
      <3> DEFINE q == Tail(heard[t])
      <3>6. Len(q) \in Nat \ {0} /\ q[Len(q)] = heard[t][Len(q) + 1] /\ Len(q) + 1 = Len(heard[t])
        <4>1. Len(q) = Len(heard[t]) - 1 /\ \A i \in 1..Len(q) : q[i] = heard[t][i + 1]
          BY <1>3, <3>3
        <4> HIDE DEF q
        <4>2. Len(q) \in Nat \ {0} /\ Len(q) + 1 = Len(heard[t]) /\ Len(q) \in 1..Len(q)
          <5>1. ASSUME NEW n \in Nat, n # 0, n # 1
                PROVE  n - 1 \in Nat \ {0} /\ (n - 1) + 1 = n /\ n - 1 \in 1..(n - 1)
            BY ONLY <5>1
          <5>2. Len(heard[t]) \in Nat /\ Len(heard[t]) # 0 /\ Len(heard[t]) # 1
            BY <3>5
          <5> QED
            BY ONLY <4>1, <5>1, <5>2
        <4> QED
          BY ONLY <4>1, <4>2
      <3> HIDE DEF q
      <3>7. q # <<>>
        BY <3>6
      <3> QED
        BY <3>3, <3>4, <3>6, <3>7 DEF q
    <2>6. Hearing(t)'
      BY <2>1, <2>3, <2>4, <2>5 DEF Hearing
    <2> QED
      BY <1>6, <1>7, <2>1, <2>6 DEF Hearing
  <1>11. StoredGrows
    BY <1>2, OrderLaws DEF StoredGrows
  <1> QED
    BY <1>9, <1>10, <1>11

\* A page that starts from what is stored, which it may have written as it went.
LEMMA ReloadKeeps ==
  ASSUME DraftsInv, NEW t \in Tab, Reload(t)
  PROVE  KnownFits' /\ StoredGrows
  <1> USE DEF DraftsInv, KnownFits
  <1> DEFINE p == Persisted(t, composer[t].text, composer[t].emptied)
             flushes == place[t] = "shown" /\ (p.save \/ composer[t].emptied)
             all == IF flushes THEN Merge(p.k, saved) ELSE Aged(saved)
             s == [at |-> IF Fresh(known'[t]).at > clock THEN Fresh(known'[t]).at ELSE clock,
                   sequence |-> known'[t].draft.version]
             ears == [u \in Tab |-> IF u = t THEN <<>> ELSE IF saved' = saved THEN heard[u] ELSE Append(heard[u], saved')]
  <1>1. Normal(p.k) /\ Normal(saved) /\ clock \in Nat /\ clock \in Int
    <2>1. composer[t].text \in Text /\ composer[t].emptied \in BOOLEAN
      BY DEF DraftRecords, Composers
    <2> QED
      BY <2>1, OwnDrafts DEF StoreRecords
  <1>2. /\ Normal(all) /\ all \in Known
        /\ flushes /\ ~Expired(saved) => AtMost(saved, all)
        /\ ~flushes /\ ~Expired(saved) => all = saved
    <2>1. Normal(Aged(saved)) /\ (~Expired(saved) => Aged(saved) = saved)
      BY <1>1, AgingIsNormal
    <2>2. Normal(Merge(p.k, saved)) /\ (~Expired(saved) => AtMost(saved, Merge(p.k, saved)))
      BY <1>1, Merged
    <2> QED
      BY <2>1, <2>2 DEF Normal
  <1>3. /\ \/ /\ saved' = IF flushes THEN all ELSE saved
              /\ known' = [known EXCEPT ![t] = all] /\ UNCHANGED draftFaults
           \/ /\ flushes /\ DraftFaults /\ saved' \in {Nothing, saved}
              /\ known' = [known EXCEPT ![t] = Aged(saved')]
        /\ aged' = (aged \/ Expired(saved) \/ (flushes /\ Expired(p.k)))
        /\ stamp' = [stamp EXCEPT ![t] = s] /\ heard' = ears
        /\ saveTimer' = [saveTimer EXCEPT ![t] = FALSE] /\ clock' = clock
    BY DEF Reload
  <1> HIDE DEF p, flushes, all, s
  <1>4. Normal(saved') /\ saved' \in Known
    BY <1>1, <1>2, <1>3, TextFacts DEF Normal
  <1>5. /\ heard' \in [Tab -> Seq(Known)] /\ heard'[t] = <<>>
        /\ \A u \in Tab \ {t} : heard'[u] = IF saved' = saved THEN heard[u] ELSE Append(heard[u], saved')
    BY <1>3, <1>4, TextFacts DEF StoreRecords
  <1> HIDE DEF ears
  <1>6. WritesOut(t, saved')
    BY <1>4, <1>5 DEF WritesOut
  <1>7. PICK k : /\ Normal(k) /\ k \in Known /\ known' = [known EXCEPT ![t] = k]
                 /\ k = all \/ k = Aged(saved')
    <2>1. Normal(Aged(saved)) /\ Normal(Aged(Nothing))
      BY <1>1, TextFacts, AgingIsNormal
    <2>2. saved' \in {Nothing, saved} => Normal(Aged(saved'))
      BY <2>1
    <2> QED
      BY <1>2, <1>3, <2>2 DEF Normal
  <1>8. /\ known' \in [Tab -> Known] /\ known'[t] = k /\ \A u \in Tab : Normal(known'[u])
        /\ \A u \in Tab \ {t} : known'[u] = known[u] /\ saveTimer'[u] = saveTimer[u]
        /\ saveTimer' \in [Tab -> BOOLEAN]
    BY <1>3, <1>7 DEF StoreRecords
  <1>9. stamp' \in [Tab -> Stamp]
    <2>1. s \in Stamp
      BY <1>1, <1>7, <1>8, NormalForms DEF s, Stamp, Time
    <2> QED
      BY <1>3, <2>1 DEF StoreRecords
  <1>10. StoreRecords'
    <2>1. \A u \in Tab : \A i \in 1..Len(heard'[u]) : Normal(heard'[u][i])
      BY <1>6, HeardIsNormal
    <2>2. aged' \in BOOLEAN /\ draftFaults' \in Nat
      BY <1>3 DEF StoreRecords, DraftFaults
    <2> QED
      BY <1>4, <1>5, <1>8, <1>9, <2>1, <2>2 DEF StoreRecords
  <1>11. CASE /\ saved' = IF flushes THEN all ELSE saved
              /\ known' = [known EXCEPT ![t] = all] /\ UNCHANGED draftFaults
    <2>1. ASSUME Undropped'
          PROVE  \A u \in Tab : Hearing(u)'
      <3>1. Undropped /\ ~Expired(saved)
        BY <1>3, <1>11, <2>1 DEF Undropped
      <3>2. AtMost(saved, saved') /\ saved' = all
        BY <1>1, <1>2, <1>11, <3>1, OrderLaws
      <3>3. known'[t] = saved'
        BY <1>11, <3>2 DEF StoreRecords
      <3> QED
        BY <1>6, <1>8, <3>1, <3>2, <3>3, WriteIsHeard
    <2>2. StoredGrows
      BY <1>1, <1>2, <1>11, OrderLaws DEF StoredGrows
    <2> QED
      BY <1>10, <2>1, <2>2
  <1>12. CASE /\ flushes /\ DraftFaults /\ saved' \in {Nothing, saved}
              /\ known' = [known EXCEPT ![t] = Aged(saved')]
    <2>1. draftFaults' > draftFaults /\ ~Undropped'
      BY <1>12 DEF DraftFaults, StoreRecords, Undropped
    <2> QED
      BY <1>1, <1>10, <1>12, <2>1, OrderLaws DEF StoredGrows
  <1> QED
    BY <1>3, <1>11, <1>12

\* The textarea, the message being sent and what the tab shows.
LEMMA ComposerFacts ==
  ASSUME composer \in Composers, submission \in Submissions, NEW t \in Tab
  PROVE  /\ composer[t].text \in Text /\ composer[t].emptied \in BOOLEAN
         /\ submission[t].text \in Text
         /\ [composer EXCEPT ![t] = Blank] \in Composers
         /\ [composer EXCEPT ![t].emptied = FALSE] \in Composers
         /\ [submission EXCEPT ![t] = NoSubmission] \in Submissions
         /\ \A text \in Text, emptied \in BOOLEAN :
              [composer EXCEPT ![t] = [text |-> text, emptied |-> emptied]] \in Composers
  <1>1. /\ composer[t].text \in Text /\ composer[t].emptied \in BOOLEAN
        /\ submission[t].text \in Text
        /\ [composer EXCEPT ![t] = Blank] \in Composers
        /\ [submission EXCEPT ![t] = NoSubmission] \in Submissions
    BY TextFacts DEF Composers, Submissions
  <1>2. ASSUME NEW text \in Text, NEW emptied \in BOOLEAN
        PROVE  [composer EXCEPT ![t] = [text |-> text, emptied |-> emptied]] \in Composers
    BY DEF Composers
  <1>3. [composer EXCEPT ![t].emptied = FALSE] \in Composers
    <2>1. [composer[t] EXCEPT !.emptied = FALSE] \in [text : Text, emptied : BOOLEAN]
      BY DEF Composers
    <2>2. [composer EXCEPT ![t] = [composer[t] EXCEPT !.emptied = FALSE]] \in Composers
      BY <2>1 DEF Composers
    <2> QED
      BY <2>2, Zenon
  <1> QED
    BY <1>1, <1>2, <1>3

\* One step per action: the tabs' knowledge by the lemmas above, the rest by its shape.
LEMMA DraftsKeep ==
  ASSUME DraftsInv, [DraftsNext]_draftVars
  PROVE  DraftsInv' /\ StoredGrows
  <1>1. ASSUME KnownFits', clock' \in 1..MaxClock, composer' \in Composers, submission' \in Submissions,
               place' \in Places
        PROVE  DraftsInv'
    BY <1>1 DEF DraftsInv, KnownFits, DraftRecords
  <1>2. /\ composer \in Composers /\ submission \in Submissions /\ place \in Places
        /\ clock \in 1..MaxClock /\ clock \in Nat /\ StoreRecords /\ DraftRecords
    BY DraftsAssumption DEF DraftsInv, DraftRecords
  <1>3. ASSUME NEW t \in Tab, NEW to \in {"shown", "other", "gone"}
        PROVE  [place EXCEPT ![t] = to] \in Places
    BY <1>2 DEF Places
  <1>4. ASSUME NEW t \in Tab
        PROVE  /\ stamp[t] \in Stamp /\ Normal(known[t]) /\ Normal(saved)
               /\ Normal(Forgotten(stamp[t])) /\ Stamped(stamp[t]) \in Stamp /\ ~Expired(Forgotten(stamp[t]))
    BY <1>2, OwnDrafts, NewTombstone DEF StoreRecords
  <1>5. ASSUME NEW t \in Tab, Type(t)
        PROVE  DraftsInv' /\ StoredGrows
    <2>1. PICK text \in Text :
            /\ composer' = [composer EXCEPT ![t] = [text |-> text, emptied |-> @.emptied /\ @.text = text]]
            /\ Persist(t, text, composer[t].emptied /\ composer[t].text = text)
      BY <1>5 DEF Type
    <2>2. (composer[t].emptied /\ composer[t].text = text) \in BOOLEAN
      OBVIOUS
    <2>3. KnownFits' /\ StoredGrows
      BY <2>1, <2>2, PersistKeeps
    <2>4. composer' \in Composers
      BY <1>2, <2>1, <2>2, ComposerFacts
    <2> QED
      BY <1>1, <1>2, <1>5, <2>3, <2>4 DEF Type
  <1>6. ASSUME NEW t \in Tab, Leave(t)
        PROVE  DraftsInv' /\ StoredGrows
    <2> DEFINE p == Persisted(t, composer[t].text, composer[t].emptied)
    <2>1. PICK to \in {"shown", "other"} :
            /\ place' = [place EXCEPT ![t] = to]
            /\ composer' = IF to = "other" THEN [composer EXCEPT ![t] = Blank] ELSE composer
      BY <1>6 DEF Leave
    <2>2. /\ composer' \in Composers /\ place' \in Places
          /\ clock' = clock /\ submission' = submission
      BY <1>2, <1>3, <1>6, <2>1, ComposerFacts DEF Leave
    <2>3. Normal(p.k) /\ p.s \in Stamp
      BY <1>2, ComposerFacts, OwnDrafts
    <2>4. (Save(t, p.k, p.s) /\ Ages(p.k, saved)) \/ UNCHANGED savedVars
      BY <1>6 DEF Leave
    <2> HIDE DEF p
    <2>5. KnownFits' /\ StoredGrows
      BY <2>3, <2>4, SaveKeeps, Unstored
    <2> QED
      BY <1>1, <1>2, <2>2, <2>5
  <1>7. ASSUME NEW t \in Tab, SelectAgain(t)
        PROVE  DraftsInv' /\ StoredGrows
    <2>1. known[t].draft.text \in Text
      BY <1>4 DEF Normal, Known, Draft
    <2>2. /\ place' = [place EXCEPT ![t] = "shown"]
          /\ composer' = [composer EXCEPT ![t] = [text |-> known[t].draft.text, emptied |-> FALSE]]
          /\ UNCHANGED <<savedVars, clock, submission, paneEnded>>
      BY <1>7 DEF SelectAgain
    <2>3. composer' \in Composers /\ place' \in Places
      BY <1>2, <1>3, <2>1, <2>2, ComposerFacts
    <2> QED
      BY <1>1, <1>2, <2>2, <2>3, Unstored
  <1>8. ASSUME NEW t \in Tab, StartSend(t)
        PROVE  DraftsInv' /\ StoredGrows
    <2>1. composer[t].text \in Text /\ Persist(t, composer[t].text, FALSE)
      BY <1>2, <1>8, ComposerFacts DEF StartSend
    <2>2. KnownFits' /\ StoredGrows
      BY <2>1, PersistKeeps
    <2>3. known'[t].draft.version \in Nat
      BY <2>2 DEF KnownFits, StoreRecords, Known, Draft
    <2>4. PICK cleared \in BOOLEAN :
            /\ submission' = [submission EXCEPT ![t] =
                 [text |-> composer[t].text, version |-> known'[t].draft.version, cleared |-> cleared]]
            /\ composer' = IF cleared THEN [composer EXCEPT ![t] = [text |-> 0, emptied |-> TRUE]] ELSE composer
      BY <1>8 DEF StartSend
    <2>5. composer' \in Composers
      BY <1>2, <2>4, TextFacts, ComposerFacts
    <2>6. submission' \in Submissions
      BY <1>2, <2>1, <2>3, <2>4 DEF Submissions
    <2> QED
      BY <1>1, <1>2, <1>8, <2>2, <2>5, <2>6 DEF StartSend
  <1>9. ASSUME NEW t \in Tab, Sent(t)
        PROVE  DraftsInv' /\ StoredGrows
    <2>1. /\ submission' = [submission EXCEPT ![t] = NoSubmission] /\ clock' = clock /\ place' = place
          /\ \/ /\ Save(t, Forgotten(stamp[t]), Stamped(stamp[t])) /\ Ages(Nothing, saved)
                /\ composer' = [composer EXCEPT ![t] =
                     [text |-> IF composer[t].text = submission[t].text THEN 0 ELSE composer[t].text, emptied |-> FALSE]]
             \/ /\ composer' = [composer EXCEPT ![t].emptied = FALSE]
                /\ UNCHANGED savedVars
      BY <1>9 DEF Sent
    <2>2. KnownFits' /\ StoredGrows
      BY <1>4, <2>1, SaveKeeps, Unstored
    <2>3. (IF composer[t].text = submission[t].text THEN 0 ELSE composer[t].text) \in Text
      BY <1>2, ComposerFacts, TextFacts
    <2>4. composer' \in Composers /\ submission' \in Submissions
      BY <1>2, <2>1, <2>3, ComposerFacts, ZenonT(60)
    <2> QED
      BY <1>1, <1>2, <2>1, <2>2, <2>4
  <1>10. ASSUME NEW t \in Tab, NotSent(t)
         PROVE  DraftsInv' /\ StoredGrows
    <2>1. /\ submission' = [submission EXCEPT ![t] = NoSubmission] /\ clock' = clock /\ place' = place
          /\ UNCHANGED savedVars
          /\ \/ composer' = [composer EXCEPT ![t] = [text |-> submission[t].text, emptied |-> FALSE]]
             \/ composer' = [composer EXCEPT ![t].emptied = FALSE]
      BY <1>10 DEF NotSent
    <2>2. composer' \in Composers /\ submission' \in Submissions
      BY <1>2, <2>1, ComposerFacts
    <2> QED
      BY <1>1, <1>2, <2>1, <2>2, Unstored
  <1>11. ASSUME NEW t \in Tab, Write(t)
         PROVE  DraftsInv' /\ StoredGrows
    <2>1. /\ Save(t, known[t], stamp[t]) /\ Ages(known[t], saved)
          /\ UNCHANGED <<clock, place, composer, submission>>
      BY <1>11 DEF Write
    <2>2. KnownFits' /\ StoredGrows
      BY <1>4, <2>1, SaveKeeps
    <2> QED
      BY <1>1, <1>2, <2>1, <2>2
  <1>12. ASSUME NEW t \in Tab, Evict(t)
         PROVE  DraftsInv' /\ StoredGrows
    <2>1. /\ DraftFaults /\ known' = [known EXCEPT ![t] = Nothing]
          /\ UNCHANGED <<clock, saved, stamp, saveTimer, heard, aged, place, composer, submission>>
      BY <1>12 DEF Evict
    <2>2. draftFaults' \in Nat /\ draftFaults' > draftFaults /\ ~Undropped'
      BY <1>2, <2>1 DEF DraftFaults, StoreRecords, Undropped
    <2>3. known' \in [Tab -> Known] /\ \A u \in Tab : Normal(known'[u])
      BY <1>2, <2>1, TextFacts DEF StoreRecords
    <2>4. StoreRecords'
      BY <1>2, <2>1, <2>2, <2>3 DEF StoreRecords
    <2>5. KnownFits' /\ StoredGrows
      BY <1>4, <2>1, <2>2, <2>4, OrderLaws DEF KnownFits, StoredGrows
    <2> QED
      BY <1>1, <1>2, <2>1, <2>5
  <1>13. ASSUME NEW t \in Tab, StorageEvent(t)
         PROVE  DraftsInv' /\ StoredGrows
    <2>1. /\ heard[t] # <<>> /\ heard' = [heard EXCEPT ![t] = Tail(@)] /\ Learns(t, Head(heard[t]))
          /\ UNCHANGED <<clock, saved, saveTimer, draftFaults, place, submission>>
          /\ \/ composer' = composer
             \/ composer' = [composer EXCEPT ![t] = [text |-> known'[t].draft.text, emptied |-> FALSE]]
      BY <1>13 DEF StorageEvent
    <2>2. KnownFits' /\ StoredGrows
      BY <2>1, LearnKeeps
    <2>3. known'[t].draft.text \in Text
      BY <2>2 DEF KnownFits, StoreRecords, Known, Draft
    <2>4. composer' \in Composers
      BY <1>2, <2>1, <2>3, ComposerFacts
    <2> QED
      BY <1>1, <1>2, <2>1, <2>2, <2>4
  <1>14. ASSUME NEW t \in Tab, ApplyOverview(t)
         PROVE  DraftsInv' /\ StoredGrows
    <2> DEFINE s == Synced(stamp[t], Merge(known[t], saved))
    <2>1. /\ UNCHANGED <<clock, submission>>
          /\ \/ Learns(t, saved) /\ UNCHANGED <<saved, saveTimer, heard, draftFaults>>
             \/ Save(t, Forgotten(s), Stamped(s)) /\ Ages(known[t], saved)
          /\ \/ composer' = composer /\ place' = place
             \/ composer' = [composer EXCEPT ![t] = Blank] /\ place' = [place EXCEPT ![t] = "gone"]
      BY <1>14 DEF ApplyOverview
    <2>2. s \in Stamp
      BY <1>4, Merged, SyncedStamp
    <2> HIDE DEF s
    <2>3. Normal(Forgotten(s)) /\ Stamped(s) \in Stamp /\ ~Expired(Forgotten(s))
      BY <1>2, <2>2, NewTombstone
    <2>4. KnownFits' /\ StoredGrows
      <3>1. CASE Learns(t, saved) /\ UNCHANGED <<saved, saveTimer, heard, draftFaults>>
        BY <3>1, LearnKeeps
      <3>2. CASE Save(t, Forgotten(s), Stamped(s)) /\ Ages(known[t], saved)
        BY <2>3, <3>2, SaveKeeps
      <3> QED
        BY <2>1, <3>1, <3>2
    <2>5. composer' \in Composers /\ place' \in Places
      BY <1>2, <1>3, <2>1, ComposerFacts
    <2> QED
      BY <1>1, <1>2, <2>1, <2>4, <2>5
  <1>15. ASSUME NEW t \in Tab, PaneRemoved(t)
         PROVE  DraftsInv' /\ StoredGrows
    <2>1. /\ UNCHANGED <<clock, submission>>
          /\ \/ UNCHANGED savedVars
             \/ Save(t, Forgotten(stamp[t]), Stamped(stamp[t])) /\ Ages(Nothing, saved)
          /\ composer' = [composer EXCEPT ![t] = Blank] /\ place' = [place EXCEPT ![t] = "other"]
      BY <1>15 DEF PaneRemoved
    <2>2. KnownFits' /\ StoredGrows
      BY <1>4, <2>1, SaveKeeps, Unstored
    <2>3. composer' \in Composers /\ place' \in Places
      BY <1>2, <1>3, <2>1, ComposerFacts
    <2> QED
      BY <1>1, <1>2, <2>1, <2>2, <2>3
  <1>16. ASSUME NEW t \in Tab, Reload(t)
         PROVE  DraftsInv' /\ StoredGrows
    <2>1. /\ clock' = clock /\ place' = [place EXCEPT ![t] = IF @ = "gone" THEN "gone" ELSE "other"]
          /\ composer' = [composer EXCEPT ![t] = Blank]
          /\ submission' = [submission EXCEPT ![t] = NoSubmission]
      BY <1>16 DEF Reload
    <2>2. KnownFits' /\ StoredGrows
      BY <1>16, ReloadKeeps
    <2>3. composer' \in Composers /\ submission' \in Submissions
      BY <1>2, <2>1, ComposerFacts
    <2>4. place' \in Places
      BY <1>2, <1>3, <2>1
    <2> QED
      BY <1>1, <1>2, <2>1, <2>2, <2>3, <2>4
  <1>17. CASE PaneEnds \/ UNCHANGED draftVars
    <2>1. UNCHANGED savedVars /\ UNCHANGED <<clock, place, composer, submission>>
      BY <1>17 DEF PaneEnds, draftVars
    <2> QED
      BY <1>1, <1>2, <2>1, Unstored
  <1>18. CASE ClockTicks
    <2>1. UNCHANGED savedVars /\ UNCHANGED <<place, composer, submission>> /\ clock' \in 1..MaxClock
      BY <1>2, <1>18, DraftsAssumption DEF ClockTicks
    <2> QED
      BY <1>1, <1>2, <2>1, Unstored
  <1>19. CASE \E t \in Tab :
                \/ Type(t) \/ Leave(t) \/ SelectAgain(t) \/ StartSend(t) \/ Sent(t) \/ NotSent(t)
                \/ Write(t) \/ Evict(t) \/ StorageEvent(t) \/ ApplyOverview(t) \/ PaneRemoved(t) \/ Reload(t)
    BY ONLY <1>5, <1>6, <1>7, <1>8, <1>9, <1>10, <1>11, <1>12, <1>13, <1>14, <1>15, <1>16, <1>19
  <1>20. CASE DraftsNext
    BY ONLY <1>17, <1>18, <1>19, <1>20 DEF DraftsNext
  <1> QED
    BY <1>17, <1>20

LEMMA DraftsStart ==
  ASSUME DraftsInit
  PROVE  DraftsInv
  <1>1. clock \in 1..MaxClock /\ Normal(saved)
    BY DraftsAssumption, TextFacts DEF DraftsInit
  <1>2. \A t \in Tab : known[t] = saved /\ heard[t] = <<>> /\ ~saveTimer[t]
    BY DEF DraftsInit
  <1>3. StoreRecords
    <2>1. [at |-> 1, sequence |-> 0] \in Stamp
      BY DEF Stamp
    <2>2. \A t \in Tab : \A i \in 1..Len(heard[t]) : Normal(heard[t][i])
      BY <1>2, EmptySeq
    <2>3. /\ known \in [Tab -> Known] /\ stamp \in [Tab -> Stamp] /\ saveTimer \in [Tab -> BOOLEAN]
          /\ heard \in [Tab -> Seq(Known)] /\ \A t \in Tab : Normal(known[t])
      BY <2>1, TextFacts DEF DraftsInit
    <2>4. aged \in BOOLEAN /\ draftFaults \in Nat
      BY DEF DraftsInit
    <2> QED
      BY <1>1, <2>2, <2>3, <2>4 DEF StoreRecords
  <1>4. composer \in Composers /\ submission \in Submissions /\ place \in Places
    BY TextFacts DEF DraftsInit, Composers, Submissions, Places
  <1>5. \A t \in Tab : Hearing(t)
    BY <1>1, <1>2, OrderLaws DEF Hearing
  <1> QED
    BY <1>1, <1>3, <1>4, <1>5 DEF DraftsInv, DraftRecords, KnownFits

\* The invariant of the drafts holds in every state of every behaviour.
THEOREM DraftsInvariant == DraftsSpec => []DraftsInv
  BY DraftsStart, DraftsKeep, PTL DEF DraftsSpec

\* Once every write is made and heard of, what every tab knows of the draft (its
\* maps, not the text it shows) is what is stored, unless a tombstone was dropped
\* for its age, a cap evicted the entry or a write failed
\* (saveComposerDraftStorage, mergeComposerDraftState and the storage event).
THEOREM TabsStayInAgreement == DraftsSpec => [](DraftsTypeOK /\ TabsAgree)
  <1>1. DraftsInv => DraftsTypeOK /\ TabsAgree
    <2> SUFFICES ASSUME DraftsInv
                 PROVE  DraftsTypeOK /\ TabsAgree
      OBVIOUS
    <2>1. DraftsTypeOK
      <3>1. /\ clock \in 1..MaxClock /\ Normal(saved) /\ \A t \in Tab : Normal(known[t])
            /\ \A t \in Tab : \A i \in 1..Len(heard[t]) : Normal(heard[t][i])
            /\ heard \in [Tab -> Seq(Known)]
            /\ composer \in Composers /\ place \in Places
        BY DEF DraftsInv, DraftRecords, StoreRecords
      <3>2. \A t \in Tab : DOMAIN heard[t] = 1..Len(heard[t])
        BY <3>1
      <3> QED
        BY <3>1, <3>2 DEF DraftsTypeOK, Normal, Known, Draft, Composers, Places
    <2>2. TabsAgree
      BY DEF DraftsInv, KnownFits, Undropped, Hearing, TabsAgree
    <2> QED
      BY <2>1, <2>2
  <1> QED
    BY <1>1, DraftsInvariant, PTL

\* "Tombstones win ties so a stale tab cannot revive a successfully submitted or
\* deleted pane draft": what is stored never becomes older, nor a tombstone a
\* draft of its own time, except that a tombstone is dropped once it has reached
\* its TTL, and an entry where a cap evicts it.
THEOREM StoredNeverOlder == DraftsSpec => NeverOlder
  <1> DEFINE Older == LET at(k) == Fresh(k).at IN
                        \/ /\ at(saved') >= at(saved)
                           /\ at(saved') = at(saved) /\ saved.draft = NoDraft => saved'.draft = NoDraft
                        \/ Expired(saved)
                        \/ saved' = Nothing /\ draftFaults' > draftFaults
  <1>1. ASSUME DraftsInv, DraftsInv', [DraftsNext]_draftVars
        PROVE  Older
    <2>1. StoredGrows /\ Normal(saved) /\ Normal(saved')
      BY <1>1, DraftsKeep DEF DraftsInv, KnownFits, StoreRecords
    <2>2. AtMost(saved, saved') =>
            LET at(k) == Fresh(k).at IN
              /\ at(saved') >= at(saved)
              /\ at(saved') = at(saved) /\ saved.draft = NoDraft => saved'.draft = NoDraft
      BY <2>1, NormalForms DEF AtMost, Time
    <2> QED
      BY <2>1, <2>2 DEF StoredGrows
  <1> QED
    BY <1>1, DraftsInvariant, PTL DEF DraftsSpec, NeverOlder

-----------------------------------------------------------------------------
(* Launch directories.  A directory is one object whatever its name, and an *)
(* operation's payload can only be in the stage the operation opened.       *)

\* A directory, or none.
D0 == Directory \cup {None0}

\* Where an operation may be, and where it holds its stage open.
Held == {"payload", "retain", "clone", "publish", "rename", "check", "empty", "cleanup", "clear", "unlink", "remove"}
Place == Held \cup {"idle", "stage", "open", "ended"}

Operations == [Op -> [at : Place, stage : D0, payload : D0, opened : D0, git : BOOLEAN,
               result : {"none", "refused", "failed", "created", "conflict"}, residue : BOOLEAN]]

DirectoryRecords ==
  /\ parent \in [dest : D0, aside : D0, stage : [Op -> D0]]
  /\ payloadIn \in [Directory -> D0]
  /\ content \in [Directory -> SUBSET {"user", "part", "whole"}]
  /\ resolves \in BOOLEAN /\ renames \in 0..MaxRename
  /\ op \in Operations

\* What users have made so far (UserRenames): never a stage nor a payload.
There == (2 * NumOp + 1)..(2 * NumOp + renames)

\* Two operations never have one directory as their stages: under its name, in
\* their hands, or one of each.
StagesApart ==
  \A a \in Op :
    /\ parent.stage[a] # None0 => parent.stage[a] \in {StageOf(a)} \cup There
    /\ op[a].stage # None0 => op[a].stage \in {StageOf(a)} \cup There
    /\ \A b \in Op \ {a} :
         /\ parent.stage[a] = parent.stage[b] => parent.stage[a] = None0
         /\ op[a].stage = op[b].stage => op[a].stage = None0
         /\ op[a].stage = parent.stage[b] => op[a].stage = None0

\* From OpenStage to the end the operation holds a directory, and it clears only
\* the payload it made itself.
HeldOK ==
  \A a \in Op :
    /\ op[a].git => op[a].at \in {"clone", "ended"}
    /\ op[a].at \in Held \/ op[a].git => op[a].stage # None0
    /\ op[a].at = "open" => parent.stage[a] # None0
    /\ op[a].at = "clear" => op[a].opened = op[a].payload /\ op[a].payload # None0
    /\ op[a].at = "empty" => op[a].result = "conflict"
    /\ op[a].result = "conflict" => op[a].at \in {"empty", "cleanup", "clear", "unlink", "remove", "ended"}

\* A payload is in its own operation's stage or at the destination, if anywhere,
\* and there only once it was published; a clone's is whole by then, and stays so
\* unless its operation empties it.  No other operation holds it.
PayloadsOK ==
  \A a \in Op :
    /\ \A b \in Op \ {a} : op[b].payload # PayloadOf(a)
    /\ \A d \in Directory : payloadIn[d] = PayloadOf(a) =>
         /\ d = op[a].stage /\ op[a].at \notin {"idle", "stage", "open", "payload"}
         /\ parent.dest # PayloadOf(a)
         /\ op[a].at \in {"clone", "publish", "rename"} => op[a].payload = PayloadOf(a)
    /\ parent.dest = PayloadOf(a) =>
         /\ op[a].at \in {"check", "empty", "cleanup", "remove", "ended"} /\ ~op[a].git
         /\ op[a].payload = PayloadOf(a)
    /\ a \in Clones =>
         /\ parent.dest = PayloadOf(a) => content[PayloadOf(a)] = {"whole"} \/ op[a].result = "conflict"
         /\ op[a].at \in {"publish", "rename"} /\ payloadIn[op[a].stage] = PayloadOf(a) =>
              content[PayloadOf(a)] = {"whole"}

\* While no user renames, every name is what its operation made it, and an
\* operation that is over has removed its stage.
Undisturbed ==
  renames = 0 => \A a \in Op :
    /\ content[StageOf(a)] = {} /\ payloadIn[PayloadOf(a)] = None0
    /\ op[a].payload \in {None0, PayloadOf(a)} /\ payloadIn[StageOf(a)] \in {None0, PayloadOf(a)}
    /\ op[a].at \in {"idle", "stage"} => parent.stage[a] = None0
    /\ op[a].at \in Held \cup {"open"} \/ op[a].git => parent.stage[a] = StageOf(a)
    /\ op[a].at \in {"idle", "stage", "open", "payload", "check", "empty", "remove"} => payloadIn[StageOf(a)] = None0
    /\ op[a].at \in {"retain", "clone", "publish", "rename", "clear", "unlink"} => payloadIn[StageOf(a)] = PayloadOf(a)
    /\ op[a].at \in {"clone", "publish", "rename", "clear", "unlink"} => op[a].payload = PayloadOf(a)
    /\ op[a].at = "unlink" => op[a].opened = PayloadOf(a) /\ content[PayloadOf(a)] = {}
    /\ op[a].at = "ended" /\ ~op[a].git /\ ~op[a].residue /\ (payloadIn[StageOf(a)] # None0 => op[a].payload # None0) =>
         parent.stage[a] = None0
DirectoryInv == DirectoryRecords /\ StagesApart /\ HeldOK /\ PayloadsOK /\ Undisturbed

\* The step leaves all operations but a, and a with this.
OpIs(a, at, stage, payload, opened, git) ==
  /\ op' \in Operations /\ \A b \in Op \ {a} : op'[b] = op[b]
  /\ op'[a].at = at /\ op'[a].stage = stage /\ op'[a].payload = payload
  /\ op'[a].opened = opened /\ op'[a].git = git
  /\ op'[a].result = "conflict" => op[a].result = "conflict" \/ at = "empty"

LEMMA Names ==
  /\ None0 \notin Directory /\ Op \subseteq Int
  /\ \A a, b \in Op :
       /\ StageOf(a) \in Directory /\ PayloadOf(a) \in Directory /\ StageOf(a) # PayloadOf(b)
       /\ StageOf(a) = StageOf(b) => a = b
       /\ PayloadOf(a) = PayloadOf(b) => a = b
  BY LaunchDirectoryAssumption DEF Directory, Op, StageOf, PayloadOf, None0

LEMMA UserNames ==
  ASSUME renames \in 0..MaxRename
  PROVE  /\ There \subseteq Directory
         /\ \A a \in Op, d \in There : d # StageOf(a) /\ d # PayloadOf(a)
  BY LaunchDirectoryAssumption DEF Directory, Op, StageOf, PayloadOf, None0, There

\* What the step of one operation makes of its record.
LEMMA Moves ==
  ASSUME NEW a \in Op, op \in Operations, NEW at \in Place
  PROVE  /\ To(a, at) => OpIs(a, at, op[a].stage, op[a].payload, op[a].opened, op[a].git)
                          /\ op'[a].result = op[a].result
         /\ \A result \in {"refused", "failed"} :
              End(a, result) => OpIs(a, "ended", op[a].stage, op[a].payload, op[a].opened, op[a].git)
  BY DEF Operations, OpIs, To, End, Place, Held

\* An operation that stages holds a directory, its own while nobody renames.
LEMMA StagesAreThere ==
  ASSUME DirectoryInv
  PROVE  \A a \in Op : op[a].at \in Held \/ op[a].git =>
           op[a].stage \in Directory /\ (renames = 0 => op[a].stage = StageOf(a))
  <1> SUFFICES ASSUME NEW a \in Op, op[a].at \in Held \/ op[a].git
               PROVE  op[a].stage \in Directory /\ (renames = 0 => op[a].stage = StageOf(a))
    OBVIOUS
  <1>1. op[a].stage \in {StageOf(a)} \cup There
    BY DEF DirectoryInv, HeldOK, StagesApart
  <1>2. renames = 0 => There = {}
    BY LaunchDirectoryAssumption DEF There
  <1> QED
    BY <1>1, <1>2, Names, UserNames DEF DirectoryInv, DirectoryRecords

LEMMA ResolveKeeps ==
  ASSUME DirectoryInv, NEW a \in Op, Resolve(a)
  PROVE  DirectoryInv'
  <1> USE DEF DirectoryInv
  <1>1. PICK at \in {"stage", "ended"} : OpIs(a, at, op[a].stage, op[a].payload, op[a].opened, op[a].git)
    BY Moves DEF Resolve, DirectoryRecords, Place, Held
  <1>2. UNCHANGED <<parent, payloadIn, content, resolves, renames>> /\ op[a].at = "idle"
    BY DEF Resolve, At
  <1>3. DirectoryRecords'
    BY <1>1, <1>2 DEF DirectoryRecords, OpIs
  <1>4. StagesApart'
    BY <1>1, <1>2 DEF StagesApart, OpIs, There
  <1>5. HeldOK'
    BY <1>1, <1>2 DEF HeldOK, OpIs, Held
  <1>6. PayloadsOK'
    BY <1>1, <1>2 DEF PayloadsOK, OpIs
  <1>7. Undisturbed'
    BY <1>1, <1>2 DEF Undisturbed, OpIs, Held
  <1> QED
    BY <1>3, <1>4, <1>5, <1>6, <1>7

LEMMA MakeStageKeeps ==
  ASSUME DirectoryInv, NEW a \in Op, MakeStage(a)
  PROVE  DirectoryInv'
  <1> USE DEF DirectoryInv
  <1>1. OpIs(a, "open", op[a].stage, op[a].payload, op[a].opened, op[a].git)
    BY Moves DEF MakeStage, DirectoryRecords, Place, Held
  <1>2. /\ UNCHANGED <<payloadIn, content, resolves, renames>> /\ op[a].at = "stage"
        /\ parent' = [parent EXCEPT !.stage[a] = StageOf(a)]
    BY DEF MakeStage, At
  <1>a. /\ parent'.dest = parent.dest /\ parent'.stage[a] = StageOf(a) /\ StageOf(a) \in D0 /\ StageOf(a) # None0
        /\ \A b \in Op \ {a} : parent'.stage[b] = parent.stage[b]
    BY <1>2, Names DEF DirectoryRecords, D0
  <1>3. DirectoryRecords'
    BY <1>1, <1>2, <1>a DEF DirectoryRecords, OpIs
  <1>4. StagesApart'
    BY <1>1, <1>2, <1>a, Names, UserNames DEF StagesApart, DirectoryRecords, OpIs, There
  <1>5. HeldOK'
    BY <1>1, <1>2, <1>a DEF HeldOK, OpIs, Held
  <1>6. PayloadsOK'
    BY <1>1, <1>2, <1>a DEF PayloadsOK, OpIs
  <1>7. Undisturbed'
    BY <1>1, <1>2, <1>a DEF Undisturbed, OpIs, Held
  <1> QED
    BY <1>3, <1>4, <1>5, <1>6, <1>7

LEMMA OpenStageKeeps ==
  ASSUME DirectoryInv, NEW a \in Op, OpenStage(a)
  PROVE  DirectoryInv'
  <1> USE DEF DirectoryInv
  <1>1. UNCHANGED <<payloadIn, content, resolves, renames>> /\ op[a].at = "open"
    BY DEF OpenStage, At
  <1>2. PICK at \in {"payload", "ended"} :
          IF at = "payload"
          THEN OpIs(a, at, parent.stage[a], op[a].payload, op[a].opened, op[a].git) /\ parent' = parent
          ELSE OpIs(a, at, op[a].stage, op[a].payload, op[a].opened, op[a].git) /\ parent' = RemovedStage(a)
    <2>1. CASE op' = [op EXCEPT ![a].at = "payload", ![a].stage = parent.stage[a]] /\ parent' = parent
      <3>1. parent.stage[a] \in D0
        BY DEF DirectoryRecords
      <3> QED
        BY <2>1, <3>1, ZenonT(60) DEF DirectoryRecords, Operations, OpIs, Place, Held
    <2>2. CASE End(a, "failed") /\ parent' = RemovedStage(a)
      BY <2>2, Moves DEF DirectoryRecords, Place, Held
    <2> QED
      BY <2>1, <2>2 DEF OpenStage
  <1>3. /\ parent'.dest = parent.dest /\ parent' \in [dest : D0, aside : D0, stage : [Op -> D0]]
        /\ \A b \in Op \ {a} : parent'.stage[b] = parent.stage[b]
        /\ parent'.stage[a] \in {parent.stage[a], None0}
    BY <1>2 DEF RemovedStage, DirectoryRecords, D0
  <1>4. DirectoryRecords'
    BY <1>1, <1>2, <1>3 DEF DirectoryRecords, OpIs
  <1>5. StagesApart'
    BY <1>1, <1>2, <1>3 DEF StagesApart, OpIs, There
  <1>6. HeldOK'
    BY <1>1, <1>2, <1>3 DEF HeldOK, OpIs, Held
  <1>7. PayloadsOK'
    BY <1>1, <1>2, <1>3 DEF PayloadsOK, OpIs
  <1>8. Undisturbed'
    <2>1. CASE op'[a].at = "payload"
      BY <1>1, <1>2, <2>1 DEF Undisturbed, OpIs, Held
    <2>2. CASE op'[a].at = "ended"
      <3>1. renames = 0 => parent'.stage[a] = None0
        BY <1>1, <1>2, <2>2, Names DEF Undisturbed, HeldOK, RemovedStage, Empty, OpIs, Held, DirectoryRecords
      <3> QED
        BY <1>1, <1>2, <1>3, <2>2, <3>1 DEF Undisturbed, HeldOK, OpIs, Held
    <2> QED
      BY <1>2, <2>1, <2>2 DEF OpIs
  <1> QED
    BY <1>4, <1>5, <1>6, <1>7, <1>8

LEMMA MakePayloadKeeps ==
  ASSUME DirectoryInv, NEW a \in Op, MakePayload(a)
  PROVE  DirectoryInv'
  <1> USE DEF DirectoryInv
  <1>1. UNCHANGED <<parent, content, resolves, renames>> /\ op[a].at = "payload" /\ op[a].stage \in Directory
    BY StagesAreThere DEF MakePayload, At, Held
  <1>2. \/ /\ OpIs(a, "retain", op[a].stage, op[a].payload, op[a].opened, op[a].git)
           /\ payloadIn' = [payloadIn EXCEPT ![op[a].stage] = PayloadOf(a)]
        \/ OpIs(a, "cleanup", op[a].stage, op[a].payload, op[a].opened, op[a].git) /\ payloadIn' = payloadIn
    BY Moves DEF MakePayload, DirectoryRecords, Place, Held
  <1>3. DirectoryRecords'
    BY <1>1, <1>2, Names DEF DirectoryRecords, OpIs, D0
  <1>4. StagesApart'
    BY <1>1, <1>2 DEF StagesApart, OpIs, There
  <1>5. HeldOK'
    BY <1>1, <1>2 DEF HeldOK, OpIs, Held
  <1>6. PayloadsOK'
    BY <1>1, <1>2, Names, StagesAreThere DEF PayloadsOK, OpIs, Held, DirectoryRecords
  <1>7. Undisturbed'
    <2>1. renames = 0 => op[a].stage = StageOf(a)
      BY <1>1, StagesAreThere DEF Held
    <2> QED
      BY <1>1, <1>2, <2>1, Names DEF Undisturbed, OpIs, Held, DirectoryRecords
  <1> QED
    BY <1>3, <1>4, <1>5, <1>6, <1>7

LEMMA RetainPayloadKeeps ==
  ASSUME DirectoryInv, NEW a \in Op, RetainPayload(a)
  PROVE  DirectoryInv'
  <1> USE DEF DirectoryInv
  <1>1. UNCHANGED <<parent, payloadIn, content, resolves, renames>> /\ op[a].at = "retain" /\ op[a].stage \in Directory
    BY StagesAreThere DEF RetainPayload, At, Held
  <1>2. \/ /\ a \in Clones
           /\ OpIs(a, "clone", op[a].stage, payloadIn[op[a].stage], op[a].opened, op[a].git)
        \/ /\ a \notin Clones
           /\ OpIs(a, "publish", op[a].stage, payloadIn[op[a].stage], op[a].opened, op[a].git)
        \/ OpIs(a, "cleanup", op[a].stage, op[a].payload, op[a].opened, op[a].git)
    <2>1. CASE To(a, "cleanup")
      BY <2>1, Moves DEF DirectoryRecords, Place, Held
    <2>2. CASE op' = [op EXCEPT ![a].payload = payloadIn[op[a].stage],
                                ![a].at = IF a \in Clones THEN "clone" ELSE "publish"]
      <3>1. payloadIn[op[a].stage] \in D0
        BY <1>1 DEF DirectoryRecords
      <3> QED
        <4>1. CASE a \in Clones
          BY <2>2, <3>1, <4>1, ZenonT(60) DEF DirectoryRecords, Operations, OpIs, Place, Held
        <4>2. CASE a \notin Clones
          BY <2>2, <3>1, <4>2, ZenonT(60) DEF DirectoryRecords, Operations, OpIs, Place, Held
        <4> QED
          BY <4>1, <4>2
    <2> QED
      BY <2>1, <2>2 DEF RetainPayload
  <1>3. DirectoryRecords'
    BY <1>1, <1>2 DEF DirectoryRecords, OpIs
  <1>4. StagesApart'
    BY <1>1, <1>2 DEF StagesApart, OpIs, There
  <1>5. HeldOK'
    BY <1>1, <1>2 DEF HeldOK, OpIs, Held
  <1>6. PayloadsOK'
    <2>1. \A b \in Op \ {a} : payloadIn[op[a].stage] # PayloadOf(b)
      BY <1>1, Names DEF PayloadsOK, StagesApart
    <2>2. \A b \in Op \ {a} : op'[b] = op[b]
      BY <1>2 DEF OpIs
    <2>3. /\ op'[a].stage = op[a].stage /\ op'[a].git = op[a].git
          /\ \/ op'[a].at \in {"clone", "publish"} /\ op'[a].payload = payloadIn[op[a].stage]
             \/ op'[a].at = "cleanup" /\ op'[a].payload = op[a].payload
      BY <1>2 DEF OpIs
    <2>4. parent.dest # PayloadOf(a)
      BY <1>1 DEF PayloadsOK
    <2>5. op[a].payload = PayloadOf(a) \/ \A b \in Op : op[a].payload # PayloadOf(b)
      BY DEF PayloadsOK
    <2>6. a \in Clones => op'[a].at # "publish"
      BY <1>2 DEF OpIs
    <2>7. ASSUME NEW b \in Op
          PROVE  /\ \A c \in Op \ {b} : op'[c].payload # PayloadOf(b)
                 /\ \A d \in Directory : payloadIn'[d] = PayloadOf(b) =>
                      /\ d = op'[b].stage /\ op'[b].at \notin {"idle", "stage", "open", "payload"}
                      /\ parent'.dest # PayloadOf(b)
                      /\ op'[b].at \in {"clone", "publish", "rename"} => op'[b].payload = PayloadOf(b)
                 /\ parent'.dest = PayloadOf(b) =>
                      /\ op'[b].at \in {"check", "empty", "cleanup", "remove", "ended"} /\ ~op'[b].git
                      /\ op'[b].payload = PayloadOf(b)
      <3>1. CASE b = a
        BY <1>1, <2>1, <2>2, <2>3, <2>4, <3>1 DEF PayloadsOK
      <3>2. CASE b # a
        BY <1>1, <2>1, <2>2, <2>3, <2>4, <3>2 DEF PayloadsOK
      <3> QED
        BY <3>1, <3>2
    <2>8. ASSUME NEW b \in Op, b \in Clones
          PROVE  /\ parent'.dest = PayloadOf(b) => content'[PayloadOf(b)] = {"whole"} \/ op'[b].result = "conflict"
                 /\ op'[b].at \in {"publish", "rename"} /\ payloadIn'[op'[b].stage] = PayloadOf(b) =>
                      content'[PayloadOf(b)] = {"whole"}
      <3>1. CASE b = a
        BY <1>1, <2>3, <2>4, <2>6, <2>8, <3>1 DEF PayloadsOK
      <3>2. CASE b # a
        BY <1>1, <2>2, <2>8, <3>2 DEF PayloadsOK
      <3> QED
        BY <3>1, <3>2
    <2> QED
      BY <2>7, <2>8 DEF PayloadsOK
  <1>7. Undisturbed'
    <2>1. renames = 0 => op[a].stage = StageOf(a)
      BY <1>1, StagesAreThere DEF Held
    <2> QED
      BY <1>1, <1>2, <2>1, Names DEF Undisturbed, OpIs, Held
  <1> QED
    BY <1>3, <1>4, <1>5, <1>6, <1>7

LEMMA StartCloneKeeps ==
  ASSUME DirectoryInv, NEW a \in Op, StartClone(a)
  PROVE  DirectoryInv'
  <1> USE DEF DirectoryInv
  <1>1. UNCHANGED <<parent, payloadIn, content, resolves, renames>> /\ op[a].at = "clone"
    BY DEF StartClone, At
  <1>2. OpIs(a, "clone", op[a].stage, op[a].payload, op[a].opened, TRUE)
    BY ZenonT(40) DEF StartClone, At, DirectoryRecords, Operations, OpIs, Place, Held
  <1>3. DirectoryRecords'
    BY <1>1, <1>2 DEF DirectoryRecords, OpIs
  <1>4. StagesApart'
    BY <1>1, <1>2 DEF StagesApart, OpIs, There
  <1>5. HeldOK'
    BY <1>1, <1>2 DEF HeldOK, OpIs, Held
  <1>6. PayloadsOK'
    BY <1>1, <1>2 DEF PayloadsOK, OpIs
  <1>7. Undisturbed'
    BY <1>1, <1>2 DEF Undisturbed, OpIs, Held
  <1> QED
    BY <1>3, <1>4, <1>5, <1>6, <1>7

LEMMA CloneFailsKeeps ==
  ASSUME DirectoryInv, NEW a \in Op, CloneFails(a)
  PROVE  DirectoryInv'
  <1> USE DEF DirectoryInv
  <1>1. UNCHANGED <<parent, payloadIn, content, resolves, renames>> /\ op[a].at = "clone"
    BY DEF CloneFails, At
  <1>2. \/ OpIs(a, "cleanup", op[a].stage, op[a].payload, op[a].opened, FALSE)
        \/ OpIs(a, "ended", op[a].stage, op[a].payload, op[a].opened, TRUE)
    <2>1. PICK stopped \in BOOLEAN :
            op' = [op EXCEPT ![a].at = AfterClone(stopped), ![a].git = ~stopped, ![a].result = "failed"]
      BY DEF CloneFails
    <2>2. CASE stopped = TRUE
      <3>1. op' = [op EXCEPT ![a].at = "cleanup", ![a].git = FALSE, ![a].result = "failed"]
        BY <2>1, <2>2 DEF AfterClone
      <3>a. op \in Operations
        BY DEF DirectoryRecords
      <3>b. op' \in Operations
        <4>1. {"cleanup", "ended"} \subseteq Place
          BY DEF Place, Held
        <4> QED
          BY <3>1, <3>a, <4>1, ZenonT(60) DEF Operations
      <3>c. \A b \in Op \ {a} : op'[b] = op[b]
        BY <3>1, <3>a DEF Operations
      <3>2. op' \in Operations /\ \A b \in Op \ {a} : op'[b] = op[b]
        BY <3>b, <3>c
      <3>3. /\ op'[a].at = "cleanup" /\ op'[a].stage = op[a].stage /\ op'[a].payload = op[a].payload
            /\ op'[a].opened = op[a].opened /\ op'[a].git = FALSE /\ op'[a].result = "failed"
        BY <3>1 DEF DirectoryRecords, Operations
      <3> QED
        BY <3>2, <3>3 DEF OpIs
    <2>3. CASE stopped = FALSE
      <3>1. op' = [op EXCEPT ![a].at = "ended", ![a].git = TRUE, ![a].result = "failed"]
        BY <2>1, <2>3 DEF AfterClone
      <3>a. op \in Operations
        BY DEF DirectoryRecords
      <3>b. op' \in Operations
        <4>1. {"cleanup", "ended"} \subseteq Place
          BY DEF Place, Held
        <4> QED
          BY <3>1, <3>a, <4>1, ZenonT(60) DEF Operations
      <3>c. \A b \in Op \ {a} : op'[b] = op[b]
        BY <3>1, <3>a DEF Operations
      <3>2. op' \in Operations /\ \A b \in Op \ {a} : op'[b] = op[b]
        BY <3>b, <3>c
      <3>3. /\ op'[a].at = "ended" /\ op'[a].stage = op[a].stage /\ op'[a].payload = op[a].payload
            /\ op'[a].opened = op[a].opened /\ op'[a].git = TRUE /\ op'[a].result = "failed"
        BY <3>1 DEF DirectoryRecords, Operations
      <3> QED
        BY <3>2, <3>3 DEF OpIs
    <2> QED
      BY <2>2, <2>3
  <1>3. DirectoryRecords'
    BY <1>1, <1>2 DEF DirectoryRecords, OpIs
  <1>4. StagesApart'
    BY <1>1, <1>2 DEF StagesApart, OpIs, There
  <1>5. HeldOK'
    BY <1>1, <1>2 DEF HeldOK, OpIs, Held
  <1>6. PayloadsOK'
    BY <1>1, <1>2 DEF PayloadsOK, OpIs
  <1>7. Undisturbed'
    BY <1>1, <1>2 DEF Undisturbed, OpIs, Held
  <1> QED
    BY <1>3, <1>4, <1>5, <1>6, <1>7

LEMMA PublishKeeps ==
  ASSUME DirectoryInv, NEW a \in Op, Publish(a)
  PROVE  DirectoryInv'
  <1> USE DEF DirectoryInv
  <1>1. UNCHANGED <<parent, payloadIn, content, resolves, renames>> /\ op[a].at = "publish"
    BY DEF Publish, At
  <1>2. PICK at \in {"rename", "cleanup"} : OpIs(a, at, op[a].stage, op[a].payload, op[a].opened, op[a].git)
    BY Moves DEF Publish, DirectoryRecords, Place, Held
  <1>3. DirectoryRecords'
    BY <1>1, <1>2 DEF DirectoryRecords, OpIs
  <1>4. StagesApart'
    BY <1>1, <1>2 DEF StagesApart, OpIs, There
  <1>5. HeldOK'
    BY <1>1, <1>2 DEF HeldOK, OpIs, Held
  <1>6. PayloadsOK'
    BY <1>1, <1>2 DEF PayloadsOK, OpIs
  <1>7. Undisturbed'
    BY <1>1, <1>2 DEF Undisturbed, OpIs, Held
  <1> QED
    BY <1>3, <1>4, <1>5, <1>6, <1>7

LEMMA GitWritesKeeps ==
  ASSUME DirectoryInv, NEW a \in Op, GitWrites(a)
  PROVE  DirectoryInv'
  <1> USE DEF DirectoryInv
  <1> DEFINE d == payloadIn[op[a].stage]
  <1>1. /\ UNCHANGED <<parent, payloadIn, resolves, op, renames>> /\ op[a].git /\ d # None0
        /\ content' = [content EXCEPT ![d] = {"part"}]
    BY DEF GitWrites
  <1>2. /\ op[a].stage \in Directory /\ (renames = 0 => op[a].stage = StageOf(a))
        /\ d \in Directory /\ op[a].at \in {"clone", "ended"}
    BY <1>1, StagesAreThere DEF DirectoryRecords, D0, HeldOK
  <1>3. DirectoryRecords'
    BY <1>1, <1>2 DEF DirectoryRecords
  <1>4. StagesApart'
    BY <1>1 DEF StagesApart, There
  <1>5. HeldOK'
    BY <1>1 DEF HeldOK
  <1>6. PayloadsOK'
    <2>1. ASSUME NEW b \in Op, d = PayloadOf(b), b # a
          PROVE  FALSE
      <3>1. op[a].stage = op[b].stage
        BY <1>1, <1>2, <2>1 DEF PayloadsOK
      <3>2. op[a].stage # None0
        BY <1>2, Names
      <3> QED
        BY <2>1, <3>1, <3>2 DEF StagesApart
    <2>2. \A x \in Directory : x # d => content'[x] = content[x]
      BY <1>1, <1>2 DEF DirectoryRecords
    <2> QED
      BY <1>1, <1>2, <2>1, <2>2, Names DEF PayloadsOK, HeldOK
  <1>7. Undisturbed'
    <2>1. \A x \in Directory : x # d => content'[x] = content[x]
      BY <1>1, <1>2 DEF DirectoryRecords
    <2>2. renames = 0 => d = PayloadOf(a)
      BY <1>1, <1>2 DEF Undisturbed
    <2> QED
      BY <1>1, <1>2, <2>1, <2>2, Names DEF Undisturbed
  <1> QED
    BY <1>3, <1>4, <1>5, <1>6, <1>7

LEMMA CloneSucceedsKeeps ==
  ASSUME DirectoryInv, NEW a \in Op, CloneSucceeds(a)
  PROVE  DirectoryInv'
  <1> USE DEF DirectoryInv
  <1> DEFINE d == payloadIn[op[a].stage]
  <1>1. /\ UNCHANGED <<parent, payloadIn, resolves, renames>> /\ op[a].git /\ op[a].at = "clone"
        /\ content' = [content EXCEPT ![d] = {"whole"}]
    BY DEF CloneSucceeds, At
  <1>2. OpIs(a, "publish", op[a].stage, op[a].payload, op[a].opened, FALSE)
    BY DEF CloneSucceeds, DirectoryRecords, Operations, OpIs, Place, Held
  <1>3. /\ op[a].stage \in Directory /\ (renames = 0 => op[a].stage = StageOf(a))
        /\ \A x \in Directory : content'[x] = IF x = d THEN {"whole"} ELSE content[x]
    BY <1>1, StagesAreThere DEF DirectoryRecords
  <1>4. DirectoryRecords'
    BY <1>1, <1>2 DEF DirectoryRecords, OpIs
  <1>5. StagesApart'
    BY <1>1, <1>2 DEF StagesApart, OpIs, There
  <1>6. HeldOK'
    BY <1>1, <1>2 DEF HeldOK, OpIs, Held
  <1>7. PayloadsOK'
    <2>1. \A x \in Directory : "part" \in content'[x] => x # d /\ "part" \in content[x]
      BY <1>3
    <2>2. ASSUME NEW b \in Op \ {a}
          PROVE  op'[b] = op[b] /\ PayloadOf(b) \in Directory
      BY <1>2, Names DEF OpIs
    <2>3. op'[a].at = "publish" /\ op'[a].stage = op[a].stage /\ PayloadOf(a) \in Directory /\ ~op'[a].git
      BY <1>2, Names DEF OpIs
    <2> HIDE DEF d
    <2>4. op'[a].payload = op[a].payload
      BY <1>2 DEF OpIs
    <2>5. parent.dest # PayloadOf(a)
      BY <1>1 DEF PayloadsOK
    <2>6. ASSUME NEW b \in Op
          PROVE  /\ \A c \in Op \ {b} : op'[c].payload # PayloadOf(b)
                 /\ \A x \in Directory : payloadIn'[x] = PayloadOf(b) =>
                      /\ x = op'[b].stage /\ op'[b].at \notin {"idle", "stage", "open", "payload"}
                      /\ parent'.dest # PayloadOf(b)
                      /\ op'[b].at \in {"clone", "publish", "rename"} => op'[b].payload = PayloadOf(b)
                 /\ parent'.dest = PayloadOf(b) =>
                      /\ op'[b].at \in {"check", "empty", "cleanup", "remove", "ended"} /\ ~op'[b].git
                      /\ op'[b].payload = PayloadOf(b)
      <3>1. CASE b = a
        BY <1>1, <2>2, <2>3, <2>4, <2>5, <3>1 DEF PayloadsOK
      <3>2. CASE b # a
        BY <1>1, <2>2, <2>4, <3>2 DEF PayloadsOK
      <3> QED
        BY <3>1, <3>2
    <2>7. ASSUME NEW b \in Op, b \in Clones
          PROVE  /\ parent'.dest = PayloadOf(b) => content'[PayloadOf(b)] = {"whole"} \/ op'[b].result = "conflict"
                 /\ op'[b].at \in {"publish", "rename"} /\ payloadIn'[op'[b].stage] = PayloadOf(b) =>
                      content'[PayloadOf(b)] = {"whole"}
      <3>1. CASE b = a
        BY <1>1, <1>3, <2>3, <2>5, <3>1, Names DEF d
      <3>2. CASE b # a
        <4>1. content[PayloadOf(b)] = {"whole"} => content'[PayloadOf(b)] = {"whole"}
          BY <1>3, Names
        <4> QED
          BY <1>1, <2>2, <2>7, <3>2, <4>1 DEF PayloadsOK
      <3> QED
        BY <3>1, <3>2
    <2> QED
      BY <2>6, <2>7 DEF PayloadsOK
  <1>8. Undisturbed'
    <2>1. renames = 0 => d = PayloadOf(a)
      BY <1>1, <1>3 DEF Undisturbed
    <2> QED
      BY <1>1, <1>2, <1>3, <2>1, Names DEF Undisturbed, OpIs, Held
  <1> QED
    BY <1>4, <1>5, <1>6, <1>7, <1>8

LEMMA RenameKeeps ==
  ASSUME DirectoryInv, NEW a \in Op, Rename(a)
  PROVE  DirectoryInv'
  <1> USE DEF DirectoryInv
  <1> DEFINE d == payloadIn[op[a].stage]
  <1>1. /\ UNCHANGED <<content, resolves, renames>> /\ op[a].at = "rename"
        /\ op[a].stage \in Directory /\ (renames = 0 => op[a].stage = StageOf(a)) /\ d \in D0
    BY StagesAreThere DEF Rename, At, Held, DirectoryRecords
  <1>2. CASE Free /\ d # None0
    <2>1. OpIs(a, "check", op[a].stage, op[a].payload, op[a].opened, op[a].git)
      BY <1>2, Moves DEF Rename, DirectoryRecords, Place, Held
    <2>2. /\ parent' \in [dest : D0, aside : D0, stage : [Op -> D0]]
          /\ parent'.dest = d /\ parent'.stage = parent.stage
          /\ payloadIn' \in [Directory -> D0]
          /\ \A x \in Directory : payloadIn'[x] = IF x = op[a].stage THEN None0 ELSE payloadIn[x]
      BY <1>1, <1>2 DEF Rename, DirectoryRecords, D0
    <2>3. DirectoryRecords'
      BY <1>1, <2>1, <2>2 DEF DirectoryRecords, OpIs
    <2>4. StagesApart'
      BY <1>1, <2>1, <2>2 DEF StagesApart, OpIs, There
    <2>5. HeldOK'
      BY <1>1, <2>1, <2>2 DEF HeldOK, OpIs, Held
    <2>6. PayloadsOK'
      <3>1. \A b \in Op : d = PayloadOf(b) => b = a
        <4>1. ASSUME NEW b \in Op, d = PayloadOf(b)
              PROVE  op[b].stage = op[a].stage
          BY <1>1, <4>1 DEF PayloadsOK
        <4>2. op[a].stage # None0
          BY <1>1, Names
        <4> QED
          BY <4>1, <4>2 DEF StagesApart
      <3>2. \A b \in Op : PayloadOf(b) # None0
        BY Names
      <3>3. \A b \in Op : op[b].at \in {"publish", "rename"} => op[b].stage \in Directory
        BY StagesAreThere DEF Held
      <3>4. ~op[a].git
        BY <1>1 DEF HeldOK
      <3> QED
        BY <1>1, <2>1, <2>2, <3>1, <3>2, <3>3, <3>4 DEF PayloadsOK, OpIs
    <2>7. Undisturbed'
      BY <1>1, <2>1, <2>2, Names DEF Undisturbed, OpIs, Held
    <2> QED
      BY <2>3, <2>4, <2>5, <2>6, <2>7
  <1>3. CASE ~(Free /\ d # None0)
    <2>1. OpIs(a, "cleanup", op[a].stage, op[a].payload, op[a].opened, op[a].git) /\ UNCHANGED <<parent, payloadIn>>
      BY <1>3, Moves DEF Rename, DirectoryRecords, Place, Held
    <2>2. DirectoryRecords'
      BY <1>1, <2>1 DEF DirectoryRecords, OpIs
    <2>3. StagesApart'
      BY <1>1, <2>1 DEF StagesApart, OpIs, There
    <2>4. HeldOK'
      BY <1>1, <2>1 DEF HeldOK, OpIs, Held
    <2>5. PayloadsOK'
      BY <1>1, <2>1 DEF PayloadsOK, OpIs
    <2>6. Undisturbed'
      BY <1>1, <2>1 DEF Undisturbed, OpIs, Held
    <2> QED
      BY <2>2, <2>3, <2>4, <2>5, <2>6
  <1> QED
    BY <1>2, <1>3

LEMMA CheckKeeps ==
  ASSUME DirectoryInv, NEW a \in Op, Check(a)
  PROVE  DirectoryInv'
  <1> USE DEF DirectoryInv
  <1>1. UNCHANGED <<parent, payloadIn, content, resolves, renames>> /\ op[a].at = "check"
    BY DEF Check, At
  <1>2. PICK at \in {"cleanup", "empty"} :
          /\ OpIs(a, at, op[a].stage, op[a].payload, op[a].opened, op[a].git)
          /\ op'[a].result \in {"created", "conflict"} /\ (at = "empty" => op'[a].result = "conflict")
          /\ op'[a].result = "created" => at = "cleanup"
    <2>1. CASE op' = [op EXCEPT ![a].at = "cleanup", ![a].result = "created"]
      BY <2>1, ZenonT(60) DEF DirectoryRecords, Operations, OpIs, Place, Held
    <2>2. CASE op' = [op EXCEPT ![a].at = "empty", ![a].result = "conflict"]
      BY <2>2, ZenonT(60) DEF DirectoryRecords, Operations, OpIs, Place, Held
    <2> QED
      BY <2>1, <2>2 DEF Check
  <1>4. DirectoryRecords'
    BY <1>1, <1>2 DEF DirectoryRecords, OpIs
  <1>5. StagesApart'
    BY <1>1, <1>2 DEF StagesApart, OpIs, There
  <1>6. HeldOK'
    BY <1>1, <1>2 DEF HeldOK, OpIs, Held
  <1>3. /\ \A b \in Op \ {a} : op'[b] = op[b]
        /\ op'[a].at \in {"cleanup", "empty"} /\ op'[a].stage = op[a].stage /\ op'[a].payload = op[a].payload
        /\ op'[a].git = op[a].git /\ op[a].result # "conflict"
    BY <1>1, <1>2 DEF OpIs, HeldOK
  <1>7. PayloadsOK'
    <2>1. ASSUME NEW b \in Op
          PROVE  /\ \A c \in Op \ {b} : op'[c].payload # PayloadOf(b)
                 /\ \A x \in Directory : payloadIn'[x] = PayloadOf(b) =>
                      /\ x = op'[b].stage /\ op'[b].at \notin {"idle", "stage", "open", "payload"}
                      /\ parent'.dest # PayloadOf(b)
                      /\ op'[b].at \in {"clone", "publish", "rename"} => op'[b].payload = PayloadOf(b)
                 /\ parent'.dest = PayloadOf(b) =>
                      /\ op'[b].at \in {"check", "empty", "cleanup", "remove", "ended"} /\ ~op'[b].git
                      /\ op'[b].payload = PayloadOf(b)
      <3>1. CASE b = a
        BY <1>1, <1>3, <3>1 DEF PayloadsOK
      <3>2. CASE b # a
        BY <1>1, <1>3, <3>2 DEF PayloadsOK
      <3> QED
        BY <3>1, <3>2
    <2>2. ASSUME NEW b \in Op, b \in Clones
          PROVE  /\ parent'.dest = PayloadOf(b) => content'[PayloadOf(b)] = {"whole"} \/ op'[b].result = "conflict"
                 /\ op'[b].at \in {"publish", "rename"} /\ payloadIn'[op'[b].stage] = PayloadOf(b) =>
                      content'[PayloadOf(b)] = {"whole"}
      <3>1. CASE b = a
        BY <1>1, <1>3, <2>2, <3>1 DEF PayloadsOK
      <3>2. CASE b # a
        BY <1>1, <1>3, <2>2, <3>2 DEF PayloadsOK
      <3> QED
        BY <3>1, <3>2
    <2> QED
      BY <2>1, <2>2 DEF PayloadsOK
  <1>8. Undisturbed'
    BY <1>1, <1>2, Names DEF Undisturbed, OpIs, Held
  <1> QED
    BY <1>4, <1>5, <1>6, <1>7, <1>8

\* Emptying a directory step by step changes the content of that directory alone.
LEMMA EntryGoes ==
  ASSUME DirectoryRecords, NEW d, ClearsEntry(d)
  PROVE  /\ op' = op /\ content' \in [Directory -> SUBSET {"user", "part", "whole"}]
         /\ \A x \in Directory : x # d => content'[x] = content[x]
  BY DEF ClearsEntry, RestOf, DirectoryRecords

\* The operation empties its own payload: nobody else's, and not one that is
\* whole under the destination's name.
LEMMA EmptyingKeeps ==
  ASSUME DirectoryInv, NEW a \in Op, op[a].at \in {"empty", "clear"}, ClearsEntry(op[a].payload),
         UNCHANGED <<parent, payloadIn, resolves, renames>>
  PROVE  DirectoryInv'
  <1> USE DEF DirectoryInv
  <1>1. /\ op' = op /\ content' \in [Directory -> SUBSET {"user", "part", "whole"}]
        /\ \A x \in Directory : x # op[a].payload => content'[x] = content[x]
    BY EntryGoes
  <1>2. DirectoryRecords'
    BY <1>1 DEF DirectoryRecords
  <1>3. StagesApart' /\ HeldOK'
    BY <1>1 DEF StagesApart, HeldOK, There
  <1>4. PayloadsOK'
    <2>1. \A b \in Op : PayloadOf(b) = op[a].payload => b = a
      BY DEF PayloadsOK
    <2>2. parent.dest = PayloadOf(a) => op[a].result = "conflict"
      BY DEF PayloadsOK, HeldOK
    <2>3. \A b \in Op : content'[PayloadOf(b)] = content[PayloadOf(b)] \/ b = a
      BY <1>1, <2>1, Names
    <2> QED
      BY <1>1, <2>2, <2>3 DEF PayloadsOK
  <1>5. Undisturbed'
    <2>1. renames = 0 => op[a].payload \in {None0, PayloadOf(a)}
      BY DEF Undisturbed
    <2>2. renames = 0 => \A b \in Op : /\ content'[StageOf(b)] = content[StageOf(b)]
                                       /\ b # a => content'[PayloadOf(b)] = content[PayloadOf(b)]
      BY <1>1, <2>1, Names
    <2> QED
      BY <1>1, <2>2 DEF Undisturbed
  <1> QED
    BY <1>2, <1>3, <1>4, <1>5

LEMMA EmptyPublishedKeeps ==
  ASSUME DirectoryInv, NEW a \in Op, EmptyPublished(a)
  PROVE  DirectoryInv'
  <1> USE DEF DirectoryInv
  <1>1. op[a].at = "empty" /\ UNCHANGED <<parent, payloadIn, resolves, renames>>
    BY DEF EmptyPublished, At
  <1>2. CASE ClearsEntry(op[a].payload)
    BY <1>1, <1>2, EmptyingKeeps
  <1>3. CASE To(a, "cleanup") /\ UNCHANGED content
    <2>1. OpIs(a, "cleanup", op[a].stage, op[a].payload, op[a].opened, op[a].git) /\ op'[a].result = op[a].result
      BY <1>3, Moves DEF DirectoryRecords, Place, Held
    <2>2. DirectoryRecords'
      BY <1>1, <1>3, <2>1 DEF DirectoryRecords, OpIs
    <2>3. StagesApart'
      BY <1>1, <2>1 DEF StagesApart, OpIs, There
    <2>4. HeldOK'
      BY <1>1, <2>1 DEF HeldOK, OpIs, Held
    <2>5. PayloadsOK'
      BY <1>1, <1>3, <2>1 DEF PayloadsOK, OpIs
    <2>6. Undisturbed'
      BY <1>1, <1>3, <2>1 DEF Undisturbed, OpIs, Held
    <2> QED
      BY <2>2, <2>3, <2>4, <2>5, <2>6
  <1> QED
    BY <1>2, <1>3 DEF EmptyPublished

LEMMA CleanupFailsKeeps ==
  ASSUME DirectoryInv, NEW a \in Op, CleanupFails(a)
  PROVE  DirectoryInv'
  <1> USE DEF DirectoryInv
  <1>1. /\ op[a].at \in {"cleanup", "clear", "unlink", "remove"}
        /\ UNCHANGED <<parent, payloadIn, content, resolves, renames>>
    BY DEF CleanupFails
  <1>2. /\ OpIs(a, "ended", op[a].stage, op[a].payload, op[a].opened, op[a].git)
        /\ op'[a].result = op[a].result /\ op'[a].residue
    BY ZenonT(40) DEF CleanupFails, DirectoryRecords, Operations, OpIs, Place, Held
  <1>3. DirectoryRecords'
    BY <1>1, <1>2 DEF DirectoryRecords, OpIs
  <1>4. StagesApart'
    BY <1>1, <1>2 DEF StagesApart, OpIs, There
  <1>5. HeldOK'
    BY <1>1, <1>2 DEF HeldOK, OpIs, Held
  <1>6. PayloadsOK'
    BY <1>1, <1>2 DEF PayloadsOK, OpIs
  <1>7. Undisturbed'
    <2>1. ~op[a].git
      BY <1>1 DEF HeldOK
    <2> QED
      BY <1>1, <1>2, <2>1 DEF Undisturbed, OpIs, Held
  <1> QED
    BY <1>3, <1>4, <1>5, <1>6, <1>7

LEMMA CleanupKeeps ==
  ASSUME DirectoryInv, NEW a \in Op, Cleanup(a)
  PROVE  DirectoryInv'
  <1> USE DEF DirectoryInv
  <1> DEFINE d == payloadIn[op[a].stage]
  <1>1. /\ UNCHANGED <<parent, payloadIn, content, resolves, renames>> /\ op[a].at = "cleanup"
        /\ op[a].stage \in Directory /\ (renames = 0 => op[a].stage = StageOf(a)) /\ d \in D0
    BY StagesAreThere DEF Cleanup, At, Held, DirectoryRecords
  <1>2. PICK at \in {"ended", "remove", "clear"} :
          /\ OpIs(a, at, op[a].stage, op[a].payload, d, op[a].git) /\ op'[a].result = op[a].result
          /\ at = "ended" => content[op[a].stage] # {} \/ (d # None0 /\ ~Retained(a))
          /\ at = "remove" => d = None0
          /\ at = "clear" => Retained(a)
    <2> DEFINE strange == content[op[a].stage] # {}
               at == IF strange THEN "ended"
                     ELSE IF d = None0 THEN "remove"
                     ELSE IF Retained(a) THEN "clear" ELSE "ended"
    <2>1. op' = [op EXCEPT ![a].opened = d, ![a].at = at]
      BY DEF Cleanup
    <2>2. /\ at \in {"ended", "remove", "clear"}
          /\ at = "ended" => strange \/ (d # None0 /\ ~Retained(a))
          /\ at = "remove" => d = None0
          /\ at = "clear" => Retained(a)
      <3> HIDE DEF strange, d
      <3> QED
        OBVIOUS
    <2> HIDE DEF at
    <2>3. OpIs(a, at, op[a].stage, op[a].payload, d, op[a].git) /\ op'[a].result = op[a].result
      BY <1>1, <2>1, <2>2 DEF DirectoryRecords, Operations, OpIs, Place, Held
    <2> QED
      BY <2>2, <2>3
  <1>3. DirectoryRecords'
    BY <1>1, <1>2 DEF DirectoryRecords, OpIs
  <1>4. StagesApart'
    BY <1>1, <1>2 DEF StagesApart, OpIs, There
  <1>5. HeldOK'
    BY <1>1, <1>2 DEF HeldOK, OpIs, Held, Retained
  <1>6. PayloadsOK'
    <2>1. at = "clear" => parent.dest # PayloadOf(a)
      BY <1>1, <1>2, Names DEF PayloadsOK, Retained
    <2> HIDE DEF d
    <2> QED
      BY <1>1, <1>2, <2>1 DEF PayloadsOK, OpIs
  <1>7. Undisturbed'
    BY <1>1, <1>2, Names DEF Undisturbed, OpIs, Held, Retained
  <1> QED
    BY <1>3, <1>4, <1>5, <1>6, <1>7

LEMMA ClearKeeps ==
  ASSUME DirectoryInv, NEW a \in Op, Clear(a)
  PROVE  DirectoryInv'
  <1> USE DEF DirectoryInv
  <1>a. CASE op[a].at = "clear" /\ ClearsEntry(op[a].opened)
    <2>1. ClearsEntry(op[a].payload) /\ UNCHANGED <<parent, payloadIn, resolves, renames>>
      BY <1>a DEF Clear, At, HeldOK, ClearsEntry, To
    <2> QED
      BY <1>a, <2>1, EmptyingKeeps
  <1>1. CASE op[a].at = "clear" /\ content[op[a].opened] = {} /\ To(a, "unlink")
    <2>1. UNCHANGED <<parent, payloadIn, content, resolves, renames>>
      BY <1>1 DEF Clear, At, ClearsEntry
    <2>2. OpIs(a, "unlink", op[a].stage, op[a].payload, op[a].opened, op[a].git)
      BY <1>1, Moves DEF DirectoryRecords, Place, Held
    <2>4. DirectoryRecords'
      BY <2>1, <2>2 DEF DirectoryRecords, OpIs
    <2>5. StagesApart'
      BY <2>1, <2>2 DEF StagesApart, OpIs, There
    <2>6. HeldOK'
      BY <1>1, <2>1, <2>2 DEF HeldOK, OpIs, Held
    <2>7. PayloadsOK'
      BY <1>1, <2>1, <2>2, Names DEF PayloadsOK, OpIs
    <2>8. Undisturbed'
      BY <1>1, <2>1, <2>2, Names DEF Undisturbed, HeldOK, OpIs, Held
    <2> QED
      BY <2>4, <2>5, <2>6, <2>7, <2>8
  <1>2. CASE op[a].at = "unlink"
    <2>1. UNCHANGED <<parent, content, resolves, renames>> /\ op[a].stage \in Directory
          /\ (renames = 0 => op[a].stage = StageOf(a))
      BY <1>2, StagesAreThere DEF Clear, At, Held
    <2>2. CASE payloadIn[op[a].stage] = op[a].opened /\ Empty(op[a].opened)
      <3>1. OpIs(a, "remove", op[a].stage, op[a].payload, op[a].opened, op[a].git)
        BY <1>2, <2>2, Moves DEF Clear, At, DirectoryRecords, Place, Held
      <3>2. /\ payloadIn' \in [Directory -> D0]
            /\ \A x \in Directory : payloadIn'[x] = IF x = op[a].stage THEN None0 ELSE payloadIn[x]
        BY <1>2, <2>1, <2>2 DEF Clear, At, DirectoryRecords, D0
      <3>3. DirectoryRecords'
        BY <2>1, <3>1, <3>2 DEF DirectoryRecords, OpIs
      <3>4. StagesApart'
        BY <2>1, <3>1 DEF StagesApart, OpIs, There
      <3>5. HeldOK'
        BY <1>2, <2>1, <3>1 DEF HeldOK, OpIs, Held
      <3>6. PayloadsOK'
        <4>1. \A b \in Op : op[b].at \in {"publish", "rename"} => op[b].stage \in Directory
          BY StagesAreThere DEF Held
        <4>2. /\ \A b \in Op \ {a} : op'[b] = op[b]
              /\ op'[a].at = "remove" /\ op'[a].stage = op[a].stage /\ op'[a].payload = op[a].payload
              /\ op'[a].git = op[a].git
          BY <3>1 DEF OpIs
        <4>3. \A x \in Directory, b \in Op : payloadIn'[x] = PayloadOf(b) => payloadIn[x] = PayloadOf(b)
          BY <3>2, Names
        <4>4. parent.dest # PayloadOf(a)
          BY <1>2 DEF PayloadsOK
        <4>5. ASSUME NEW b \in Op
              PROVE  /\ \A c \in Op \ {b} : op'[c].payload # PayloadOf(b)
                     /\ \A x \in Directory : payloadIn'[x] = PayloadOf(b) =>
                          /\ x = op'[b].stage /\ op'[b].at \notin {"idle", "stage", "open", "payload"}
                          /\ parent'.dest # PayloadOf(b)
                          /\ op'[b].at \in {"clone", "publish", "rename"} => op'[b].payload = PayloadOf(b)
                     /\ parent'.dest = PayloadOf(b) =>
                          /\ op'[b].at \in {"check", "empty", "cleanup", "remove", "ended"} /\ ~op'[b].git
                          /\ op'[b].payload = PayloadOf(b)
          <5>1. CASE b = a
            BY <2>1, <4>2, <4>3, <4>4, <5>1 DEF PayloadsOK
          <5>2. CASE b # a
            BY <2>1, <4>2, <4>3, <5>2 DEF PayloadsOK
          <5> QED
            BY <5>1, <5>2
        <4>6. ASSUME NEW b \in Op, b \in Clones
              PROVE  /\ parent'.dest = PayloadOf(b) => content'[PayloadOf(b)] = {"whole"} \/ op'[b].result = "conflict"
                     /\ op'[b].at \in {"publish", "rename"} /\ payloadIn'[op'[b].stage] = PayloadOf(b) =>
                          content'[PayloadOf(b)] = {"whole"}
          <5>1. CASE b = a
            BY <2>1, <4>2, <4>4, <5>1
          <5>2. CASE b # a
            BY <2>1, <4>1, <4>2, <4>3, <4>6, <5>2 DEF PayloadsOK
          <5> QED
            BY <5>1, <5>2
        <4> QED
          BY <4>5, <4>6 DEF PayloadsOK
      <3>7. Undisturbed'
        BY <1>2, <2>1, <3>1, <3>2, Names DEF Undisturbed, OpIs, Held
      <3> QED
        BY <3>3, <3>4, <3>5, <3>6, <3>7
    <2>3. CASE ~(payloadIn[op[a].stage] = op[a].opened /\ Empty(op[a].opened))
      <3>1. OpIs(a, "ended", op[a].stage, op[a].payload, op[a].opened, op[a].git) /\ payloadIn' = payloadIn
        BY <1>2, <2>3, Moves DEF Clear, At, DirectoryRecords, Place, Held
      <3>2. DirectoryRecords'
        BY <2>1, <3>1 DEF DirectoryRecords, OpIs
      <3>3. StagesApart'
        BY <2>1, <3>1 DEF StagesApart, OpIs, There
      <3>4. HeldOK'
        BY <1>2, <2>1, <3>1 DEF HeldOK, OpIs, Held
      <3>5. PayloadsOK'
        BY <1>2, <2>1, <3>1 DEF PayloadsOK, OpIs
      <3>6. renames # 0
        BY <1>2, <2>1, <2>3 DEF Undisturbed, Empty
      <3> QED
        BY <2>1, <3>2, <3>3, <3>4, <3>5, <3>6 DEF Undisturbed
    <2> QED
      BY <2>2, <2>3
  <1> QED
    BY <1>a, <1>1, <1>2 DEF Clear, At

LEMMA RemoveStageKeeps ==
  ASSUME DirectoryInv, NEW a \in Op, RemoveStage(a)
  PROVE  DirectoryInv'
  <1> USE DEF DirectoryInv
  <1>1. /\ UNCHANGED <<payloadIn, content, resolves, renames>> /\ op[a].at = "remove"
        /\ op[a].stage \in Directory /\ (renames = 0 => op[a].stage = StageOf(a))
    BY StagesAreThere DEF RemoveStage, At, Held
  <1>2. OpIs(a, "ended", op[a].stage, op[a].payload, op[a].opened, op[a].git) /\ op'[a].result = op[a].result
    BY Moves DEF RemoveStage, DirectoryRecords, Place, Held
  <1>3. /\ parent'.dest = parent.dest /\ parent' \in [dest : D0, aside : D0, stage : [Op -> D0]]
        /\ \A b \in Op \ {a} : parent'.stage[b] = parent.stage[b]
        /\ parent'.stage[a] \in {parent.stage[a], None0}
    BY DEF RemoveStage, RemovedStage, DirectoryRecords, D0
  <1>4. DirectoryRecords'
    BY <1>1, <1>2, <1>3 DEF DirectoryRecords, OpIs
  <1>5. StagesApart'
    BY <1>1, <1>2, <1>3 DEF StagesApart, OpIs, There
  <1>6. HeldOK'
    BY <1>1, <1>2, <1>3 DEF HeldOK, OpIs, Held
  <1>7. PayloadsOK'
    BY <1>1, <1>2, <1>3 DEF PayloadsOK, OpIs
  <1>8. Undisturbed'
    <2>1. renames = 0 => parent'.stage[a] = None0
      BY <1>1, Names DEF Undisturbed, RemoveStage, RemovedStage, Empty, Held, DirectoryRecords
    <2>2. ~op[a].git
      BY <1>1 DEF HeldOK
    <2> QED
      BY <1>1, <1>2, <1>3, <2>1, <2>2 DEF Undisturbed, OpIs, Held
  <1> QED
    BY <1>4, <1>5, <1>6, <1>7, <1>8

\* What users rename is new or moves aside; the operations' records stay.
LEMMA UserRenamesKeeps ==
  ASSUME DirectoryInv, UserRenames
  PROVE  DirectoryInv'
  <1> USE DEF DirectoryInv
  <1> DEFINE new == 2 * NumOp + renames + 1
  <1>1. /\ UNCHANGED <<content, op>> /\ renames' = renames + 1 /\ renames < MaxRename
    BY DEF UserRenames
  <1>2. /\ renames' \in 0..MaxRename /\ renames' # 0
        /\ new \in Directory /\ new \in There' /\ There' = There \cup {new} /\ new \notin There
        /\ \A b \in Op : new # StageOf(b) /\ new # PayloadOf(b)
    <2>1. /\ renames \in 0..MaxRename /\ NumOp \in Nat /\ MaxRename \in Nat
          /\ renames' = renames + 1 /\ renames < MaxRename
      BY <1>1, LaunchDirectoryAssumption DEF DirectoryRecords
    <2>2. renames' \in 0..MaxRename /\ renames' # 0
      BY <2>1
    <2>3. new \in Directory /\ new \in There' /\ new \notin There
      BY <2>1 DEF There, Directory
    <2>4. There' = There \cup {new}
      BY <2>1 DEF There
    <2>5. \A b \in Op : new # StageOf(b) /\ new # PayloadOf(b)
      BY <2>1 DEF Op, StageOf, PayloadOf
    <2> QED
      BY <2>2, <2>3, <2>4, <2>5
  <1>3. /\ parent' \in [dest : D0, aside : D0, stage : [Op -> D0]] /\ payloadIn' \in [Directory -> D0]
        /\ resolves' \in BOOLEAN
        /\ parent'.dest \in {parent.dest, None0, new}
        /\ parent'.stage = parent.stage
            \/ \E c \in Op : /\ parent.stage[c] # None0 /\ parent'.stage[c] = new
                             /\ \A b \in Op \ {c} : parent'.stage[b] = parent.stage[b]
        /\ \A d \in Directory : payloadIn'[d] \in {payloadIn[d], new}
    <2>1. CASE parent' = parent /\ payloadIn' = payloadIn
      BY <2>1 DEF UserRenames, DirectoryRecords
    <2>2. CASE \/ parent' = [parent EXCEPT !.dest = new] /\ UNCHANGED <<payloadIn, resolves>>
               \/ /\ parent' = [parent EXCEPT !.aside = parent.dest, !.dest = None0]
                  /\ UNCHANGED <<payloadIn, resolves>>
      BY <1>2, <2>2 DEF DirectoryRecords, D0
    <2>3. CASE \E c \in Op : /\ parent.stage[c] # None0 /\ parent' = [parent EXCEPT !.stage[c] = new]
                             /\ UNCHANGED <<payloadIn, resolves>>
      BY <1>2, <2>3 DEF DirectoryRecords, D0
    <2>4. CASE \E c \in Op : /\ payloadIn' = [payloadIn EXCEPT ![StageOf(c)] = new]
                             /\ UNCHANGED <<parent, resolves>>
      BY <1>2, <2>4 DEF DirectoryRecords, D0
    <2> QED
      BY <2>1, <2>2, <2>3, <2>4 DEF UserRenames
  <1> HIDE DEF new
  <1>4. DirectoryRecords'
    BY <1>1, <1>2, <1>3 DEF DirectoryRecords
  <1>5. StagesApart'
    <2>1. \A b \in Op : op[b].stage # new /\ parent.stage[b] # new
      <3>1. new # None0
        BY <1>2, Names
      <3>2. \A b \in Op : new \notin {StageOf(b)} \cup There
        BY <1>2
      <3> QED
        BY <3>1, <3>2 DEF StagesApart
    <2>2. new # None0
      BY <1>2, Names
    <2> QED
      BY <1>1, <1>2, <1>3, <2>1, <2>2 DEF StagesApart
  <1>6. HeldOK'
    BY <1>1, <1>2, <1>3, Names DEF HeldOK
  <1>7. PayloadsOK'
    <2>1. \A b \in Op : op[b].at \in {"publish", "rename"} => op[b].stage \in Directory
      BY StagesAreThere DEF Held
    <2> QED
      BY <1>1, <1>2, <1>3, <2>1, Names DEF PayloadsOK
  <1>8. Undisturbed'
    BY <1>2 DEF Undisturbed
  <1> QED
    BY <1>4, <1>5, <1>6, <1>7, <1>8

LEMMA DirectoryKeeps ==
  ASSUME DirectoryInv, [DirectoryNext]_directoryVars
  PROVE  DirectoryInv'
  <1>1. CASE UserRenames
    BY <1>1, UserRenamesKeeps
  <1>2. ASSUME NEW a \in Op, OpStep(a)
        PROVE  DirectoryInv'
    BY <1>2, ResolveKeeps, MakeStageKeeps, OpenStageKeeps, MakePayloadKeeps, RetainPayloadKeeps, StartCloneKeeps,
       GitWritesKeeps, CloneSucceedsKeeps, CloneFailsKeeps, PublishKeeps, RenameKeeps, CheckKeeps, CleanupKeeps,
       ClearKeeps, RemoveStageKeeps, EmptyPublishedKeeps, CleanupFailsKeeps DEF OpStep
  <1>3. CASE UNCHANGED directoryVars
    BY <1>3 DEF directoryVars, DirectoryInv, DirectoryRecords, StagesApart, HeldOK, PayloadsOK, Undisturbed, There
  <1> QED
    BY <1>1, <1>2, <1>3 DEF DirectoryNext

LEMMA DirectoryStart ==
  ASSUME DirectoryInit
  PROVE  DirectoryInv
  <1>1. \A a \in Op : op[a] = NoOp
    BY DEF DirectoryInit
  <1>2. /\ \A a \in Op : op[a].at = "idle" /\ op[a].stage = None0 /\ op[a].payload = None0 /\ ~op[a].git
                         /\ op[a].result = "none"
        /\ op \in Operations
    BY <1>1 DEF DirectoryInit, NoOp, Operations, D0, Place
  <1>3. /\ \A a \in Op : parent.stage[a] = None0
        /\ parent.dest = None0 /\ \A d \in Directory : payloadIn[d] = None0
        /\ renames = 0
    BY DEF DirectoryInit
  <1>4. DirectoryRecords
    BY <1>2, <1>3, LaunchDirectoryAssumption DEF DirectoryInit, DirectoryRecords, D0
  <1>5. \A a \in Op : content[StageOf(a)] = {}
    <2>1. \A a \in Op : StageOf(a) \notin UserDirectory
      BY LaunchDirectoryAssumption DEF UserDirectory, Op, StageOf
    <2> QED
      BY <2>1, Names DEF DirectoryInit
  <1>6. StagesApart /\ HeldOK
    BY <1>2, <1>3 DEF StagesApart, HeldOK, Held
  <1>7. PayloadsOK /\ Undisturbed
    BY <1>2, <1>3, <1>5, Names DEF PayloadsOK, Undisturbed, Held
  <1> QED
    BY <1>4, <1>6, <1>7 DEF DirectoryInv

\* The invariant of the launch directories holds in every state of every behaviour.
THEOREM DirectoryInvariant == DirectorySpec => []DirectoryInv
  BY DirectoryStart, DirectoryKeeps, PTL DEF DirectorySpec

\* A clone is under the destination's name whole, or its operation answers
\* "conflict"; and where no user renames, no stage is left by an operation that
\* held its payload and whose cleanup had no error (publish_payload,
\* cleanup_published_directory, cleanup_staging_parts, CloneRunError.cleanup_safe).
THEOREM DestinationsAreWhole == DirectorySpec => [](DirectoryTypeOK /\ DestinationIsWhole)
  <1>1. DirectoryInv => DirectoryTypeOK /\ DestinationIsWhole
    <2> SUFFICES ASSUME DirectoryInv
                 PROVE  DirectoryTypeOK /\ DestinationIsWhole
      OBVIOUS
    <2>1. DirectoryTypeOK
      BY DEF DirectoryInv, DirectoryRecords, DirectoryTypeOK, Operations, D0
    <2>2. DestinationIsWhole
      <3>1. \A a \in Clones : a \in Op
        BY LaunchDirectoryAssumption DEF Op
      <3>2. ASSUME NEW a \in Clones, parent.dest = PayloadOf(a)
            PROVE  ~op[a].git /\ (content[parent.dest] = {"whole"} \/ op[a].result = "conflict")
        BY <3>1, <3>2 DEF DirectoryInv, PayloadsOK
      <3>3. ASSUME renames = 0, NEW a \in Op
            PROVE  IF op[a].git THEN parent.stage[a] = StageOf(a)
                   ELSE At(a, "ended") /\ ~op[a].residue
                          /\ (payloadIn[StageOf(a)] # None0 => op[a].payload # None0) => parent.stage[a] = None0
        BY <3>3 DEF DirectoryInv, Undisturbed, At
      <3> QED
        BY <3>2, <3>3 DEF DestinationIsWhole
    <2> QED
      BY <2>1, <2>2
  <1> QED
    BY <1>1, DirectoryInvariant, PTL

\* While nobody renames, a step replaces no entry and empties only its own.
LEMMA OwnIsCleared ==
  ASSUME DirectoryInv, [DirectoryNext]_directoryVars, renames' = renames
  PROVE  /\ parent.dest # None0 => parent'.dest = parent.dest
         /\ \A d \in Directory :
              content[d] \ {"part"} # {} /\ content'[d] # content[d] => \E a \in Op : op[a].payload = d
  <1> USE DEF DirectoryInv
  <1>1. CASE UserRenames
    BY <1>1 DEF UserRenames, DirectoryRecords
  <1>2. CASE UNCHANGED directoryVars
    BY <1>2, SMTT(40) DEF directoryVars
  <1>3. ASSUME NEW a \in Op, OpStep(a)
        PROVE  /\ parent.dest # None0 => parent'.dest = parent.dest
               /\ \A d \in Directory :
                    content[d] \ {"part"} # {} /\ content'[d] # content[d] => op[a].payload = d
    <2>1. CASE MakeStage(a) \/ OpenStage(a) \/ RemoveStage(a)
      BY <2>1 DEF MakeStage, OpenStage, RemoveStage, RemovedStage, DirectoryRecords
    <2>2. CASE Rename(a)
      BY <2>2 DEF Rename, Free
    <2>3. CASE GitWrites(a) \/ CloneSucceeds(a)
      <3>1. /\ parent' = parent
            /\ \E c \in {{"part"}, {"whole"}} : content' = [content EXCEPT ![payloadIn[op[a].stage]] = c]
            /\ content[payloadIn[op[a].stage]] \ {"part"} = {}
        BY <2>3 DEF GitWrites, CloneSucceeds
      <3> QED
        BY <3>1 DEF DirectoryRecords
    <2>4. CASE EmptyPublished(a)
      BY <2>4 DEF EmptyPublished, ClearsEntry, DirectoryRecords
    <2>5. CASE Clear(a)
      BY <2>5 DEF Clear, ClearsEntry, HeldOK, At, DirectoryRecords
    <2>6. CASE UNCHANGED <<parent, content>>
      BY <2>6
    <2> QED
      BY <1>3, <2>1, <2>2, <2>3, <2>4, <2>5, <2>6
         DEF OpStep, Resolve, MakePayload, RetainPayload, StartClone, CloneFails, Publish, Check, Cleanup, CleanupFails
  <1> QED
    BY <1>1, <1>2, <1>3 DEF DirectoryNext

\* "Never cause an unrelated replacement to be deleted": no operation replaces
\* an entry of the destination's name, or empties what it has not held since it
\* made it (RenameFlags::NOREPLACE, clear_directory of the opened payload).
THEOREM OthersStay == DirectorySpec => OthersAreKept
  <1> DEFINE Stay == renames' = renames =>
               /\ parent.dest # None0 => parent'.dest = parent.dest
               /\ \A d \in Directory :
                    content[d] \ {"part"} # {} /\ content'[d] # content[d] => \E a \in Op : op[a].payload = d
  <1>1. DirectoryInv /\ [DirectoryNext]_directoryVars => [Stay]_directoryVars
    BY OwnIsCleared
  <1> QED
    BY <1>1, DirectoryInvariant, PTL DEF DirectorySpec, OthersAreKept

-----------------------------------------------------------------------------
(* Images of messages.  The bound on the directory counts, beside the files *)
(* that are there, those that the messages past their check will still add. *)

MailPlace == {"idle", "scan", "write", "paste", "submit", "sent", "failed", "dead"}
Staging == {"scan", "write"}
MailRecord == [at : MailPlace, toScan : SUBSET CacheFile, retained : Nat, written : 0..NumImage, shown : BOOLEAN]

SpoolRecords ==
  /\ cache \subseteq CacheFile /\ expired \subseteq CacheFile /\ IsFiniteSet(cache)
  /\ stageLock \in [Host -> Mail \cup {Nobody}]
  /\ mail \in [Mail -> MailRecord]

\* One message of a process is staged at a time.
Locks ==
  \A m \in Mail :
    /\ mail[m].at \in Staging => stageLock[HostOf[m]] = m
    /\ mail[m].at \in {"idle", "scan"} => mail[m].written = 0
    /\ mail[m].at = "write" => mail[m].written < NumImage
    /\ mail[m].shown => mail[m].at = "sent"

\* The files of a message are there as far as it has come.
Kept ==
  \A m \in Mail :
    /\ mail[m].at \in {"idle", "scan", "failed"} => MailFile(m) \cap cache = {}
    /\ mail[m].at \in {"idle", "scan", "write"} => MailFile(m) \cap expired = {}
    /\ mail[m].at = "write" => MailFile(m) \cap cache = {<<m, i>> : i \in 1..mail[m].written}
    /\ mail[m].at \in {"paste", "submit", "sent"} => MailFile(m) \subseteq cache \cup expired

\* A scan does not overlook an old file, so none is left when it is over.
Scans ==
  \A m \in Mail :
    /\ mail[m].at = "scan" => cache \cap expired \subseteq mail[m].toScan /\ IsFiniteSet(mail[m].toScan)
    /\ mail[m].at = "write" => cache \cap expired = {}

\* It has passed the check, or will if no file it has yet to scan is removed.
Passes(m) ==
  \/ mail[m].at = "write"
  \/ /\ mail[m].at = "scan"
     /\ mail[m].retained + Cardinality(mail[m].toScan \ expired) + NumImage <= CacheCap

ToCome(m) == IF Passes(m) THEN {<<m, i>> : i \in (mail[m].written + 1)..NumImage} ELSE {}

Reserved == ((cache \ OldFile) \ expired) \cup UNION {ToCome(m) : m \in Mail}

Most == CacheCap + NumImage * (Cardinality(Host) - 1)

CacheBounded ==
  /\ Cardinality(cache \ OldFile) <= Most
  /\ IsFiniteSet(Reserved) /\ Cardinality(Reserved) <= Most

SpoolInv == SpoolRecords /\ Locks /\ Kept /\ Scans /\ CacheBounded

LEMMA FileNames ==
  ASSUME NEW m \in Mail
  PROVE  /\ MailFile(m) \subseteq CacheFile /\ MailFile(m) \cap OldFile = {}
         /\ \A n \in Mail \ {m} : MailFile(m) \cap MailFile(n) = {}
         /\ \A i \in Image : <<m, i>> \in MailFile(m)
  BY SpoolAssumption DEF MailFile, OldFile, CacheFile, Image

LEMMA NumbersHold ==
  /\ Cardinality(Host) \in Nat \ {0} /\ NumImage \in Nat \ {0} /\ CacheCap \in Nat /\ Most \in Nat
  <1>1. Cardinality(Host) \in Nat /\ Cardinality(Host) # 0
    BY SpoolAssumption, FS_CardinalityType, FS_EmptySet
  <1>2. \A a \in Nat, b \in Nat \ {0} : a * (b - 1) \in Nat
    OBVIOUS
  <1> QED
    BY <1>1, <1>2, SpoolAssumption DEF Most

\* What a message still adds depends on its record and on what is old.
LEMMA StillToCome ==
  ASSUME NEW m \in Mail, mail'[m] = mail[m], expired' = expired
  PROVE  ToCome(m)' = ToCome(m)
  BY DEF ToCome, Passes

\* No step but the start of a scan reserves more, and a file is only written
\* where it was reserved.
LEMMA StaysBounded ==
  ASSUME SpoolRecords, CacheBounded,
         ((cache' \ OldFile) \ expired') \subseteq Reserved,
         \A m \in Mail : ToCome(m)' \subseteq Reserved,
         cache' \ OldFile \subseteq cache \ OldFile \/ cache' \ OldFile \subseteq Reserved
  PROVE  CacheBounded'
  <1>1. Reserved' \subseteq Reserved
    <2>1. UNION {ToCome(m)' : m \in Mail} \subseteq Reserved
      OBVIOUS
    <2>2. Reserved' = ((cache' \ OldFile) \ expired') \cup UNION {ToCome(m)' : m \in Mail}
      BY DEF Reserved, OldFile
    <2> QED
      BY <2>1, <2>2
  <1>2. IsFiniteSet(cache \ OldFile)
    BY FS_Subset DEF SpoolRecords
  <1>3. PICK all \in {cache \ OldFile, Reserved} : cache' \ OldFile \subseteq all
    OBVIOUS
  <1>4. IsFiniteSet(all) /\ Cardinality(all) <= Most /\ Cardinality(all) \in Nat
    BY <1>2, <1>3, FS_CardinalityType DEF CacheBounded
  <1>5. IsFiniteSet(cache' \ OldFile) /\ Cardinality(cache' \ OldFile) <= Cardinality(all)
    BY <1>3, <1>4, FS_Subset
  <1>6. IsFiniteSet(Reserved') /\ Cardinality(Reserved') <= Cardinality(Reserved)
    BY <1>1, FS_Subset DEF CacheBounded
  <1>7. /\ Cardinality(cache' \ OldFile) \in Nat /\ Cardinality(Reserved') \in Nat /\ Cardinality(Reserved) \in Nat
    BY <1>5, <1>6, FS_CardinalityType DEF CacheBounded
  <1>8. CacheBounded' = (/\ Cardinality(cache' \ OldFile) <= Most
                    /\ IsFiniteSet(Reserved') /\ Cardinality(Reserved') <= Most)
    BY DEF CacheBounded, Most, OldFile
  <1> QED
    BY <1>4, <1>5, <1>6, <1>7, <1>8, NumbersHold DEF CacheBounded

LEMMA MailGoes ==
  ASSUME NEW m \in Mail, mail \in [Mail -> MailRecord], NEW at \in MailPlace, MailTo(m, at)
  PROVE  /\ mail' \in [Mail -> MailRecord] /\ \A n \in Mail \ {m} : mail'[n] = mail[n]
         /\ mail'[m].at = at /\ mail'[m].toScan = mail[m].toScan /\ mail'[m].retained = mail[m].retained
         /\ mail'[m].written = mail[m].written /\ mail'[m].shown = mail[m].shown
  BY DEF MailTo, MailRecord

\* A staging or delivery that fails leaves no file, and the lock to the next.
LEMMA FailureKeeps ==
  ASSUME SpoolInv, NEW m \in Mail, MailTo(m, "failed"), expired' = expired,
         mail[m].at \in {"scan", "write", "paste", "submit"},
         cache' = cache \ MailFile(m),
         IF mail[m].at \in Staging THEN Unlock(m) ELSE stageLock' = stageLock
  PROVE  SpoolInv'
  <1>1. /\ mail' \in [Mail -> MailRecord] /\ \A n \in Mail \ {m} : mail'[n] = mail[n]
        /\ mail'[m].at = "failed" /\ mail'[m].shown = mail[m].shown
    BY MailGoes DEF SpoolInv, SpoolRecords, MailPlace
  <1>2. /\ HostOf[m] \in Host /\ stageLock' \in [Host -> Mail \cup {Nobody}]
        /\ \A n \in Mail \ {m} : mail[n].at \in Staging => stageLock'[HostOf[n]] = n
    BY SpoolAssumption DEF SpoolInv, SpoolRecords, Locks, Unlock
  <1>3. SpoolRecords'
    BY <1>1, <1>2, FS_Subset DEF SpoolInv, SpoolRecords, CacheFile, OldFile, MailFile, Image, MailRecord
  <1>4. Locks'
    BY <1>1, <1>2 DEF SpoolInv, Locks, Staging
  <1>5. Kept'
    <2>1. ASSUME NEW n \in Mail \ {m}
          PROVE  MailFile(n) \cap cache' = MailFile(n) \cap cache
      BY FileNames
    <2>2. MailFile(m) \cap cache' = {}
      OBVIOUS
    <2>3. \A n \in Mail : MailFile(n)' = MailFile(n)
      BY DEF MailFile
    <2> HIDE DEF SpoolInv
    <2>4. ASSUME NEW n \in Mail \ {m}
          PROVE  /\ mail'[n].at \in {"idle", "scan", "failed"} => MailFile(n) \cap cache' = {}
                 /\ mail'[n].at \in {"idle", "scan", "write"} => MailFile(n) \cap expired' = {}
                 /\ mail'[n].at = "write" => MailFile(n) \cap cache' = {<<n, i>> : i \in 1..mail'[n].written}
                 /\ mail'[n].at \in {"paste", "submit", "sent"} => MailFile(n) \subseteq cache' \cup expired'
      <3>1. mail'[n] = mail[n]
        BY <1>1
      <3> QED
        BY <2>1, <3>1 DEF SpoolInv, Kept
    <2> QED
      BY <1>1, <2>2, <2>3, <2>4 DEF Kept
  <1>6. Scans'
    BY <1>1 DEF SpoolInv, Scans
  <1>7. CacheBounded'
    <2>1. \A n \in Mail : ToCome(n)' \subseteq Reserved
      <3>1. ToCome(m)' = {}
        BY <1>1 DEF ToCome, Passes
      <3> QED
        BY <1>1, <3>1, StillToCome DEF Reserved
    <2> QED
      BY <2>1, StaysBounded DEF SpoolInv, Reserved
  <1> QED
    BY <1>3, <1>4, <1>5, <1>6, <1>7 DEF SpoolInv

LEMMA ScanEntryKeeps ==
  ASSUME SpoolInv, NEW m \in Mail, ScanEntry(m)
  PROVE  SpoolInv'
  <1>1. mail[m].at = "scan" /\ expired' = expired /\ MailFile(m) \cap cache = {}
    BY DEF ScanEntry, MailAt, SpoolInv, Kept
  <1>2. CASE MailTo(m, "failed") /\ Unlock(m) /\ UNCHANGED cache
    BY <1>1, <1>2, FailureKeeps DEF Staging
  <1>3. ASSUME NEW f \in mail[m].toScan, f \in cache, stageLock' = stageLock,
               cache' = IF f \in expired THEN cache \ {f} ELSE cache,
               mail' = [mail EXCEPT ![m].toScan = @ \ {f},
                                    ![m].retained = IF f \in expired THEN @ ELSE @ + 1]
        PROVE  SpoolInv'
    <2>1. mail \in [Mail -> MailRecord] /\ mail[m].retained \in Nat /\ mail[m].toScan \subseteq CacheFile
      BY DEF SpoolInv, SpoolRecords, MailRecord
    <2>2. /\ mail' \in [Mail -> MailRecord] /\ \A n \in Mail \ {m} : mail'[n] = mail[n]
          /\ mail'[m].at = "scan" /\ mail'[m].written = mail[m].written /\ mail'[m].shown = mail[m].shown
          /\ mail'[m].toScan = mail[m].toScan \ {f}
          /\ mail'[m].retained = IF f \in expired THEN mail[m].retained ELSE mail[m].retained + 1
      <3> DEFINE retained == IF f \in expired THEN mail[m].retained ELSE mail[m].retained + 1
                 r == [mail[m] EXCEPT !.toScan = @ \ {f}, !.retained = retained]
      <3>1. retained \in Nat /\ mail[m].toScan \ {f} \in SUBSET CacheFile
        BY <2>1
      <3>2. mail' = [mail EXCEPT ![m] = r]
        BY <1>3, <2>1 DEF MailRecord
      <3> HIDE DEF retained
      <3>3. /\ r \in MailRecord
            /\ r.at = mail[m].at /\ r.written = mail[m].written /\ r.shown = mail[m].shown
            /\ r.toScan = mail[m].toScan \ {f} /\ r.retained = retained
        BY <2>1, <3>1 DEF MailRecord
      <3> HIDE DEF r
      <3> QED
        BY <1>1, <2>1, <3>2, <3>3 DEF retained
    <2>3. SpoolRecords'
      BY <1>1, <1>3, <2>2, FS_Subset DEF SpoolInv, SpoolRecords, CacheFile, OldFile, MailFile, Image, MailRecord
    <2>4. Locks'
      BY <1>1, <1>3, <2>2 DEF SpoolInv, Locks, Staging
    <2>5. Kept'
      <3>1. ASSUME NEW n \in Mail
            PROVE  /\ mail[n].at \in {"idle", "scan", "failed"} => MailFile(n) \cap cache' = {}
                   /\ mail[n].at \in {"idle", "scan", "write"} => MailFile(n) \cap expired' = {}
                   /\ mail[n].at = "write" => MailFile(n) \cap cache' = MailFile(n) \cap cache
                   /\ mail[n].at \in {"paste", "submit", "sent"} => MailFile(n) \subseteq cache' \cup expired'
        BY <1>1, <1>3 DEF SpoolInv, Kept
      <3>2. \A n \in Mail : mail'[n].at = mail[n].at /\ mail'[n].written = mail[n].written /\ MailFile(n)' = MailFile(n)
        BY <1>1, <2>2 DEF MailFile
      <3> QED
        BY <3>1, <3>2 DEF SpoolInv, Kept
    <2>6. Scans'
      <3>1. IsFiniteSet(mail[m].toScan) /\ cache \cap expired \subseteq mail[m].toScan
        BY <1>1 DEF SpoolInv, Scans
      <3>2. IsFiniteSet(mail'[m].toScan) /\ cache' \cap expired' \subseteq mail'[m].toScan
        BY <1>1, <1>3, <2>2, <3>1, FS_Subset
      <3> QED
        BY <1>1, <1>3, <2>2, <3>2 DEF SpoolInv, Scans
    <2>7. CacheBounded'
      <3>1. ToCome(m)' \subseteq ToCome(m)
        <4> DEFINE left == mail[m].toScan \ expired
        <4>1. IsFiniteSet(left)
          BY <1>1, FS_Subset DEF SpoolInv, Scans
        <4>2. mail'[m].toScan \ expired' = left \ {f}
          BY <1>1, <2>2
        <4>3. f \in left <=> f \notin expired
          BY <1>3
        <4> HIDE DEF left
        <4>4. Cardinality(left) \in Nat /\ Cardinality(left \ {f}) = IF f \in expired THEN Cardinality(left) ELSE Cardinality(left) - 1
          BY <4>1, <4>3, FS_RemoveElement, FS_CardinalityType
        <4>5. mail'[m].retained + Cardinality(left \ {f}) = mail[m].retained + Cardinality(left)
          BY <2>1, <2>2, <4>4
        <4>6. Passes(m)' => Passes(m)
          BY <1>1, <2>2, <4>2, <4>5 DEF Passes, left
        <4> QED
          BY <2>2, <4>6 DEF ToCome
      <3>2. \A n \in Mail : ToCome(n)' \subseteq Reserved
        BY <1>1, <2>2, <3>1, StillToCome DEF Reserved
      <3> QED
        BY <1>1, <1>3, <3>2, StaysBounded DEF SpoolInv, Reserved
    <2> QED
      BY <2>3, <2>4, <2>5, <2>6, <2>7 DEF SpoolInv
  <1> QED
    BY <1>2, <1>3 DEF ScanEntry

LEMMA CheckCapacityKeeps ==
  ASSUME SpoolInv, NEW m \in Mail, CheckCapacity(m)
  PROVE  SpoolInv'
  <1>1. /\ mail[m].at = "scan" /\ mail[m].toScan = {} /\ MailFile(m) \cap cache = {}
        /\ expired' = expired /\ cache' = cache
    BY DEF CheckCapacity, MailAt, SpoolInv, Kept
  <1>2. CASE MailTo(m, "failed") /\ Unlock(m)
    BY <1>1, <1>2, FailureKeeps DEF Staging
  <1>3. CASE Fits(m) /\ MailTo(m, "write") /\ UNCHANGED stageLock
    <2>1. /\ mail' \in [Mail -> MailRecord] /\ \A n \in Mail \ {m} : mail'[n] = mail[n]
          /\ mail'[m].at = "write" /\ mail'[m].written = mail[m].written /\ mail'[m].shown = mail[m].shown
          /\ mail[m].written = 0 /\ mail[m].retained \in Nat
      BY <1>1, <1>3, MailGoes DEF SpoolInv, SpoolRecords, MailPlace, MailRecord, Locks
    <2>2. SpoolRecords'
      BY <1>1, <1>3, <2>1 DEF SpoolInv, SpoolRecords, CacheFile, OldFile, MailFile, Image, MailRecord
    <2>3. Locks'
      BY <1>1, <1>3, <2>1, NumbersHold DEF SpoolInv, Locks, Staging
    <2>4. Kept'
      <3>1. {<<m, i>> : i \in 1..mail'[m].written} = {}
        BY <2>1
      <3> QED
        BY <1>1, <2>1, <3>1 DEF SpoolInv, Kept, MailFile
    <2>5. Scans'
      BY <1>1, <2>1 DEF SpoolInv, Scans
    <2>6. CacheBounded'
      <3>1. Cardinality(mail[m].toScan \ expired) = 0
        BY <1>1, FS_EmptySet
      <3>2. Passes(m)
        BY <1>1, <1>3, <2>1, <3>1, NumbersHold DEF Passes, Fits
      <3>3. ToCome(m)' \subseteq ToCome(m)
        BY <2>1, <3>2 DEF ToCome
      <3>4. \A n \in Mail : ToCome(n)' \subseteq Reserved
        BY <1>1, <2>1, <3>3, StillToCome DEF Reserved
      <3> QED
        BY <1>1, <3>4, StaysBounded DEF SpoolInv, Reserved
    <2> QED
      BY <2>2, <2>3, <2>4, <2>5, <2>6 DEF SpoolInv
  <1> QED
    BY <1>2, <1>3 DEF CheckCapacity

\* Files of messages that hold their processes' locks are few.
LEMMA StagersAreFew ==
  ASSUME NEW lock, NEW coming,
         \A file \in coming : \E h \in Host, i \in Image : file = <<lock[h], i>>
  PROVE  IsFiniteSet(coming) /\ Cardinality(coming) <= NumImage * Cardinality(Host) /\ Cardinality(coming) \in Nat
  <1> DEFINE S == Host \X Image
             T == {<<lock[p[1]], p[2]>> : p \in S}
             f == [p \in S |-> <<lock[p[1]], p[2]>>]
  <1>1. IsFiniteSet(S) /\ Cardinality(S) = Cardinality(Host) * NumImage
    <2>1. IsFiniteSet(Image) /\ Cardinality(Image) = NumImage
      BY NumbersHold, FS_Interval DEF Image
    <2> QED
      BY <2>1, FS_Product, SpoolAssumption
  <1>2. f \in Surjection(S, T)
    BY DEF Surjection
  <1>3. IsFiniteSet(T) /\ Cardinality(T) <= Cardinality(S)
    BY <1>1, <1>2, FS_Surjection
  <1>4. coming \subseteq T
    <2> SUFFICES ASSUME NEW file \in coming
                 PROVE  file \in T
      OBVIOUS
    <2>1. PICK h \in Host, i \in Image : file = <<lock[h], i>>
      OBVIOUS
    <2>2. <<h, i>> \in S /\ file = <<lock[<<h, i>>[1]], <<h, i>>[2]>>
      BY <2>1
    <2> QED
      BY <2>2
  <1>5. Cardinality(S) = NumImage * Cardinality(Host) /\ Cardinality(S) \in Nat
    <2>1. \A a, b \in Nat : a * b = b * a
      OBVIOUS
    <2> QED
      BY <1>1, <2>1, NumbersHold, FS_CardinalityType
  <1> HIDE DEF S, T
  <1>6. IsFiniteSet(coming) /\ Cardinality(coming) <= Cardinality(T)
    BY <1>3, <1>4, FS_Subset
  <1>7. Cardinality(coming) \in Nat /\ Cardinality(T) \in Nat
    BY <1>3, <1>6, FS_CardinalityType
  <1> QED
    BY <1>3, <1>5, <1>6, <1>7

LEMMA StartStageKeeps ==
  ASSUME SpoolInv, NEW m \in Mail, StartStage(m)
  PROVE  SpoolInv'
  <1>1. /\ mail[m].at = "idle" /\ stageLock[HostOf[m]] = Nobody /\ HostOf[m] \in Host
        /\ stageLock' = [stageLock EXCEPT ![HostOf[m]] = m]
        /\ mail' = [mail EXCEPT ![m] = [NoMail EXCEPT !.at = "scan", !.toScan = cache]]
        /\ cache' = cache /\ expired' = expired
    BY SpoolAssumption DEF StartStage, MailAt, Locked
  <1>2. /\ mail' \in [Mail -> MailRecord] /\ \A n \in Mail \ {m} : mail'[n] = mail[n]
        /\ mail'[m].at = "scan" /\ mail'[m].toScan = cache /\ mail'[m].retained = 0
        /\ mail'[m].written = 0 /\ ~mail'[m].shown
    <2> DEFINE r == [NoMail EXCEPT !.at = "scan", !.toScan = cache]
    <2>1. NoMail \in MailRecord /\ NoMail.retained = 0 /\ NoMail.written = 0 /\ ~NoMail.shown
      BY NumbersHold DEF NoMail, MailRecord, MailPlace
    <2>2. cache \in SUBSET CacheFile /\ 0 \in 0..NumImage /\ "scan" \in MailPlace
      BY NumbersHold DEF MailPlace, SpoolInv, SpoolRecords
    <2>3. /\ r \in MailRecord /\ r.at = "scan" /\ r.toScan = cache /\ r.retained = 0
          /\ r.written = 0 /\ ~r.shown
      BY <2>1, <2>2 DEF MailRecord
    <2> HIDE DEF r
    <2> QED
      BY <1>1, <2>3 DEF SpoolInv, SpoolRecords, r
  <1>3. /\ stageLock' \in [Host -> Mail \cup {Nobody}] /\ stageLock'[HostOf[m]] = m
        /\ \A h \in Host \ {HostOf[m]} : stageLock'[h] = stageLock[h]
    BY <1>1 DEF SpoolInv, SpoolRecords
  <1>4. SpoolRecords'
    BY <1>1, <1>2, <1>3 DEF SpoolInv, SpoolRecords, CacheFile, OldFile, MailFile, Image, MailRecord
  <1>5. Locks'
    BY <1>1, <1>2, <1>3, SpoolAssumption DEF SpoolInv, Locks, Staging
  <1>6. Kept'
    BY <1>1, <1>2 DEF SpoolInv, Kept, MailFile
  <1>7. Scans'
    BY <1>1, <1>2 DEF SpoolInv, Scans, SpoolRecords
  <1>8. CacheBounded'
    <2>1. CASE ~Passes(m)'
      <3>1. ToCome(m)' = {}
        BY <2>1 DEF ToCome
      <3>2. \A n \in Mail : ToCome(n)' \subseteq Reserved
        BY <1>1, <1>2, <3>1, StillToCome DEF Reserved
      <3> QED
        BY <1>1, <3>2, StaysBounded DEF SpoolInv, Reserved
    <2>2. CASE Passes(m)'
      <3> DEFINE young == (cache \ OldFile) \ expired
                 coming == UNION {ToCome(n)' : n \in Mail}
      <3>1. Cardinality(cache \ expired) + NumImage <= CacheCap
        <4>1. mail'[m].retained + Cardinality(mail'[m].toScan \ expired') + NumImage <= CacheCap
          BY <1>2, <2>2 DEF Passes
        <4>2. Cardinality(cache \ expired) \in Nat
          BY FS_Subset, FS_CardinalityType DEF SpoolInv, SpoolRecords
        <4> QED
          BY <1>1, <1>2, <4>1, <4>2, NumbersHold
      <3>2. /\ IsFiniteSet(young) /\ Cardinality(young) <= Cardinality(cache \ expired)
            /\ Cardinality(young) \in Nat /\ Cardinality(cache \ expired) \in Nat
        <4>1. IsFiniteSet(cache \ expired) /\ young \subseteq cache \ expired
          BY FS_Subset DEF SpoolInv, SpoolRecords
        <4> QED
          BY <4>1, FS_Subset, FS_CardinalityType
      <3>3. /\ IsFiniteSet(coming) /\ Cardinality(coming) <= NumImage * Cardinality(Host)
            /\ Cardinality(coming) \in Nat
        <4>1. ASSUME NEW n \in Mail, NEW file \in ToCome(n)'
              PROVE  \E h \in Host, i \in Image : file = <<stageLock'[h], i>>
          <5>1. mail'[n].at \in Staging
            BY <4>1 DEF ToCome, Passes, Staging
          <5>2. PICK i \in (mail'[n].written + 1)..NumImage : file = <<n, i>>
            BY <4>1 DEF ToCome
          <5>3. i \in Image /\ HostOf[n] \in Host /\ stageLock'[HostOf[n]] = n
            BY <1>4, <1>5, <5>1, SpoolAssumption DEF Locks, Image, SpoolRecords, MailRecord
          <5> QED
            BY <5>2, <5>3
        <4> QED
          BY <4>1, StagersAreFew
      <3>4. Reserved' = young \cup coming
        BY <1>1 DEF Reserved, OldFile
      <3> HIDE DEF young, coming
      <3>5. /\ IsFiniteSet(young \cup coming) /\ Cardinality(young \cup coming) \in Nat
            /\ Cardinality(young \cup coming) <= Cardinality(young) + Cardinality(coming)
        <4>1. IsFiniteSet(young \cup coming) /\ Cardinality(young \cup coming) = Cardinality(young) + Cardinality(coming) - Cardinality(young \cap coming)
          BY <3>2, <3>3, FS_Union
        <4>2. Cardinality(young \cap coming) \in Nat
          BY <3>2, FS_Subset, FS_CardinalityType
        <4> QED
          BY <3>2, <3>3, <4>1, <4>2, FS_CardinalityType
      <3>6. NumImage * Cardinality(Host) = NumImage + NumImage * (Cardinality(Host) - 1)
        <4>1. \A a \in Nat, b \in Nat \ {0} : a * b = a + a * (b - 1)
          OBVIOUS
        <4> QED
          BY <4>1, NumbersHold
      <3>7. Cardinality(Reserved') <= Most
        <4>1. NumImage * (Cardinality(Host) - 1) \in Nat
          BY NumbersHold
        <4> QED
          BY <3>1, <3>2, <3>3, <3>4, <3>5, <3>6, <4>1, NumbersHold DEF Most
      <3> QED
        BY <1>1, <3>4, <3>5, <3>7 DEF SpoolInv, CacheBounded, Most, OldFile
    <2> QED
      BY <2>1, <2>2
  <1> QED
    BY <1>4, <1>5, <1>6, <1>7, <1>8 DEF SpoolInv

LEMMA WriteImageKeeps ==
  ASSUME SpoolInv, NEW m \in Mail, WriteImage(m)
  PROVE  SpoolInv'
  <1> DEFINE n == mail[m].written + 1
  <1>1. /\ mail[m].at = "write" /\ expired' = expired /\ cache \cap expired = {}
        /\ mail[m].written \in 0..NumImage /\ n \in Image /\ mail \in [Mail -> MailRecord]
        /\ stageLock[HostOf[m]] = m /\ HostOf[m] \in Host /\ ~mail[m].shown
        /\ MailFile(m) \cap expired = {} /\ MailFile(m) \cap cache = {<<m, i>> : i \in 1..mail[m].written}
    BY NumbersHold, SpoolAssumption
       DEF WriteImage, MailAt, SpoolInv, Scans, Locks, Kept, SpoolRecords, MailRecord, Image, Staging
  <1>2. CASE cache' = cache \ MailFile(m) /\ MailTo(m, "failed") /\ Unlock(m)
    BY <1>1, <1>2, FailureKeeps DEF Staging
  <1>3. ASSUME cache' = cache \cup {<<m, n>>},
               mail' = [mail EXCEPT ![m].written = n, ![m].at = IF n = NumImage THEN "paste" ELSE @],
               IF n = NumImage THEN Unlock(m) ELSE UNCHANGED stageLock
        PROVE  SpoolInv'
    <2> DEFINE at == IF n = NumImage THEN "paste" ELSE "write"
               r == [mail[m] EXCEPT !.written = n, !.at = at]
    <2>1. /\ mail' = [mail EXCEPT ![m] = r] /\ n \in 0..NumImage /\ at \in MailPlace
      <3>1. n \in 0..NumImage
        BY <1>1, NumbersHold DEF Image
      <3>2. at \in MailPlace
        BY DEF MailPlace
      <3>3. mail' = [mail EXCEPT ![m] = r]
        BY <1>1, <1>3 DEF MailRecord
      <3> QED
        BY <3>1, <3>2, <3>3
    <2> HIDE DEF n, at
    <2>2. /\ r \in MailRecord /\ r.at = at /\ r.written = n /\ r.shown = mail[m].shown
      BY <1>1, <2>1 DEF MailRecord
    <2> HIDE DEF r
    <2>3. /\ mail' \in [Mail -> MailRecord] /\ \A b \in Mail \ {m} : mail'[b] = mail[b]
          /\ mail'[m].at = at /\ mail'[m].written = n /\ ~mail'[m].shown
      BY <1>1, <2>1, <2>2
    <2>4. /\ stageLock' \in [Host -> Mail \cup {Nobody}]
          /\ \A b \in Mail \ {m} : mail[b].at \in Staging => stageLock'[HostOf[b]] = b
          /\ at = "write" => stageLock'[HostOf[m]] = m
      <3>1. at = "write" => stageLock' = stageLock
        BY <1>3 DEF at
      <3>2. stageLock' = stageLock \/ stageLock' = [stageLock EXCEPT ![HostOf[m]] = Nobody]
        BY <1>3 DEF Unlock
      <3>3. stageLock \in [Host -> Mail \cup {Nobody}] /\ \A b \in Mail : mail[b].at \in Staging => stageLock[HostOf[b]] = b
        BY DEF SpoolInv, SpoolRecords, Locks
      <3> QED
        BY <1>1, <3>1, <3>2, <3>3, SpoolAssumption
    <2>5. <<m, n>> \in MailFile(m) /\ <<m, n>> \in CacheFile /\ <<m, n>> \notin OldFile /\ <<m, n>> \notin expired
          /\ \A b \in Mail \ {m} : <<m, n>> \notin MailFile(b)
      BY <1>1, FileNames
    <2>6. SpoolRecords'
      <3>1. IsFiniteSet(cache')
        BY <1>3, FS_AddElement DEF SpoolInv, SpoolRecords
      <3> QED
        BY <1>1, <1>3, <2>3, <2>4, <2>5, <3>1 DEF SpoolInv, SpoolRecords, CacheFile, OldFile, MailFile, Image, MailRecord
    <2>7. Locks'
      <3>1. at = "write" => n < NumImage
        BY <2>1, NumbersHold DEF at
      <3> QED
        BY <1>1, <2>3, <2>4, <3>1 DEF SpoolInv, Locks, Staging, at
    <2>8. Kept'
      <3>1. \A b \in Mail : MailFile(b)' = MailFile(b)
        BY DEF MailFile
      <3>2. \A b \in Mail \ {m} : MailFile(b) \cap cache' = MailFile(b) \cap cache
        BY <1>3, <2>5
      <3>3. MailFile(m) \cap cache' = {<<m, i>> : i \in 1..n}
        <4>1. MailFile(m) \cap cache' = {<<m, i>> : i \in 1..mail[m].written} \cup {<<m, n>>}
          BY <1>1, <1>3, <2>5
        <4>2. 1..n = (1..mail[m].written) \cup {n}
          BY <1>1 DEF n
        <4> QED
          BY <4>1, <4>2
      <3>4. at = "paste" => MailFile(m) \subseteq cache'
        BY <3>3 DEF at, MailFile, Image
      <3>5. ASSUME NEW b \in Mail \ {m}
            PROVE  /\ mail'[b].at \in {"idle", "scan", "failed"} => MailFile(b) \cap cache' = {}
                   /\ mail'[b].at \in {"idle", "scan", "write"} => MailFile(b) \cap expired' = {}
                   /\ mail'[b].at = "write" => MailFile(b) \cap cache' = {<<b, i>> : i \in 1..mail'[b].written}
                   /\ mail'[b].at \in {"paste", "submit", "sent"} => MailFile(b) \subseteq cache' \cup expired'
        <4>1. mail'[b] = mail[b] /\ expired' = expired /\ cache \subseteq cache'
          BY <1>1, <1>3, <2>3
        <4> QED
          BY <3>2, <4>1 DEF SpoolInv, Kept
      <3>6. at \in {"write", "paste"}
        BY DEF at
      <3> QED
        BY <1>1, <2>3, <3>1, <3>3, <3>4, <3>5, <3>6 DEF Kept
    <2>9. Scans'
      <3>1. cache' \cap expired' = cache \cap expired
        BY <1>1, <1>3, <2>5
      <3> QED
        BY <1>1, <2>3, <3>1 DEF SpoolInv, Scans, at
    <2>10. CacheBounded'
      <3>1. ToCome(m)' \subseteq ToCome(m) /\ <<m, n>> \in ToCome(m)
        <4>1. ToCome(m) = {<<m, i>> : i \in n..NumImage}
          BY <1>1 DEF ToCome, Passes, n
        <4>2. ToCome(m)' \subseteq {<<m, i>> : i \in (n + 1)..NumImage}
          BY <2>3 DEF ToCome
        <4>3. n \in n..NumImage /\ (n + 1)..NumImage \subseteq n..NumImage
          BY <2>1
        <4> QED
          BY <4>1, <4>2, <4>3
      <3>2. \A b \in Mail : ToCome(b)' \subseteq Reserved
        BY <1>1, <2>3, <3>1, StillToCome DEF Reserved
      <3>3. cache' \ OldFile \subseteq Reserved /\ (cache' \ OldFile) \ expired' \subseteq Reserved
        BY <1>1, <1>3, <3>1 DEF Reserved
      <3> QED
        BY <3>2, <3>3, StaysBounded DEF SpoolInv
    <2> QED
      BY <2>6, <2>7, <2>8, <2>9, <2>10 DEF SpoolInv
  <1> QED
    BY <1>2, <1>3 DEF WriteImage

LEMMA PasteKeeps ==
  ASSUME SpoolInv, NEW m \in Mail, Paste(m)
  PROVE  SpoolInv'
  <1>1. mail[m].at = "paste" /\ expired' = expired /\ stageLock' = stageLock
    BY DEF Paste, MailAt
  <1>2. CASE cache' = cache \ MailFile(m) /\ MailTo(m, "failed")
    BY <1>1, <1>2, FailureKeeps DEF Staging
  <1>3. CASE MailTo(m, "submit") /\ cache' = cache
    <2>1. /\ mail' \in [Mail -> MailRecord] /\ \A n \in Mail \ {m} : mail'[n] = mail[n]
          /\ mail'[m].at = "submit" /\ mail'[m].shown = mail[m].shown
      BY <1>3, MailGoes DEF SpoolInv, SpoolRecords, MailPlace
    <2>2. SpoolRecords'
      BY <1>1, <1>3, <2>1 DEF SpoolInv, SpoolRecords, CacheFile, OldFile, MailFile, Image, MailRecord
    <2>3. Locks'
      BY <1>1, <2>1 DEF SpoolInv, Locks, Staging
    <2>4. Kept'
      BY <1>1, <1>3, <2>1 DEF SpoolInv, Kept, MailFile
    <2>5. Scans'
      BY <1>1, <1>3, <2>1 DEF SpoolInv, Scans
    <2>6. CacheBounded'
      <3>1. ToCome(m)' = {}
        BY <2>1 DEF ToCome, Passes
      <3> QED
        BY <1>1, <1>3, <2>1, <3>1, StillToCome, StaysBounded DEF SpoolInv, Reserved
    <2> QED
      BY <2>2, <2>3, <2>4, <2>5, <2>6 DEF SpoolInv
  <1> QED
    BY <1>2, <1>3 DEF Paste, Dropped

LEMMA SubmitKeeps ==
  ASSUME SpoolInv, NEW m \in Mail, SubmitMail(m)
  PROVE  SpoolInv'
  <1>1. mail[m].at = "submit" /\ expired' = expired /\ stageLock' = stageLock
    BY DEF SubmitMail, MailAt
  <1>2. CASE cache' = cache \ MailFile(m) /\ MailTo(m, "failed")
    BY <1>1, <1>2, FailureKeeps DEF Staging
  <1>3. CASE mail' = [mail EXCEPT ![m].at = "sent", ![m].shown = TRUE] /\ cache' = cache
    <2> DEFINE r == [mail[m] EXCEPT !.at = "sent", !.shown = TRUE]
    <2>1. mail \in [Mail -> MailRecord]
      BY DEF SpoolInv, SpoolRecords
    <2>2. r \in MailRecord /\ r.at = "sent" /\ mail' = [mail EXCEPT ![m] = r]
      BY <1>3, <2>1 DEF MailRecord, MailPlace
    <2> HIDE DEF r
    <2>3. /\ mail' \in [Mail -> MailRecord] /\ \A n \in Mail \ {m} : mail'[n] = mail[n]
          /\ mail'[m].at = "sent"
      BY <2>1, <2>2
    <2>4. SpoolRecords'
      BY <1>1, <1>3, <2>3 DEF SpoolInv, SpoolRecords, CacheFile, OldFile, MailFile, Image, MailRecord
    <2>5. Locks'
      BY <1>1, <2>3 DEF SpoolInv, Locks, Staging
    <2>6. Kept'
      BY <1>1, <1>3, <2>3 DEF SpoolInv, Kept, MailFile
    <2>7. Scans'
      BY <1>1, <1>3, <2>3 DEF SpoolInv, Scans
    <2>8. CacheBounded'
      <3>1. ToCome(m)' = {}
        BY <2>3 DEF ToCome, Passes
      <3> QED
        BY <1>1, <1>3, <2>3, <3>1, StillToCome, StaysBounded DEF SpoolInv, Reserved
    <2> QED
      BY <2>4, <2>5, <2>6, <2>7, <2>8 DEF SpoolInv
  <1> QED
    BY <1>2, <1>3 DEF SubmitMail, Dropped

LEMMA HostDiesKeeps ==
  ASSUME SpoolInv, NEW h \in Host, HostDies(h)
  PROVE  SpoolInv'
  <1> DEFINE Dies(m) == HostOf[m] = h /\ mail[m].at \in {"scan", "write", "paste", "submit"}
  <1>1. cache' = cache /\ expired' = expired /\ stageLock' = [stageLock EXCEPT ![h] = Nobody]
    BY DEF HostDies
  <1>2. mail' \in [Mail -> MailRecord]
    BY DEF HostDies, SpoolInv, SpoolRecords, MailRecord, MailPlace
  <1>3. ASSUME NEW m \in Mail
        PROVE  /\ Dies(m) => mail'[m].at = "dead" /\ mail'[m].shown = mail[m].shown
               /\ ~Dies(m) => mail'[m] = mail[m]
    BY DEF HostDies, SpoolInv, SpoolRecords, MailRecord
  <1>4. SpoolRecords'
    BY <1>1, <1>2 DEF SpoolInv, SpoolRecords, CacheFile, OldFile, MailFile, Image, MailRecord
  <1> HIDE DEF Dies
  <1>5. Locks'
    <2> SUFFICES ASSUME NEW m \in Mail
                 PROVE  /\ mail'[m].at \in Staging => stageLock'[HostOf[m]] = m
                        /\ mail'[m].at \in {"idle", "scan"} => mail'[m].written = 0
                        /\ mail'[m].at = "write" => mail'[m].written < NumImage
                        /\ mail'[m].shown => mail'[m].at = "sent"
      BY DEF Locks, Staging
    <2>1. CASE Dies(m)
      BY <1>3, <2>1 DEF SpoolInv, Locks, Staging, Dies
    <2>2. CASE ~Dies(m)
      <3>1. mail'[m] = mail[m]
        BY <1>3, <2>2
      <3>2. mail[m].at \in Staging => HostOf[m] # h
        BY <2>2 DEF Dies, Staging
      <3> QED
        BY <1>1, <3>1, <3>2, SpoolAssumption DEF SpoolInv, Locks, SpoolRecords
    <2> QED
      BY <2>1, <2>2
  <1>6. Kept'
    <2>1. \A m \in Mail : MailFile(m)' = MailFile(m)
      BY DEF MailFile
    <2> QED
      BY <1>1, <1>3, <2>1 DEF SpoolInv, Kept
  <1>7. Scans'
    BY <1>1, <1>3 DEF SpoolInv, Scans
  <1>8. CacheBounded'
    <2>1. ASSUME NEW m \in Mail
          PROVE  ToCome(m)' \subseteq Reserved
      <3>1. CASE Dies(m)
        BY <1>3, <3>1 DEF ToCome, Passes
      <3>2. CASE ~Dies(m)
        BY <1>1, <1>3, <3>2, StillToCome DEF Reserved
      <3> QED
        BY <3>1, <3>2
    <2> QED
      BY <1>1, <2>1, StaysBounded DEF SpoolInv, Reserved
  <1> QED
    BY <1>4, <1>5, <1>6, <1>7, <1>8 DEF SpoolInv

LEMMA GrowsOldKeeps ==
  ASSUME SpoolInv, GrowsOld
  PROVE  SpoolInv'
  <1>1. PICK f \in cache \ expired : expired' = expired \cup {f}
    BY DEF GrowsOld
  <1>2. /\ cache' = cache /\ stageLock' = stageLock /\ mail' = mail
        /\ \A m \in Mail : mail[m].at \notin {"scan", "write", "paste", "submit"}
    BY DEF GrowsOld
  <1>3. SpoolRecords'
    BY <1>1, <1>2 DEF SpoolInv, SpoolRecords, CacheFile, OldFile, MailFile, Image, MailRecord
  <1>4. Locks'
    BY <1>2 DEF SpoolInv, Locks, Staging
  <1>5. Kept'
    <2>1. \A m \in Mail : MailFile(m)' = MailFile(m)
      BY DEF MailFile
    <2>2. \A m \in Mail : mail[m].at = "idle" => f \notin MailFile(m)
      BY <1>1 DEF SpoolInv, Kept
    <2> QED
      BY <1>1, <1>2, <2>1, <2>2 DEF SpoolInv, Kept
  <1>6. Scans'
    BY <1>2 DEF Scans
  <1>7. CacheBounded'
    <2>1. \A m \in Mail : ToCome(m)' = {}
      BY <1>2 DEF ToCome, Passes
    <2> QED
      BY <1>1, <1>2, <2>1, StaysBounded DEF SpoolInv, Reserved
  <1> QED
    BY <1>3, <1>4, <1>5, <1>6, <1>7 DEF SpoolInv

LEMMA SpoolStart ==
  ASSUME SpoolInit
  PROVE  SpoolInv
  <1>1. PICK n \in 0..MaxOld : cache = {<<Nobody, i>> : i \in 1..n}
    BY DEF SpoolInit
  <1>2. cache \subseteq OldFile /\ expired \subseteq OldFile /\ cache \ OldFile = {}
    BY <1>1, SpoolAssumption DEF SpoolInit, OldFile
  <1>3. IsFiniteSet(cache)
    <2> DEFINE S == 1..n
               f == [i \in S |-> <<Nobody, i>>]
    <2>1. f \in Surjection(S, cache)
      BY <1>1 DEF Surjection
    <2>2. IsFiniteSet(S)
      BY FS_Interval, SpoolAssumption
    <2> QED
      BY <2>1, <2>2, FS_Surjection
  <1>4. \A m \in Mail : mail[m] = NoMail
    BY DEF SpoolInit
  <1>5. NoMail \in MailRecord /\ NoMail.at = "idle" /\ NoMail.written = 0 /\ ~NoMail.shown
    BY NumbersHold DEF NoMail, MailRecord, MailPlace
  <1>6. SpoolRecords
    BY <1>2, <1>3, <1>5 DEF SpoolInit, SpoolRecords, CacheFile
  <1>7. Locks
    BY <1>4, <1>5 DEF Locks, Staging
  <1>8. Kept
    <2>1. \A m \in Mail : MailFile(m) \cap cache = {} /\ MailFile(m) \cap expired = {}
      BY <1>2, FileNames
    <2> QED
      BY <1>4, <1>5, <2>1 DEF Kept
  <1>9. Scans
    BY <1>4, <1>5 DEF Scans
  <1>10. CacheBounded
    <2>1. \A m \in Mail : ToCome(m) = {}
      BY <1>4, <1>5 DEF ToCome, Passes
    <2>2. Reserved = {}
      BY <1>2, <2>1 DEF Reserved
    <2> QED
      BY <1>2, <2>2, NumbersHold, FS_EmptySet DEF CacheBounded
  <1> QED
    BY <1>6, <1>7, <1>8, <1>9, <1>10 DEF SpoolInv

LEMMA SpoolKeeps ==
  ASSUME SpoolInv, [SpoolNext]_spoolVars
  PROVE  SpoolInv'
  <1>1. CASE UNCHANGED spoolVars
    <2>1. \A m \in Mail : mail'[m] = mail[m] /\ ToCome(m)' = ToCome(m) /\ MailFile(m)' = MailFile(m)
      BY <1>1, StillToCome DEF spoolVars, MailFile
    <2>2. SpoolRecords'
      BY <1>1 DEF spoolVars, SpoolInv, SpoolRecords, CacheFile, OldFile, MailFile, Image, MailRecord
    <2>3. Locks' /\ Kept' /\ Scans'
      BY <1>1, <2>1 DEF spoolVars, SpoolInv, Locks, Kept, Scans
    <2>4. CacheBounded'
      BY <1>1, <2>1, StaysBounded DEF spoolVars, SpoolInv, Reserved
    <2> QED
      BY <2>2, <2>3, <2>4 DEF SpoolInv
  <1> QED
    BY <1>1, StartStageKeeps, ScanEntryKeeps, CheckCapacityKeeps, WriteImageKeeps, PasteKeeps,
       SubmitKeeps, HostDiesKeeps, GrowsOldKeeps DEF SpoolNext, MailStep

\* The invariant of the images holds in every state of every behaviour.
THEOREM SpoolInvariant == SpoolSpec => []SpoolInv
  BY SpoolStart, SpoolKeeps, PTL DEF SpoolSpec

\* "Files are retained only after tmux accepts the complete literal message": no
\* other message, process, crash or cleaning removes what an agent was shown, a
\* message that failed leaves nothing, and the directory outgrows its limit by
\* no more than the other processes' messages (cleanup_and_check_capacity,
\* StagedMessage::drop, CACHE_STAGE_LOCK).
THEOREM ImagesAreKept == SpoolSpec => [](SpoolTypeOK /\ SpoolKeepsWhatIsShown)
  <1>1. SpoolInv => SpoolTypeOK /\ SpoolKeepsWhatIsShown
    <2> SUFFICES ASSUME SpoolInv
                 PROVE  SpoolTypeOK /\ SpoolKeepsWhatIsShown
      OBVIOUS
    <2>1. SpoolTypeOK
      BY DEF SpoolInv, SpoolRecords, SpoolTypeOK, MailRecord, MailPlace
    <2>2. SpoolKeepsWhatIsShown
      BY DEF SpoolInv, Locks, Kept, CacheBounded, Most, SpoolKeepsWhatIsShown, MailAt
    <2> QED
      BY <2>1, <2>2
  <1> QED
    BY <1>1, SpoolInvariant, PTL

-----------------------------------------------------------------------------
(* Quick Resume.  Scripts, processes and users share the tmux server.      *)

Phases == {"unavailable", "idle", "running", "terminating", "succeeded", "failed", "timed_out"}
Scripts == [at : {"none", "has", "create", "send", "type", "finish", "fail", "kill", "exited"},
            unit : 0..NumUnit, created : SessionId \cup {0}, failures : Nat, term : {"none", "sent", "trapped"}]
TmuxSession == [name : -1..NumUnit + 1, by : 0..MaxRun, typed : SUBSET Run]

ResumeRecords ==
  /\ phase \in [Server -> [is : Phases, run : 0..MaxRun]]
  /\ runLock \in Server \cup {Unlocked}
  /\ script \in [Run -> Scripts]
  /\ sessions \in [SessionId -> TmuxSession]
  /\ orphaned \in BOOLEAN /\ torn \in BOOLEAN /\ userActs \in 0..MaxUser /\ runFaults \in 0..MaxRunFault
  /\ notKilled \in SUBSET SessionId
  /\ \A i \in SessionId : sessions[i].name = 0 => sessions[i] = NoSession

\* Whoever waits for a script that lives holds the lock; while no process was
\* killed, somebody waits for each of them.
LockKept ==
  /\ \A w \in Server : Waits(w) =>
       /\ phase[w].run \in Run /\ script[phase[w].run].at # "none"
       /\ Alive(phase[w].run) => runLock = w
  /\ ~orphaned => \A r \in Run : Alive(r) => \E w \in Server : Waits(w) /\ phase[w].run = r

\* The unit of a script, and the id of the session it made for it.
ScriptFits(s) ==
  /\ s.at = "none" => s = NoScript
  /\ s.at \notin {"none", "exited"} => s.unit \in Unit
  /\ s.at \in {"has", "create"} => s.created = 0
  /\ s.at \in {"send", "type", "finish", "kill"} => s.created # 0

ScriptsOwn ==
  /\ \A r \in Run : ScriptFits(script[r])
  /\ \A r \in Run, i \in SessionId : script[r].created = i => sessions[i].by = r

TypedOwn == \A i \in SessionId : sessions[i].typed \subseteq {sessions[i].by} \ {User}

\* A unit whose launch command is missing is the present one of a script, or that
\* script reports a failure and was not able to roll the unit back.
OpenUnit(i, x, s, excused) ==
  x.name \in Unit /\ x.by # User /\ x.typed = {} =>
    \/ s.at \in {"send", "type", "fail", "kill"} /\ s.created = i /\ s.unit = x.name
    \/ s.failures # 0 /\ excused
Excused(i) == torn \/ i \in notKilled
HalfIsOpen ==
  \A i \in SessionId : sessions[i].by # User => OpenUnit(i, sessions[i], script[sessions[i].by], Excused(i))

\* A script makes one session a unit at most, a user one an act; so the ids
\* suffice.  n numbers the sessions of each maker.
Given == {i \in SessionId : sessions[i] # NoSession}
UnitsMade(s) == IF s.at \in {"has", "create"} THEN s.unit - 1 ELSE s.unit
Made(b) == IF b = User THEN userActs ELSE UnitsMade(script[b])
Numbering(n) ==
  /\ n \in [SessionId -> Nat]
  /\ \A b \in 0..MaxRun, i \in Given : sessions[i].by = b => n[i] \in 1..Made(b)
  /\ \A i, j \in Given : i # j /\ sessions[i].by = sessions[j].by => n[i] # n[j]
Numbered == \E n : Numbering(n)

ResumeInv == ResumeRecords /\ LockKept /\ ScriptsOwn /\ TypedOwn /\ HalfIsOpen /\ Numbered

-----------------------------------------------------------------------------
(* The ids of sessions.                                                    *)

LEMMA MadeIsBounded ==
  ASSUME ResumeRecords, NEW b \in 0..MaxRun
  PROVE  Made(b) \in Int /\ Made(b) <= IF b = User THEN MaxUser ELSE NumUnit
  BY QuickResumeAssumption DEF ResumeRecords, Made, UnitsMade, Scripts, Run, User

LEMMA IdsSuffice ==
  ASSUME ResumeRecords, Numbered, NEW b \in 0..MaxRun,
         Made(b) < IF b = User THEN MaxUser ELSE NumUnit
  PROVE  \E i \in SessionId : sessions[i] = NoSession
  <1> DEFINE Makers == Run \X Unit
             Users == {User}
             UserNumbers == Users \X (1..MaxUser)
             last == <<b, IF b = User THEN MaxUser ELSE NumUnit>>
             All == Makers \cup UserNumbers
             Pairs == All \ {last}
  <1>1. SUFFICES ASSUME \A i \in SessionId : sessions[i] # NoSession PROVE FALSE
    OBVIOUS
  <1>2. PICK n : Numbering(n)
    BY DEF Numbered
  <1>3. /\ IsFiniteSet(Run) /\ Cardinality(Run) = MaxRun
        /\ IsFiniteSet(Unit) /\ Cardinality(Unit) = NumUnit
        /\ IsFiniteSet(Users) /\ Cardinality(Users) = 1
        /\ IsFiniteSet(1..MaxUser) /\ Cardinality(1..MaxUser) = MaxUser
    <2>1. {MaxRun, NumUnit, MaxUser} \subseteq Nat
      BY QuickResumeAssumption
    <2>2. \A k \in Nat : IsFiniteSet(1..k) /\ Cardinality(1..k) = k
      BY FS_Interval
    <2>4. IsFiniteSet(Users) /\ Cardinality(Users) = 1
      BY FS_Singleton
    <2> HIDE DEF Users
    <2> QED
      BY <2>1, <2>2, <2>4 DEF Run, Unit
  <1>4. MaxRun * NumUnit \in Nat
    BY QuickResumeAssumption
  <1>5. IsFiniteSet(SessionId) /\ Cardinality(SessionId) = MaxRun * NumUnit + MaxUser
    <2> HIDE DEF Run, Unit
    <2> DEFINE m == MaxRun * NumUnit + MaxUser
    <2>1. m \in Nat
      BY <1>4, QuickResumeAssumption
    <2> HIDE DEF m
    <2>2. IsFiniteSet(1..m) /\ Cardinality(1..m) = m
      BY <2>1, FS_Interval
    <2> QED
      BY <2>2 DEF SessionId, m
  <1>6. IsFiniteSet(Makers) /\ Cardinality(Makers) = MaxRun * NumUnit
    BY <1>3, FS_Product
  <1>7. IsFiniteSet(UserNumbers) /\ Cardinality(UserNumbers) = MaxUser
    <2> HIDE DEF Users
    <2> DEFINE numbers == 1..MaxUser
    <2>1. IsFiniteSet(numbers) /\ Cardinality(numbers) = MaxUser
      BY QuickResumeAssumption, FS_Interval
    <2> HIDE DEF numbers
    <2>2. IsFiniteSet(Users \X numbers) /\ Cardinality(Users \X numbers) = 1 * MaxUser
      BY <1>3, <2>1, FS_Product
    <2> QED
      BY <2>2, QuickResumeAssumption DEF numbers
  <1>8. Makers \cap UserNumbers = {}
    <2>1. \A p \in Run : p \notin Users
      BY QuickResumeAssumption DEF Run, User
    <2> HIDE DEF Users
    <2> QED
      BY <2>1
  <1>9. IsFiniteSet(All) /\ Cardinality(All) = MaxRun * NumUnit + MaxUser
    <2> HIDE DEF Makers, UserNumbers
    <2>1. Cardinality(Makers \cap UserNumbers) = 0
      BY <1>8, FS_EmptySet
    <2> QED
      BY <1>4, <1>6, <1>7, <2>1, FS_Union, QuickResumeAssumption
  <1>10. last \in All
    <2>1. CASE b = User
      <3>1. MaxUser \in 1..MaxUser /\ b \in Users
        BY <2>1, QuickResumeAssumption DEF User, Made, ResumeRecords
      <3> HIDE DEF Users
      <3> QED
        BY <2>1, <3>1
    <2>2. CASE b # User
      <3>1. NumUnit \in Unit /\ b \in Run
        BY <2>2, QuickResumeAssumption DEF User, Run, Unit
      <3>2. last = <<b, NumUnit>>
        BY <2>2
      <3> HIDE DEF Users, last
      <3> QED
        BY <3>1, <3>2
    <2> QED
      BY <2>1, <2>2
  <1>20. IsFiniteSet(Pairs) /\ Cardinality(Pairs) < Cardinality(SessionId)
    <2> HIDE DEF All, last
    <2> QED
      BY <1>4, <1>5, <1>9, <1>10, FS_RemoveElement, QuickResumeAssumption
  <1> DEFINE f == [i \in SessionId |-> <<sessions[i].by, n[i]>>]
  <1>21. ASSUME NEW i \in SessionId
         PROVE  <<sessions[i].by, n[i]>> \in Pairs
    <2> DEFINE c == sessions[i].by
    <2>1. c \in 0..MaxRun /\ n[i] \in 1..Made(c) /\ Made(c) \in Int
      BY <1>1, <1>2, MadeIsBounded DEF ResumeRecords, TmuxSession, Numbering, Given
    <2>2. Made(c) <= IF c = User THEN MaxUser ELSE NumUnit
      BY <2>1, MadeIsBounded
    <2> HIDE DEF c
    <2>3. <<c, n[i]>> \in All
      <3>1. CASE c = User
        <4>1. n[i] \in 1..MaxUser /\ c \in Users
          BY <2>1, <2>2, <3>1, QuickResumeAssumption DEF User
        <4> HIDE DEF Users
        <4> QED
          BY <4>1
      <3>2. CASE c # User
        <4>1. n[i] \in Unit /\ c \in Run
          BY <2>1, <2>2, <3>2, QuickResumeAssumption DEF User, Run, Unit
        <4> HIDE DEF Users
        <4> QED
          BY <4>1
      <3> QED
        BY <3>1, <3>2
    <2>4. <<c, n[i]>> # last
      BY <2>1, QuickResumeAssumption
    <2> QED
      BY <2>3, <2>4 DEF c
  <1>22. f \in [SessionId -> Pairs]
    BY <1>21
  <1>23. PICK i, j \in SessionId : i # j /\ f[i] = f[j]
    <2> HIDE DEF f, Pairs
    <2> QED
      BY <1>5, <1>20, <1>22, FS_PigeonHole
  <1> QED
    BY <1>1, <1>2, <1>23 DEF Numbering, Given

LEMMA FreshIdIsNew ==
  ASSUME \E i \in SessionId : sessions[i] = NoSession
  PROVE  FreshId \in SessionId /\ sessions[FreshId] = NoSession
  <1> DEFINE T == {i \in SessionId : sessions[i] = NoSession}
             R == OpToRel(<, Nat)
  <1>1. T \in SUBSET Nat /\ T # {}
    BY DEF SessionId
  <1>2. PICK i \in T : \A j \in T : <<j, i>> \notin R
    BY <1>1, NatLessThanWellFounded, WFMin
  <1>3. \A j \in T : ~(j < i)
    BY <1>1, <1>2 DEF OpToRel
  <1>4. i \in SessionId /\ sessions[i] = NoSession /\ \A j \in SessionId : j < i => sessions[j] # NoSession
    BY <1>3
  <1> QED
    BY <1>4 DEF FreshId

LEMMA SomeIdIsFresh ==
  ASSUME ResumeRecords, Numbered, NEW b \in 0..MaxRun,
         Made(b) < IF b = User THEN MaxUser ELSE NumUnit
  PROVE  FreshId \in SessionId /\ sessions[FreshId] = NoSession
  BY IdsSuffice, FreshIdIsNew

-----------------------------------------------------------------------------
(* What the steps have in common.                                          *)

\* The scripts after a step that gives r the record s.
LEMMA ScriptMoves ==
  ASSUME ResumeInv, NEW r \in Run, NEW s \in Scripts, script' = [script EXCEPT ![r] = s],
         ScriptFits(s), s.created # 0 => sessions'[s.created].by = r,
         \A i \in SessionId : sessions[i] # NoSession => sessions'[i].by = sessions[i].by
  PROVE  script' \in [Run -> Scripts] /\ ScriptsOwn'
  <1>1. script' \in [Run -> Scripts] /\ script'[r] = s /\ \A q \in Run \ {r} : script'[q] = script[q]
    BY DEF ResumeInv, ResumeRecords
  <1>3. \A q \in Run : ScriptFits(script'[q])
    BY <1>1 DEF ResumeInv, ScriptsOwn
  <1>4. ASSUME NEW q \in Run, NEW i \in SessionId, q # r, script'[q].created = i
        PROVE  sessions'[i].by = q
    <2>1. sessions[i].by = q
      BY <1>1, <1>4 DEF ResumeInv, ScriptsOwn
    <2>2. sessions[i] # NoSession
      BY <2>1 DEF NoSession, Run
    <2> QED
      BY <2>1, <2>2
  <1>5. \A i \in SessionId : s.created = i => sessions'[i].by = r
    BY DEF SessionId
  <1> QED
    BY <1>1, <1>3, <1>4, <1>5 DEF ScriptsOwn

LEMMA LockStays ==
  ASSUME ResumeInv, NEW r \in Run, NEW s, script' = [script EXCEPT ![r] = s], s.at # "none",
         UNCHANGED <<phase, runLock, orphaned>>, Alive(r)
  PROVE  LockKept'
  <1>1. \A q \in Run : (Alive(q)' => Alive(q)) /\ (script'[q].at = "none" => script[q].at = "none")
    BY DEF ResumeInv, ResumeRecords, Alive
  <1> QED
    BY <1>1 DEF ResumeInv, LockKept, Waits

\* No session is made, and none of the makers has made fewer.
LEMMA NumberingStays ==
  ASSUME ResumeInv, ResumeRecords', \A b \in 0..MaxRun : Made(b)' >= Made(b),
         \A i \in SessionId : sessions'[i].by = sessions[i].by /\ (sessions'[i] = NoSession <=> sessions[i] = NoSession)
  PROVE  Numbered'
  <1>1. PICK n : Numbering(n)
    BY DEF ResumeInv, Numbered
  <1>2. \A b \in 0..MaxRun : Made(b) \in Int /\ Made(b)' \in Int
    BY MadeIsBounded, SMTT(40) DEF ResumeInv, ResumeRecords, Made, UnitsMade, Scripts, Run, User
  <1>3. Given' = Given
    BY DEF Given
  <1>4. ASSUME NEW b \in 0..MaxRun, NEW i \in Given, sessions'[i].by = b
        PROVE  n[i] \in 1..Made(b)'
    <2>1. n[i] \in 1..Made(b)
      BY <1>1, <1>4 DEF Numbering, Given
    <2> QED
      BY <1>2, <2>1
  <1>5. Numbering(n)'
    BY <1>1, <1>3, <1>4 DEF Numbering, Given
  <1> QED
    BY <1>5 DEF Numbered

\* A new session gets the number its maker has reached.
LEMMA NumberingGrows ==
  ASSUME ResumeInv, ResumeRecords', NEW b \in 0..MaxRun, NEW i \in SessionId, sessions[i] = NoSession,
         \A c \in 0..MaxRun : Made(c)' >= Made(c), Made(b)' = Made(b) + 1, Made(b) >= 0,
         sessions'[i].by = b, \A j \in SessionId \ {i} : sessions'[j] = sessions[j]
  PROVE  Numbered'
  <1>1. PICK n : Numbering(n)
    BY DEF ResumeInv, Numbered
  <1>2. \A c \in 0..MaxRun : Made(c) \in Int /\ Made(c)' \in Int
    <2>1. \A c \in 0..MaxRun : Made(c) \in Int
      BY MadeIsBounded DEF ResumeInv
    <2>2. \A c \in 0..MaxRun : Made(c)' \in Int
      BY QuickResumeAssumption DEF ResumeRecords, Made, UnitsMade, Scripts, Run, User
    <2> QED
      BY <2>1, <2>2
  <1>3. PICK m \in [SessionId -> Nat] : m[i] = Made(b) + 1 /\ \A j \in SessionId \ {i} : m[j] = n[j]
    <2> DEFINE more == [n EXCEPT ![i] = Made(b) + 1]
    <2>1. more \in [SessionId -> Nat] /\ more[i] = Made(b) + 1 /\ \A j \in SessionId \ {i} : more[j] = n[j]
      BY <1>1, <1>2 DEF Numbering
    <2> HIDE DEF more
    <2> QED
      BY <2>1
  <1>4. i \notin Given /\ Given \subseteq SessionId /\ Given' \subseteq Given \cup {i}
    BY DEF Given
  <1>5. ASSUME NEW c \in 0..MaxRun, NEW j \in Given', sessions'[j].by = c
        PROVE  m[j] \in 1..Made(c)' /\ (j # i /\ c = b => m[j] # m[i])
    <2>1. CASE j = i
      BY <1>2, <1>3, <1>5, <2>1
    <2>2. CASE j # i
      <3>1. j \in Given /\ sessions[j].by = c
        BY <1>4, <1>5, <2>2
      <3>2. n[j] \in 1..Made(c) /\ m[j] = n[j]
        BY <1>1, <1>3, <1>4, <2>2, <3>1 DEF Numbering
      <3> QED
        BY <1>2, <1>3, <2>2, <3>2
    <2> QED
      BY <2>1, <2>2
  <1>6. \A j, k \in Given' : j # k /\ sessions'[j].by = sessions'[k].by => m[j] # m[k]
    BY <1>1, <1>3, <1>4, <1>5 DEF Numbering
  <1>7. Numbering(m)'
    BY <1>3, <1>5, <1>6 DEF Numbering
  <1> QED
    BY <1>7 DEF Numbered

\* No session is made, and none changes hands.
SameMakers ==
  /\ sessions' \in [SessionId -> TmuxSession]
  /\ \A i \in SessionId :
       /\ sessions'[i].by = sessions[i].by
       /\ sessions'[i] = NoSession <=> sessions[i] = NoSession
       /\ sessions'[i].name = 0 => sessions'[i] = NoSession

\* A step that changes script r, and makes no session.
LEMMA ScriptChanges ==
  ASSUME ResumeInv, NEW r \in Run, NEW s \in Scripts, script' = [script EXCEPT ![r] = s],
         phase' \in [Server -> [is : Phases, run : 0..MaxRun]], runLock' \in Server \cup {Unlocked},
         orphaned' \in BOOLEAN, LockKept', UNCHANGED userActs, ScriptFits(s),
         s.created # 0 => sessions'[s.created].by = r, UnitsMade(s) >= UnitsMade(script[r]),
         torn' \in BOOLEAN, runFaults' \in 0..MaxRunFault, SameMakers, TypedOwn',
         torn => torn', notKilled \subseteq notKilled', notKilled' \in SUBSET SessionId,
         \A i \in SessionId :
           /\ sessions[i].by = r => OpenUnit(i, sessions'[i], s, Excused(i)')
           /\ sessions[i].by # r => sessions'[i] = sessions[i]
  PROVE  ResumeInv'
  <1>1. script' \in [Run -> Scripts] /\ ScriptsOwn'
    BY ScriptMoves DEF SameMakers
  <1>2. ResumeRecords'
    BY <1>1 DEF ResumeInv, ResumeRecords, SameMakers
  <1>3. script'[r] = s /\ \A q \in Run \ {r} : script'[q] = script[q]
    BY DEF ResumeInv, ResumeRecords
  <1>4. HalfIsOpen'
    <2>1. SUFFICES ASSUME NEW i \in SessionId, sessions'[i].by # User
                   PROVE  OpenUnit(i, sessions'[i], script'[sessions'[i].by], Excused(i)')
      BY DEF HalfIsOpen
    <2>2. sessions'[i].by = sessions[i].by /\ sessions[i].by \in Run
      BY <2>1 DEF SameMakers, ResumeInv, ResumeRecords, TmuxSession, Run, User
    <2>3. CASE sessions[i].by = r
      BY <1>3, <2>2, <2>3
    <2>4. CASE sessions[i].by # r
      <3>1. OpenUnit(i, sessions[i], script[sessions[i].by], Excused(i))
        BY <2>1, <2>2 DEF ResumeInv, HalfIsOpen
      <3>2. sessions'[i] = sessions[i] /\ script'[sessions'[i].by] = script[sessions[i].by] /\ (Excused(i) => Excused(i)')
        BY <1>3, <2>2, <2>4 DEF Excused
      <3> QED
        BY <3>1, <3>2 DEF OpenUnit
    <2> QED
      BY <2>3, <2>4
  <1>5. Numbered'
    <2>1. \A b \in Run : UnitsMade(script'[b]) >= UnitsMade(script[b])
      BY <1>1, <1>3, QuickResumeAssumption DEF ResumeInv, ResumeRecords, UnitsMade, Scripts
    <2>2. \A b \in 0..MaxRun : Made(b)' >= Made(b)
      BY <2>1 DEF Made, UnitsMade, User, Run, ResumeInv, ResumeRecords
    <2> QED
      BY <1>2, <2>2, NumberingStays DEF SameMakers
  <1> QED
    BY <1>1, <1>2, <1>4, <1>5 DEF ResumeInv

LEMMA ScriptKeeps ==
  ASSUME ResumeInv, NEW r \in Run, NEW s \in Scripts, script' = [script EXCEPT ![r] = s],
         UNCHANGED <<phase, runLock, orphaned, userActs>>, Alive(r), ScriptFits(s), s.at # "none",
         s.created # 0 => sessions'[s.created].by = r, UnitsMade(s) >= UnitsMade(script[r]),
         torn' \in BOOLEAN, runFaults' \in 0..MaxRunFault, SameMakers, TypedOwn',
         torn => torn', notKilled \subseteq notKilled', notKilled' \in SUBSET SessionId,
         \A i \in SessionId :
           /\ sessions[i].by = r => OpenUnit(i, sessions'[i], s, Excused(i)')
           /\ sessions[i].by # r => sessions'[i] = sessions[i]
  PROVE  ResumeInv'
  <1>1. LockKept'
    BY LockStays
  <1>2. /\ phase' \in [Server -> [is : Phases, run : 0..MaxRun]] /\ runLock' \in Server \cup {Unlocked}
        /\ orphaned' \in BOOLEAN
    BY DEF ResumeInv, ResumeRecords
  <1> QED
    BY <1>1, <1>2, ScriptChanges

LEMMA Unchanging ==
  ASSUME ResumeInv, UNCHANGED sessions
  PROVE  SameMakers /\ TypedOwn' /\ \A i \in SessionId : sessions'[i] = sessions[i]
  BY DEF ResumeInv, ResumeRecords, SameMakers, TypedOwn

LEMMA KillLeaves ==
  ASSUME ResumeInv, NEW i \in SessionId, sessions[i].name # 0, sessions' = KillSession(i)
  PROVE  /\ SameMakers /\ TypedOwn' /\ sessions'[i].name = -1
         /\ \A j \in SessionId \ {i} : sessions'[j] = sessions[j]
  <1>1. /\ sessions'[i].name = -1 /\ sessions'[i].by = sessions[i].by
        /\ sessions'[i].typed = sessions[i].typed /\ sessions' \in [SessionId -> TmuxSession]
        /\ \A j \in SessionId \ {i} : sessions'[j] = sessions[j]
    BY QuickResumeAssumption DEF KillSession, ResumeInv, ResumeRecords, TmuxSession
  <1>2. TypedOwn'
    BY <1>1 DEF ResumeInv, TypedOwn
  <1>3. SameMakers
    BY <1>1 DEF SameMakers, ResumeInv, ResumeRecords, NoSession
  <1> QED
    BY <1>1, <1>2, <1>3

\* The script goes on with the next unit.
LEMMA NextUnitFits ==
  ASSUME NEW s \in Scripts, s.unit \in Unit, s.at # "none"
  PROVE  /\ NextUnit(s) \in Scripts /\ NextUnit(s).at # "none" /\ ScriptFits(NextUnit(s))
         /\ NextUnit(s).created = 0 /\ UnitsMade(NextUnit(s)) >= UnitsMade(s)
         /\ NextUnit(s).failures = s.failures
  <1>1. CASE s.unit = NumUnit
    <2>1. /\ NextUnit(s).at = "exited" /\ NextUnit(s).unit = s.unit /\ NextUnit(s).created = 0 /\ NextUnit(s) \in Scripts
          /\ NextUnit(s).failures = s.failures
      BY <1>1 DEF NextUnit, Scripts
    <2> QED
      BY <2>1, QuickResumeAssumption DEF Scripts, ScriptFits, UnitsMade, Unit
  <1>2. CASE s.unit # NumUnit
    <2>1. s.unit + 1 \in 1..NumUnit
      BY <1>2, QuickResumeAssumption DEF Unit
    <2>2. /\ NextUnit(s).at = "has" /\ NextUnit(s).unit = s.unit + 1 /\ NextUnit(s).created = 0 /\ NextUnit(s) \in Scripts
          /\ NextUnit(s).failures = s.failures
      <3> DEFINE next == [s EXCEPT !.at = "has", !.unit = @ + 1, !.created = 0]
      <3>1. next.at = "has" /\ next.unit = s.unit + 1 /\ next.created = 0 /\ next \in Scripts /\ next.failures = s.failures
        <4>1. next.at = "has" /\ next.unit = s.unit + 1 /\ next.created = 0 /\ next.failures = s.failures
          BY DEF Scripts
        <4>2. next \in Scripts
          <5> DEFINE u == [s EXCEPT !.at = "has"]
                     v == [u EXCEPT !.unit = s.unit + 1]
          <5>1. u \in Scripts /\ u.unit = s.unit
            BY DEF Scripts
          <5> HIDE DEF u
          <5>2. v \in Scripts
            BY <2>1, <5>1, QuickResumeAssumption DEF Scripts
          <5>3. next = [v EXCEPT !.created = 0]
            BY DEF u
          <5> HIDE DEF v, next
          <5> QED
            BY <5>2, <5>3 DEF Scripts
        <4> QED
          BY <4>1, <4>2
      <3> QED
        BY <1>2, <3>1 DEF NextUnit
    <2> QED
      BY <2>1, <2>2, QuickResumeAssumption DEF Scripts, ScriptFits, UnitsMade, Unit
  <1> QED
    BY <1>1, <1>2

\* Records of scripts, one field after the other.
LEMMA ExitedFits ==
  ASSUME NEW s \in Scripts, NEW status \in {143, 137}
  PROVE  /\ Exited(s, status) \in Scripts /\ Exited(s, status).at = "exited"
         /\ Exited(s, status).unit = s.unit /\ Exited(s, status).created = s.created
         /\ Exited(s, status).failures = status
  <1> DEFINE x == [s EXCEPT !.at = "exited"]
  <1>1. x \in Scripts /\ x.at = "exited" /\ x.unit = s.unit /\ x.created = s.created
    BY DEF Scripts
  <1>2. Exited(s, status) = [x EXCEPT !.failures = status]
    BY DEF Exited
  <1> HIDE DEF x
  <1>3. [x EXCEPT !.failures = status] \in Scripts
    BY <1>1 DEF Scripts
  <1>4. [x EXCEPT !.failures = status].at = x.at /\ [x EXCEPT !.failures = status].unit = x.unit
        /\ [x EXCEPT !.failures = status].created = x.created /\ [x EXCEPT !.failures = status].failures = status
    BY <1>1 DEF Scripts
  <1> QED
    BY <1>1, <1>2, <1>3, <1>4

\* The end of fail_unit: the unit counts as failed.
LEMMA UnitFailedFits ==
  ASSUME NEW s \in Scripts, s.unit \in Unit, s.at # "none"
  PROVE  /\ UnitFailed(s) \in Scripts /\ UnitFailed(s).at # "none" /\ ScriptFits(UnitFailed(s))
         /\ UnitFailed(s).created = 0 /\ UnitsMade(UnitFailed(s)) >= UnitsMade(s) /\ UnitFailed(s).failures # 0
  <1>1. CASE s.term = "trapped"
    <2> DEFINE e == Exited(s, 143)
               x == [e EXCEPT !.created = 0]
    <2>1. e \in Scripts /\ e.at = "exited" /\ e.unit = s.unit /\ e.failures = 143
      BY ExitedFits
    <2> HIDE DEF e
    <2>2. x \in Scripts /\ x.at = "exited" /\ x.unit = s.unit /\ x.failures = 143 /\ x.created = 0
      BY <2>1 DEF Scripts
    <2>3. UnitFailed(s) = x
      BY <1>1 DEF UnitFailed, e
    <2> HIDE DEF x
    <2> QED
      BY <2>2, <2>3 DEF ScriptFits, UnitsMade, Unit
  <1>2. CASE s.term # "trapped"
    <2> DEFINE f == [s EXCEPT !.failures = @ + 1]
    <2>1. f \in Scripts /\ f.unit = s.unit /\ f.at = s.at /\ UnitFailed(s) = NextUnit(f) /\ f.failures # 0
      BY <1>2 DEF Scripts, UnitFailed
    <2>2. UnitsMade(f) = UnitsMade(s)
      BY <2>1 DEF UnitsMade
    <2> HIDE DEF f
    <2> QED
      BY <2>1, <2>2, NextUnitFits
  <1> QED
    BY <1>1, <1>2

-----------------------------------------------------------------------------
(* The steps of a script.                                                  *)

LEMMA UnderWay ==
  ASSUME ResumeInv, NEW r \in Run, Alive(r)
  PROVE  /\ script[r] \in Scripts /\ script[r].unit \in Unit /\ script[r].at # "none" /\ ScriptFits(script[r])
         /\ script[r].created # 0 => script[r].created \in SessionId /\ sessions[script[r].created].by = r
         /\ r \in 0..MaxRun /\ r # User
  BY DEF ResumeInv, ResumeRecords, ScriptsOwn, ScriptFits, Alive, Scripts, Run, User

\* The script passes to another place in its unit.
LEMMA PassesOn ==
  ASSUME NEW s \in Scripts, s.unit \in Unit, NEW at \in {"create", "type", "finish", "fail", "kill"},
         at = "create" => s.created = 0 /\ s.at \in {"has", "create"},
         at \in {"type", "finish", "kill"} => s.created # 0
  PROVE  /\ [s EXCEPT !.at = at] \in Scripts /\ [s EXCEPT !.at = at].at = at
         /\ [s EXCEPT !.at = at].unit = s.unit /\ [s EXCEPT !.at = at].created = s.created
         /\ [s EXCEPT !.at = at].failures = s.failures /\ ScriptFits([s EXCEPT !.at = at])
         /\ UnitsMade([s EXCEPT !.at = at]) >= UnitsMade(s)
  <1> DEFINE x == [s EXCEPT !.at = at]
  <1>1. /\ x \in Scripts /\ x.at = at /\ x.unit = s.unit /\ x.created = s.created /\ x.failures = s.failures
    BY DEF Scripts
  <1> HIDE DEF x
  <1>2. ScriptFits(x) /\ UnitsMade(x) >= UnitsMade(s)
    BY <1>1 DEF ScriptFits, UnitsMade, Unit
  <1> QED
    BY <1>1, <1>2 DEF x

\* A unit stays the present one where the script keeps its session's id.
LEMMA StaysOpen ==
  ASSUME ResumeInv, NEW r \in Run, UNCHANGED <<sessions, torn, notKilled>>, NEW s,
         s.created = script[r].created, s.unit = script[r].unit, s.failures = script[r].failures,
         script[r].at \in {"send", "type", "fail", "kill"} => s.at \in {"send", "type", "fail", "kill"}
  PROVE  \A i \in SessionId : sessions[i].by = r => OpenUnit(i, sessions'[i], s, Excused(i)')
  BY DEF ResumeInv, HalfIsOpen, OpenUnit, Excused, Run, User

LEMMA FailKeeps ==
  ASSUME ResumeInv, NEW r \in Run, Alive(r), Fail(r),
         UNCHANGED <<phase, runLock, orphaned, torn, notKilled, userActs>>, runFaults' \in 0..MaxRunFault
  PROVE  ResumeInv'
  <1> DEFINE s == [script[r] EXCEPT !.at = "fail"]
  <1>1. script' = [script EXCEPT ![r] = s] /\ UNCHANGED sessions
    BY DEF Fail
  <1>2. /\ s \in Scripts /\ s.at = "fail" /\ s.unit = script[r].unit /\ s.created = script[r].created
        /\ s.failures = script[r].failures /\ ScriptFits(s) /\ UnitsMade(s) >= UnitsMade(script[r])
    BY UnderWay, PassesOn
  <1> HIDE DEF s
  <1>3. \A i \in SessionId : sessions[i].by = r => OpenUnit(i, sessions'[i], s, Excused(i)')
    BY <1>1, <1>2, StaysOpen
  <1>4. s.created # 0 => sessions'[s.created].by = r
    BY <1>1, <1>2, UnderWay
  <1>5. torn' \in BOOLEAN /\ notKilled' \in SUBSET SessionId
    BY DEF ResumeInv, ResumeRecords
  <1> QED
    BY <1>1, <1>2, <1>3, <1>4, <1>5, Unchanging, ScriptKeeps

\* fail_unit ends: the session is killed, is not the unit's, or is left.
LEMMA RollbackEnds ==
  ASSUME ResumeInv, NEW r \in Run, Alive(r), script' = [script EXCEPT ![r] = UnitFailed(@)],
         UNCHANGED <<phase, runLock, orphaned, torn, userActs>>, runFaults' \in 0..MaxRunFault,
         SameMakers, TypedOwn', notKilled \subseteq notKilled', notKilled' \in SUBSET SessionId,
         \A i \in SessionId : i # script[r].created => sessions'[i] = sessions[i],
         script[r].created # 0 =>
           sessions'[script[r].created].name # script[r].unit \/ script[r].created \in notKilled',
         script[r].created # 0 =>
           sessions'[script[r].created].name \in {sessions[script[r].created].name, -1}
             /\ sessions'[script[r].created].typed = sessions[script[r].created].typed
  PROVE  ResumeInv'
  <1> DEFINE s == UnitFailed(script[r])
             c == script[r].created
  <1>1. script' = [script EXCEPT ![r] = s] /\ torn' \in BOOLEAN /\ torn' = torn
    BY DEF ResumeInv, ResumeRecords
  <1>2. /\ s \in Scripts /\ s.at # "none" /\ ScriptFits(s) /\ s.created = 0
        /\ UnitsMade(s) >= UnitsMade(script[r]) /\ s.failures # 0
    BY UnderWay, UnitFailedFits
  <1> HIDE DEF s
  <1>3. ASSUME NEW i \in SessionId, sessions[i].by = r
        PROVE  OpenUnit(i, sessions'[i], s, Excused(i)')
    <2>1. SUFFICES ASSUME sessions'[i].name \in Unit, sessions'[i].typed = {}
                   PROVE  Excused(i)'
      BY <1>2 DEF OpenUnit
    <2>2. sessions[i].name \in Unit /\ sessions[i].typed = {} /\ i # 0
      BY <2>1 DEF SessionId, Unit
    <2>3. OpenUnit(i, sessions[i], script[r], Excused(i))
      BY <1>3 DEF ResumeInv, HalfIsOpen, Run, User
    <2>4. CASE Excused(i)
      BY <1>1, <2>4 DEF Excused
    <2>5. CASE c = i /\ script[r].unit = sessions[i].name
      <3>1. sessions'[i].name = script[r].unit
        BY <2>1, <2>2, <2>5 DEF Unit
      <3> QED
        BY <2>2, <2>5, <3>1 DEF Excused
    <2> QED
      BY <1>3, <2>2, <2>3, <2>4, <2>5, UnderWay DEF OpenUnit
  <1>4. ASSUME NEW i \in SessionId, sessions[i].by # r
        PROVE  sessions'[i] = sessions[i]
    <2>1. i # 0
      BY DEF SessionId
    <2> QED
      BY <1>4, <2>1, UnderWay
  <1>5. \A i \in SessionId :
          /\ sessions[i].by = r => OpenUnit(i, sessions'[i], s, Excused(i)')
          /\ sessions[i].by # r => sessions'[i] = sessions[i]
    BY <1>3, <1>4
  <1>6. torn => torn'
    BY <1>1
  <1> QED
    BY <1>1, <1>2, <1>5, <1>6, ScriptKeeps

LEMMA RollbackKeeps ==
  ASSUME ResumeInv, NEW r \in Run, Rollback(r)
  PROVE  ResumeInv'
  <1> DEFINE c == script[r].created
  <1>1. /\ Alive(r) /\ UNCHANGED <<phase, runLock, orphaned, torn, userActs>> /\ runFaults' \in 0..MaxRunFault
        /\ script[r].at \in {"fail", "kill"}
    BY QuickResumeAssumption DEF Rollback, Proceeds, Alive, ResumeInv, ResumeRecords
  <1>2. /\ c # 0 => c \in SessionId /\ sessions[c].by = r
        /\ script[r].at = "kill" => c # 0
        /\ script[r].unit \in Unit
    BY <1>1, UnderWay DEF ScriptFits
  <1>3. notKilled \in SUBSET SessionId
    BY DEF ResumeInv, ResumeRecords
  <1>4. CASE script[r].at = "fail" /\ Belongs(r) /\ UNCHANGED <<sessions, notKilled>>
             /\ script' = [script EXCEPT ![r] = [@ EXCEPT !.at = "kill"]]
    <2> DEFINE s == [script[r] EXCEPT !.at = "kill"]
    <2>1. script' = [script EXCEPT ![r] = s]
      BY <1>4
    <2>2. /\ s \in Scripts /\ s.at = "kill" /\ s.unit = script[r].unit /\ s.created = script[r].created
          /\ s.failures = script[r].failures /\ ScriptFits(s) /\ UnitsMade(s) >= UnitsMade(script[r])
      BY <1>1, <1>4, UnderWay, PassesOn DEF Belongs
    <2> HIDE DEF s
    <2>3. \A i \in SessionId : sessions[i].by = r => OpenUnit(i, sessions'[i], s, Excused(i)')
      BY <1>1, <1>4, <2>2, StaysOpen
    <2>4. s.created # 0 => sessions'[s.created].by = r
      BY <1>2, <1>4, <2>2
    <2>5. torn' \in BOOLEAN /\ notKilled' \in SUBSET SessionId
      BY <1>1, <1>4 DEF ResumeInv, ResumeRecords
    <2> QED
      BY <1>1, <1>4, <2>1, <2>2, <2>3, <2>4, <2>5, Unchanging, ScriptKeeps
  <1>5. CASE script[r].at = "fail" /\ ~Belongs(r) /\ UNCHANGED <<sessions, notKilled>>
             /\ script' = [script EXCEPT ![r] = UnitFailed(@)]
    <2>1. c # 0 => sessions'[c].name # script[r].unit
      BY <1>5 DEF Belongs
    <2> HIDE DEF c
    <2> QED
      BY <1>1, <1>3, <1>5, <2>1, Unchanging, RollbackEnds DEF c
  <1>6. CASE script[r].at = "kill" /\ UNCHANGED notKilled /\ script' = [script EXCEPT ![r] = UnitFailed(@)]
             /\ sessions' = IF sessions[c].name > 0 THEN KillSession(c) ELSE sessions
    <2>1. c \in SessionId /\ sessions[c] \in TmuxSession
      BY <1>2, <1>6, SMTT(40) DEF ResumeInv, ResumeRecords
    <2>2. CASE sessions[c].name > 0
      <3>1. /\ SameMakers /\ TypedOwn' /\ sessions'[c].name = -1 /\ sessions'[c].typed = sessions[c].typed
            /\ \A j \in SessionId \ {c} : sessions'[j] = sessions[j]
        <4>1. sessions' = KillSession(c) /\ sessions[c].name # 0
          BY <1>6, <2>1, <2>2
        <4>2. sessions'[c].typed = sessions[c].typed
          BY <2>1, <4>1 DEF KillSession, ResumeInv, ResumeRecords, TmuxSession
        <4> QED
          BY <2>1, <4>1, <4>2, KillLeaves
      <3>2. sessions'[c].name # script[r].unit
        BY <1>2, <3>1 DEF Unit
      <3> HIDE DEF c
      <3> QED
        BY <1>1, <1>3, <1>6, <2>1, <3>1, <3>2, RollbackEnds DEF c
    <2>3. CASE ~(sessions[c].name > 0)
      <3>1. UNCHANGED sessions /\ sessions[c].name # script[r].unit
        BY <1>2, <1>6, <2>1, <2>3 DEF Unit, TmuxSession
      <3> HIDE DEF c
      <3> QED
        BY <1>1, <1>3, <1>6, <3>1, Unchanging, RollbackEnds DEF c
    <2> QED
      BY <2>2, <2>3
  <1>7. CASE c # 0 /\ UNCHANGED sessions /\ notKilled' = notKilled \cup {c}
             /\ script' = [script EXCEPT ![r] = UnitFailed(@)]
    <2>1. notKilled' \in SUBSET SessionId /\ notKilled \subseteq notKilled' /\ c \in notKilled'
      BY <1>2, <1>3, <1>7
    <2> HIDE DEF c
    <2> QED
      BY <1>1, <1>7, <2>1, Unchanging, RollbackEnds DEF c
  <1> QED
    BY <1>4, <1>5, <1>6, <1>7 DEF Rollback, Proceeds, ResumeInv, ResumeRecords

LEMMA HasKeeps ==
  ASSUME ResumeInv, NEW r \in Run, Has(r)
  PROVE  ResumeInv'
  <1> DEFINE s == IF Named(script[r].unit) # {} THEN NextUnit(script[r]) ELSE [script[r] EXCEPT !.at = "create"]
  <1>1. /\ script' = [script EXCEPT ![r] = s] /\ Alive(r) /\ script[r].at = "has"
        /\ UNCHANGED <<phase, runLock, sessions, orphaned, torn, notKilled, userActs, runFaults>>
    BY DEF Has, Proceeds, Alive, historyVars
  <1>2. script[r].created = 0
    BY <1>1, UnderWay DEF ScriptFits
  <1>3. /\ s \in Scripts /\ s.at # "none" /\ ScriptFits(s) /\ s.created = 0
        /\ UnitsMade(s) >= UnitsMade(script[r]) /\ s.failures = script[r].failures
    <2>1. CASE Named(script[r].unit) # {}
      BY <1>1, <2>1, UnderWay, NextUnitFits
    <2>2. CASE Named(script[r].unit) = {}
      <3>1. UnitsMade(script[r]) \in Int
        BY <1>1, UnderWay DEF UnitsMade, Unit
      <3> DEFINE t == [script[r] EXCEPT !.at = "create"]
      <3>2. s = t
        BY <2>2
      <3>3. script[r] \in Scripts /\ script[r].unit \in Unit
        BY <1>1, UnderWay
      <3>4. t \in Scripts /\ t.at = "create" /\ t.created = 0 /\ ScriptFits(t) /\ UnitsMade(t) >= UnitsMade(script[r])
            /\ t.failures = script[r].failures
        BY <1>1, <1>2, <3>3, PassesOn
      <3> HIDE DEF t, s
      <3> QED
        BY <3>1, <3>2, <3>4
    <2> QED
      BY <2>1, <2>2
  <1> HIDE DEF s
  <1>4. \A i \in SessionId : sessions[i].by = r => OpenUnit(i, sessions'[i], s, Excused(i)')
    BY <1>1, <1>3, UnderWay DEF ResumeInv, HalfIsOpen, OpenUnit, Excused
  <1> QED
    BY <1>1, <1>3, <1>4, Unchanging, ScriptKeeps DEF ResumeInv, ResumeRecords

\* A new session, of which there are enough.
LEMMA NewSessionFits ==
  ASSUME ResumeInv, NEW b \in 0..MaxRun, NEW name \in Unit,
         Made(b) < IF b = User THEN MaxUser ELSE NumUnit, sessions' = NewSession(name, b)
  PROVE  /\ FreshId \in SessionId /\ sessions[FreshId] = NoSession
         /\ sessions' \in [SessionId -> TmuxSession] /\ sessions'[FreshId].name = name
         /\ sessions'[FreshId].by = b /\ sessions'[FreshId].typed = {}
         /\ \A i \in SessionId \ {FreshId} : sessions'[i] = sessions[i]
         /\ TypedOwn' /\ \A i \in SessionId : sessions'[i].name = 0 => sessions'[i] = NoSession
  <1> DEFINE new == [name |-> name, by |-> b, typed |-> {}]
  <1>1. FreshId \in SessionId /\ sessions[FreshId] = NoSession
    BY SomeIdIsFresh DEF ResumeInv
  <1>2. new \in TmuxSession /\ name # 0
    BY QuickResumeAssumption DEF TmuxSession, Unit
  <1>3. sessions' = [sessions EXCEPT ![FreshId] = new]
    BY DEF NewSession
  <1>4. new.name = name /\ new.by = b /\ new.typed = {}
    OBVIOUS
  <1> HIDE DEF new
  <1>5. /\ sessions' \in [SessionId -> TmuxSession] /\ sessions'[FreshId] = new
        /\ \A i \in SessionId \ {FreshId} : sessions'[i] = sessions[i]
    BY <1>1, <1>2, <1>3 DEF ResumeInv, ResumeRecords
  <1>6. TypedOwn'
    BY <1>4, <1>5 DEF ResumeInv, TypedOwn
  <1>7. \A i \in SessionId : sessions'[i].name = 0 => sessions'[i] = NoSession
    BY <1>2, <1>4, <1>5 DEF ResumeInv, ResumeRecords
  <1> QED
    BY <1>1, <1>4, <1>5, <1>6, <1>7

\* Script r makes the session of its unit, and learns its id unless it is torn.
LEMMA CreationKeeps ==
  ASSUME ResumeInv, NEW r \in Run, NEW s \in Scripts, script' = [script EXCEPT ![r] = s],
         phase' \in [Server -> [is : Phases, run : 0..MaxRun]], runLock' \in Server \cup {Unlocked},
         orphaned' \in BOOLEAN, LockKept', UNCHANGED <<notKilled, userActs>>, script[r].at = "create",
         sessions' = NewSession(script[r].unit, r), ScriptFits(s), s.unit = script[r].unit,
         s.at \in {"send", "exited"}, torn' \in BOOLEAN, runFaults' \in 0..MaxRunFault,
         torn => torn', s.created \in {0, FreshId},
         (s.at = "send" /\ s.created = FreshId /\ s.failures = script[r].failures) \/ (torn' /\ s.failures # 0)
  PROVE  ResumeInv'
  <1> DEFINE i == FreshId
  <1>a. Alive(r)
    BY DEF Alive
  <1>1. Made(r) = script[r].unit - 1 /\ Made(r) >= 0 /\ Made(r) < NumUnit
    BY <1>a, UnderWay, QuickResumeAssumption DEF Made, UnitsMade, Unit
  <1>2. /\ i \in SessionId /\ sessions[i] = NoSession
        /\ sessions' \in [SessionId -> TmuxSession] /\ sessions'[i].name = script[r].unit
        /\ sessions'[i].by = r /\ sessions'[i].typed = {}
        /\ \A j \in SessionId \ {i} : sessions'[j] = sessions[j]
        /\ TypedOwn' /\ \A j \in SessionId : sessions'[j].name = 0 => sessions'[j] = NoSession
    BY <1>1, <1>a, UnderWay, NewSessionFits
  <1> HIDE DEF i
  <1>3. script' \in [Run -> Scripts] /\ LockKept' /\ ScriptsOwn'
    BY <1>2, ScriptMoves DEF i
  <1>4. ResumeRecords'
    BY <1>2, <1>3 DEF ResumeInv, ResumeRecords
  <1>5. script'[r] = s /\ \A q \in Run \ {r} : script'[q] = script[q]
    BY DEF ResumeInv, ResumeRecords
  <1>6. HalfIsOpen'
    <2>1. SUFFICES ASSUME NEW j \in SessionId, sessions'[j].by # User
                   PROVE  OpenUnit(j, sessions'[j], script'[sessions'[j].by], Excused(j)')
      BY DEF HalfIsOpen
    <2>2. CASE j = i
      BY <1>2, <1>5, <2>1, <2>2 DEF OpenUnit, Excused, i
    <2>3. CASE j # i
      <3> DEFINE q == sessions[j].by
      <3>1. sessions'[j] = sessions[j] /\ q \in Run /\ q # User /\ (Excused(j) => Excused(j)')
        BY <1>2, <2>1, <2>3 DEF ResumeInv, ResumeRecords, TmuxSession, Run, User, Excused
      <3>2. OpenUnit(j, sessions[j], script[q], Excused(j))
        BY <3>1 DEF ResumeInv, HalfIsOpen
      <3>3. CASE q = r
        BY <1>5, <3>1, <3>2, <3>3 DEF OpenUnit
      <3>4. CASE q # r
        BY <1>5, <3>1, <3>2, <3>4 DEF OpenUnit
      <3> QED
        BY <3>3, <3>4
    <2> QED
      BY <2>2, <2>3
  <1>7. Numbered'
    <2>1. \A b \in 0..MaxRun : b # r => Made(b)' = Made(b)
      BY <1>5 DEF Made, User, Run
    <2>2. Made(r)' = Made(r) + 1
      BY <1>1, <1>5, <1>a, UnderWay DEF Made, UnitsMade, Unit
    <2>3. \A b \in 0..MaxRun : Made(b) \in Int
      BY MadeIsBounded DEF ResumeInv
    <2>4. \A b \in 0..MaxRun : Made(b)' >= Made(b)
      BY <1>1, <2>1, <2>2, <2>3
    <2> QED
      BY <1>1, <1>2, <1>4, <1>a, <2>2, <2>4, UnderWay, NumberingGrows
  <1> QED
    BY <1>2, <1>3, <1>4, <1>6, <1>7 DEF ResumeInv

LEMMA LearnsId ==
  ASSUME NEW s \in Scripts, NEW c \in SessionId
  PROVE  [s EXCEPT !.at = "send", !.created = c] \in Scripts
  <1> DEFINE x == [s EXCEPT !.at = "send"]
  <1>1. x \in Scripts
    BY DEF Scripts
  <1>2. [s EXCEPT !.at = "send", !.created = c] = [x EXCEPT !.created = c]
    OBVIOUS
  <1> HIDE DEF x
  <1> QED
    BY <1>1, <1>2 DEF Scripts

LEMMA CreateKeeps ==
  ASSUME ResumeInv, NEW r \in Run, Create(r)
  PROVE  ResumeInv'
  <1>1. /\ Alive(r) /\ script[r].at = "create"
        /\ UNCHANGED <<phase, runLock, orphaned, torn, notKilled, userActs, runFaults>>
    BY DEF Create, Proceeds, Alive, historyVars
  <1>2. /\ torn' \in BOOLEAN /\ runFaults' \in 0..MaxRunFault /\ orphaned' \in BOOLEAN
        /\ phase' \in [Server -> [is : Phases, run : 0..MaxRun]] /\ runLock' \in Server \cup {Unlocked}
    BY <1>1 DEF ResumeInv, ResumeRecords
  <1>3. CASE Fail(r)
    BY <1>1, <1>2, <1>3, FailKeeps
  <1>4. CASE ~Fail(r)
    <2> DEFINE s == [script[r] EXCEPT !.at = "send", !.created = FreshId]
    <2>1. sessions' = NewSession(script[r].unit, r) /\ script' = [script EXCEPT ![r] = s]
      BY <1>4 DEF Create, ResumeInv, ResumeRecords
    <2>2. FreshId \in SessionId
      <3>1. Made(r) < NumUnit
        BY <1>1, UnderWay, QuickResumeAssumption DEF Made, UnitsMade, Unit
      <3> QED
        BY <1>1, <3>1, UnderWay, SomeIdIsFresh DEF ResumeInv
    <2>3. s \in Scripts /\ FreshId # 0
      <3>1. script[r] \in Scripts
        BY <1>1, UnderWay
      <3>2. FreshId # 0
        BY <2>2 DEF SessionId
      <3> QED
        BY <2>2, <3>1, <3>2, LearnsId
    <2>5. s.at = "send" /\ s.created = FreshId /\ s.unit = script[r].unit /\ s.failures = script[r].failures
      BY <1>1, UnderWay DEF Scripts
    <2>4. ScriptFits(s)
      BY <1>1, <2>3, <2>5, UnderWay DEF ScriptFits
    <2> HIDE DEF s
    <2>6. LockKept'
      BY <1>1, <2>1, <2>5, LockStays
    <2> QED
      BY <1>1, <1>2, <2>1, <2>3, <2>4, <2>5, <2>6, CreationKeeps
  <1> QED
    BY <1>3, <1>4

LEMMA CreateTornKeeps ==
  ASSUME ResumeInv, NEW r \in Run, CreateTorn(r)
  PROVE  ResumeInv'
  <1> DEFINE s == Exited(script[r], 143)
  <1>1. /\ Alive(r) /\ script[r].at = "create" /\ script' = [script EXCEPT ![r] = s]
        /\ sessions' = NewSession(script[r].unit, r)
        /\ UNCHANGED <<phase, runLock, orphaned, notKilled, userActs>> /\ torn' /\ torn' \in BOOLEAN
    BY DEF CreateTorn, Alive
  <1>2. /\ s.at = "exited" /\ s.created = 0 /\ s.unit = script[r].unit /\ s \in Scripts /\ s.failures = 143
    BY <1>1, UnderWay, ExitedFits DEF ScriptFits
  <1>3. ScriptFits(s)
    BY <1>2 DEF ScriptFits
  <1> HIDE DEF s
  <1>4. /\ runFaults' \in 0..MaxRunFault /\ orphaned' \in BOOLEAN
        /\ phase' \in [Server -> [is : Phases, run : 0..MaxRun]] /\ runLock' \in Server \cup {Unlocked}
    BY <1>1, QuickResumeAssumption DEF CreateTorn, ResumeInv, ResumeRecords
  <1>5. LockKept'
    BY <1>1, <1>2, LockStays
  <1>6. (torn => torn') /\ s.created \in {0, FreshId} /\ s.at \in {"send", "exited"}
        /\ ((s.at = "send" /\ s.created = FreshId /\ s.failures = script[r].failures) \/ (torn' /\ s.failures # 0))
    BY <1>1, <1>2
  <1> QED
    BY <1>1, <1>2, <1>3, <1>4, <1>5, <1>6, CreationKeeps

\* The launch command goes to the session whose id the script kept.
LEMMA TypeKeeps ==
  ASSUME ResumeInv, NEW r \in Run, script[r].at = "type", sessions[Target(r)].name > 0,
         sessions' = TypeInto(Target(r), r), script' = [script EXCEPT ![r].at = "finish"],
         UNCHANGED <<phase, runLock, orphaned, torn, notKilled, userActs, runFaults>>
  PROVE  ResumeInv'
  <1> DEFINE s == [script[r] EXCEPT !.at = "finish"]
             c == script[r].created
  <1>1. Alive(r) /\ script' = [script EXCEPT ![r] = s]
    BY DEF Alive, ResumeInv, ResumeRecords
  <1>2. c \in SessionId /\ sessions[c].by = r /\ c # 0 /\ sessions[c].name # 0
    BY <1>1, UnderWay DEF ScriptFits, Target
  <1>3. /\ s \in Scripts /\ s.at = "finish" /\ s.created = c /\ ScriptFits(s)
        /\ UnitsMade(s) >= UnitsMade(script[r]) /\ s.failures = script[r].failures
    <2>2. script[r] \in Scripts /\ script[r].unit \in Unit
      BY <1>1, UnderWay
    <2> QED
      BY <1>1, <1>2, <2>2, PassesOn
  <1>4. /\ sessions'[c].name = sessions[c].name /\ sessions'[c].by = r
        /\ sessions'[c].typed = sessions[c].typed \cup {r} /\ sessions' \in [SessionId -> TmuxSession]
        /\ \A j \in SessionId \ {c} : sessions'[j] = sessions[j]
    BY <1>2 DEF TypeInto, Target, ResumeInv, ResumeRecords, TmuxSession
  <1> HIDE DEF s, c
  <1>5. SameMakers
    BY <1>2, <1>4 DEF SameMakers, ResumeInv, ResumeRecords, NoSession
  <1>6. TypedOwn'
    BY <1>1, <1>2, <1>4, UnderWay DEF ResumeInv, TypedOwn
  <1>7. ASSUME NEW i \in SessionId, sessions[i].by = r
        PROVE  OpenUnit(i, sessions'[i], s, Excused(i)')
    <2>1. CASE i = c
      BY <1>4, <2>1 DEF OpenUnit
    <2>2. CASE i # c
      <3>1. OpenUnit(i, sessions[i], script[r], Excused(i)) /\ (Excused(i) => Excused(i)')
        BY <1>7 DEF ResumeInv, HalfIsOpen, Excused, Run, User
      <3> QED
        BY <1>3, <1>4, <2>2, <3>1 DEF c, OpenUnit
    <2> QED
      BY <2>1, <2>2
  <1>8. \A i \in SessionId : sessions[i].by # r => sessions'[i] = sessions[i]
    BY <1>2, <1>4
  <1> QED
    BY <1>1, <1>2, <1>3, <1>4, <1>5, <1>6, <1>7, <1>8, ScriptKeeps DEF ResumeInv, ResumeRecords

LEMMA SendKeeps ==
  ASSUME ResumeInv, NEW r \in Run, Send(r)
  PROVE  ResumeInv'
  <1>1. /\ Alive(r) /\ script[r].at \in {"send", "type"}
        /\ UNCHANGED <<phase, runLock, orphaned, torn, notKilled, userActs, runFaults>>
    BY DEF Send, Proceeds, Alive, historyVars
  <1>2. torn' \in BOOLEAN /\ runFaults' \in 0..MaxRunFault
    BY <1>1 DEF ResumeInv, ResumeRecords
  <1>3. CASE Fail(r)
    BY <1>1, <1>2, <1>3, FailKeeps
  <1>4. CASE script[r].at = "send" /\ script' = [script EXCEPT ![r].at = "type"] /\ UNCHANGED sessions
    <2> DEFINE s == [script[r] EXCEPT !.at = "type"]
    <2>1. script' = [script EXCEPT ![r] = s]
      BY <1>4
    <2>2. script[r] \in Scripts /\ script[r].unit \in Unit /\ script[r].created # 0 /\ sessions[script[r].created].by = r
      BY <1>1, <1>4, UnderWay DEF ScriptFits
    <2>3. /\ s \in Scripts /\ s.at = "type" /\ s.created = script[r].created /\ s.unit = script[r].unit
          /\ s.failures = script[r].failures /\ ScriptFits(s) /\ UnitsMade(s) >= UnitsMade(script[r])
      BY <1>4, <2>2, PassesOn
    <2> HIDE DEF s
    <2>4. \A i \in SessionId : sessions[i].by = r => OpenUnit(i, sessions'[i], s, Excused(i)')
      BY <1>1, <1>4, <2>3, StaysOpen
    <2>5. notKilled' \in SUBSET SessionId
      BY <1>1 DEF ResumeInv, ResumeRecords
    <2> QED
      BY <1>1, <1>2, <1>4, <2>1, <2>2, <2>3, <2>4, <2>5, Unchanging, ScriptKeeps
  <1> QED
    BY <1>1, <1>3, <1>4, TypeKeeps DEF Send, Proceeds

LEMMA FinishKeeps ==
  ASSUME ResumeInv, NEW r \in Run, Finish(r)
  PROVE  ResumeInv'
  <1>1. /\ Alive(r) /\ script[r].at = "finish"
        /\ UNCHANGED <<phase, runLock, orphaned, torn, notKilled, userActs, runFaults>>
    BY DEF Finish, Proceeds, Alive, historyVars
  <1>2. torn' \in BOOLEAN /\ runFaults' \in 0..MaxRunFault
    BY <1>1 DEF ResumeInv, ResumeRecords
  <1>3. CASE Fail(r)
    BY <1>1, <1>2, <1>3, FailKeeps
  <1>4. CASE ~Fail(r)
    <2> DEFINE s == NextUnit(script[r])
    <2>1. script' = [script EXCEPT ![r] = s] /\ UNCHANGED sessions
      BY <1>4 DEF Finish
    <2>2. /\ s \in Scripts /\ ScriptFits(s) /\ s.at # "none" /\ s.created = 0 /\ UnitsMade(s) >= UnitsMade(script[r])
          /\ s.failures = script[r].failures
      BY <1>1, UnderWay, NextUnitFits
    <2> HIDE DEF s
    <2>3. \A i \in SessionId : sessions[i].by = r => OpenUnit(i, sessions'[i], s, Excused(i)')
      BY <1>1, <2>1, <2>2, UnderWay DEF ResumeInv, HalfIsOpen, OpenUnit, Excused
    <2>4. notKilled' \in SUBSET SessionId
      BY <1>1 DEF ResumeInv, ResumeRecords
    <2> QED
      BY <1>1, <1>2, <2>1, <2>2, <2>3, <2>4, Unchanging, ScriptKeeps
  <1> QED
    BY <1>3, <1>4

LEMMA TrapKeeps ==
  ASSUME ResumeInv, NEW r \in Run, Trap(r)
  PROVE  ResumeInv'
  <1>1. /\ Alive(r) /\ UNCHANGED <<phase, runLock, sessions, orphaned, torn, notKilled, userActs, runFaults>>
    BY DEF Trap, historyVars
  <1>2. torn' \in BOOLEAN /\ runFaults' \in 0..MaxRunFault /\ notKilled' \in SUBSET SessionId
    BY <1>1 DEF ResumeInv, ResumeRecords
  <1>3. CASE script[r].created # 0
    <2> DEFINE x == [script[r] EXCEPT !.at = "fail"]
               s == [x EXCEPT !.term = "trapped"]
    <2>1. script' = [script EXCEPT ![r] = s]
      BY <1>3 DEF Trap, ResumeInv, ResumeRecords
    <2>2. /\ x \in Scripts /\ x.at = "fail" /\ x.unit = script[r].unit /\ x.created = script[r].created
          /\ x.failures = script[r].failures /\ UnitsMade(x) >= UnitsMade(script[r]) /\ x.unit \in Unit
      <3>1. script[r] \in Scripts /\ script[r].unit \in Unit
        BY <1>1, UnderWay
      <3> QED
        BY ONLY <3>1, PassesOn
    <2> HIDE DEF x
    <2>3. s \in Scripts /\ s.at = x.at /\ s.unit = x.unit /\ s.created = x.created /\ s.failures = x.failures
      BY <2>2 DEF Scripts
    <2> HIDE DEF s
    <2>4. ScriptFits(s) /\ UnitsMade(s) >= UnitsMade(script[r])
      BY <2>2, <2>3 DEF ScriptFits, UnitsMade
    <2>5. \A i \in SessionId : sessions[i].by = r => OpenUnit(i, sessions'[i], s, Excused(i)')
      BY <1>1, <2>2, <2>3, StaysOpen
    <2>6. s.created # 0 => sessions'[s.created].by = r
      BY <1>1, <2>2, <2>3, UnderWay
    <2> QED
      BY <1>1, <1>2, <2>1, <2>2, <2>3, <2>4, <2>5, <2>6, Unchanging, ScriptKeeps
  <1>4. CASE script[r].created = 0
    <2> DEFINE s == Exited(script[r], 143)
    <2>1. script' = [script EXCEPT ![r] = s]
      BY <1>4 DEF Trap
    <2>2. s \in Scripts /\ s.at = "exited" /\ s.created = 0 /\ s.unit = script[r].unit /\ s.failures = 143
      BY <1>1, <1>4, UnderWay, ExitedFits
    <2> HIDE DEF s
    <2>3. ScriptFits(s) /\ UnitsMade(s) >= UnitsMade(script[r])
      BY <1>1, <2>2, UnderWay DEF ScriptFits, UnitsMade, Unit
    <2>4. \A i \in SessionId : i # 0
      BY DEF SessionId
    <2>5. \A i \in SessionId : sessions[i].by = r => OpenUnit(i, sessions'[i], s, Excused(i)')
      BY <1>1, <1>4, <2>2, <2>4, UnderWay DEF ResumeInv, HalfIsOpen, OpenUnit, Excused
    <2> QED
      BY <1>1, <1>2, <2>1, <2>2, <2>3, <2>5, Unchanging, ScriptKeeps
  <1> QED
    BY <1>3, <1>4

LEMMA CommandFailsKeeps ==
  ASSUME ResumeInv, NEW r \in Run, CommandFails(r)
  PROVE  ResumeInv'
  <1>1. Alive(r) /\ Fail(r) /\ UNCHANGED <<phase, runLock, orphaned, torn, notKilled, userActs>>
    BY DEF CommandFails, Proceeds, Alive, historyVars
  <1>2. runFaults' \in 0..MaxRunFault
    BY QuickResumeAssumption DEF CommandFails, ResumeInv, ResumeRecords
  <1> QED
    BY <1>1, <1>2, FailKeeps

-----------------------------------------------------------------------------
(* The steps of the processes.                                             *)

\* Only the processes change.
LEMMA ProcessKeeps ==
  ASSUME ResumeInv, UNCHANGED <<script, sessions, torn, notKilled, userActs>>, runFaults' \in 0..MaxRunFault,
         phase' \in [Server -> [is : Phases, run : 0..MaxRun]], runLock' \in Server \cup {Unlocked},
         orphaned' \in BOOLEAN, LockKept'
  PROVE  ResumeInv'
  <1>1. ResumeRecords'
    BY DEF ResumeInv, ResumeRecords
  <1>2. ScriptsOwn' /\ TypedOwn' /\ HalfIsOpen'
    BY DEF ResumeInv, ScriptsOwn, TypedOwn, HalfIsOpen, OpenUnit, Excused
  <1>3. Numbered'
    BY DEF ResumeInv, Numbered, Numbering, Given, Made
  <1> QED
    BY <1>1, <1>2, <1>3 DEF ResumeInv

LEMMA RefuseStartKeeps ==
  ASSUME ResumeInv, NEW w \in Server, RefuseStart(w)
  PROVE  ResumeInv'
  <1>1. runFaults' \in 0..MaxRunFault
    BY QuickResumeAssumption DEF RefuseStart, ResumeInv, ResumeRecords
  <1>2. /\ phase' \in [Server -> [is : Phases, run : 0..MaxRun]]
        /\ phase'[w].is = "unavailable" /\ ~Waits(w)
        /\ \A v \in Server \ {w} : phase'[v] = phase[v]
        /\ UNCHANGED <<runLock, script, sessions, orphaned, torn, notKilled, userActs>>
    BY QuickResumeAssumption DEF historyVars, RefuseStart, ResumeInv, ResumeRecords, Phases, Waits
  <1>3. LockKept'
    BY <1>2 DEF ResumeInv, LockKept, Waits, Alive
  <1> QED
    BY <1>1, <1>2, <1>3, ProcessKeeps DEF ResumeInv, ResumeRecords

LEMMA StatusKeeps ==
  ASSUME ResumeInv, NEW w \in Server, Status(w)
  PROVE  ResumeInv'
  <1>1. /\ phase' \in [Server -> [is : Phases, run : 0..MaxRun]]
        /\ phase'[w].is = "idle" /\ ~Waits(w)
        /\ \A v \in Server \ {w} : phase'[v] = phase[v]
        /\ UNCHANGED <<runLock, script, sessions, orphaned, torn, notKilled, userActs, runFaults>>
    BY DEF historyVars, Status, ResumeInv, ResumeRecords, Phases, Waits
  <1>2. LockKept'
    BY <1>1 DEF ResumeInv, LockKept, Waits, Alive
  <1> QED
    BY <1>1, <1>2, ProcessKeeps DEF ResumeInv, ResumeRecords

LEMMA ReapKeeps ==
  ASSUME ResumeInv, NEW w \in Server, Reap(w)
  PROVE  ResumeInv'
  <1>1. Waits(w) /\ ~Alive(phase[w].run) /\ UNCHANGED <<script, sessions, orphaned, torn, notKilled, userActs, runFaults>>
    BY DEF Reap, historyVars
  <1>2. CASE runLock = w /\ runLock' = Unlocked /\ UNCHANGED phase
    <2>1. \A v \in Server \ {w} : Waits(v) => ~Alive(phase[v].run)
      BY <1>2 DEF ResumeInv, LockKept
    <2>2. LockKept'
      BY <1>1, <1>2, <2>1 DEF ResumeInv, LockKept, Waits, Alive
    <2> QED
      BY <1>1, <1>2, <2>2, ProcessKeeps DEF ResumeInv, ResumeRecords
  <1>3. CASE runLock # w /\ UNCHANGED runLock
    <2>1. /\ phase' \in [Server -> [is : Phases, run : 0..MaxRun]]
          /\ phase'[w].is \in {"timed_out", "succeeded", "failed"}
          /\ \A v \in Server \ {w} : phase'[v] = phase[v]
      BY <1>1, <1>3 DEF Reap, ResumeInv, ResumeRecords, Phases, Waits
    <2>2. LockKept'
      BY <1>1, <1>3, <2>1 DEF ResumeInv, LockKept, Waits, Alive
    <2> QED
      BY <1>1, <1>3, <2>1, <2>2, ProcessKeeps DEF ResumeInv, ResumeRecords
  <1> QED
    BY <1>2, <1>3 DEF Reap

LEMMA TimesOutKeeps ==
  ASSUME ResumeInv, NEW w \in Server, TimesOut(w)
  PROVE  ResumeInv'
  <1> DEFINE r == phase[w].run
             s == [script[r] EXCEPT !.term = "sent"]
  <1>1. /\ phase' \in [Server -> [is : Phases, run : 0..MaxRun]]
        /\ phase'[w].is = "terminating" /\ phase'[w].run = r /\ Waits(w)
        /\ \A v \in Server \ {w} : phase'[v] = phase[v]
    BY DEF TimesOut, ResumeInv, ResumeRecords, Phases, Waits
  <1>2. /\ r \in Run /\ Alive(r) /\ script' = [script EXCEPT ![r] = s]
        /\ UNCHANGED <<runLock, sessions, orphaned, torn, notKilled, userActs, runFaults>>
    BY <1>1 DEF historyVars, TimesOut, ResumeInv, LockKept
  <1> HIDE DEF r
  <1>3. /\ s \in Scripts /\ s.at = script[r].at /\ s.created = script[r].created
        /\ s.unit = script[r].unit /\ s.failures = script[r].failures
    <2>1. script[r] \in Scripts
      BY <1>2, UnderWay
    <2> QED
      BY <2>1 DEF Scripts
  <1> HIDE DEF s
  <1>4. ScriptFits(s) /\ UnitsMade(s) >= UnitsMade(script[r])
    BY <1>2, <1>3, UnderWay DEF ScriptFits, UnitsMade, Unit
  <1>5. \A q \in Run : (Alive(q)' => Alive(q)) /\ (script'[q].at = "none" => script[q].at = "none")
    BY <1>2, <1>3 DEF ResumeInv, ResumeRecords, Alive
  <1>6. LockKept'
    <2>1. \A v \in Server : (Waits(v)' <=> Waits(v)) /\ phase'[v].run = phase[v].run
      BY <1>1 DEF Waits, r
    <2>2. \A v \in Server : Waits(v) =>
            /\ phase[v].run \in Run /\ script[phase[v].run].at # "none"
            /\ Alive(phase[v].run) => runLock = v
      BY DEF ResumeInv, LockKept
    <2>3. ~orphaned => \A q \in Run : Alive(q) => \E v \in Server : Waits(v) /\ phase[v].run = q
      BY DEF ResumeInv, LockKept
    <2> HIDE DEF Waits
    <2> QED
      BY <1>2, <1>5, <2>1, <2>2, <2>3 DEF LockKept, Alive
  <1>7. \A i \in SessionId : sessions[i].by = r => OpenUnit(i, sessions'[i], s, Excused(i)')
    BY <1>2, <1>3, StaysOpen
  <1>8. s.created # 0 => sessions'[s.created].by = r
    BY <1>2, <1>3, UnderWay
  <1> QED
    BY <1>1, <1>2, <1>3, <1>4, <1>6, <1>7, <1>8, Unchanging, ScriptChanges DEF ResumeInv, ResumeRecords

\* A script that is killed leaves its unit as it is, and says so.
LEMMA KilledKeeps ==
  ASSUME ResumeInv, NEW r \in Run, Alive(r), Killed(r), UNCHANGED <<orphaned, notKilled, userActs>>,
         phase' \in [Server -> [is : Phases, run : 0..MaxRun]], runLock' \in Server \cup {Unlocked},
         LockKept', runFaults' \in 0..MaxRunFault
  PROVE  ResumeInv'
  <1> DEFINE s == Exited(script[r], 137)
  <1>1. script' = [script EXCEPT ![r] = s]
    BY DEF Killed
  <1>2. /\ s \in Scripts /\ s.at = "exited" /\ s.unit = script[r].unit /\ s.created = script[r].created
        /\ s.failures = 137
    BY UnderWay, ExitedFits
  <1> HIDE DEF s
  <1>3. ScriptFits(s) /\ UnitsMade(s) >= UnitsMade(script[r])
    BY <1>2, UnderWay DEF ScriptFits, UnitsMade, Unit
  <1>4. CASE torn' = (torn \/ script[r].created # 0) /\ UNCHANGED sessions
    <2>1. \A i \in SessionId : i # 0
      BY DEF SessionId
    <2>2. ASSUME NEW i \in SessionId, sessions[i].by = r
          PROVE  OpenUnit(i, sessions'[i], s, Excused(i)')
      <3>1. OpenUnit(i, sessions[i], script[r], Excused(i))
        BY <2>2, UnderWay DEF ResumeInv, HalfIsOpen
      <3>2. (Excused(i) => Excused(i)') /\ (script[r].created = i => Excused(i)')
        BY <1>4, <2>1 DEF Excused
      <3>3. sessions'[i] = sessions[i] /\ s.failures # 0
        BY <1>2, <1>4
      <3> QED
        BY <3>1, <3>2, <3>3 DEF OpenUnit
    <2>3. s.created # 0 => sessions'[s.created].by = r
      BY <1>2, <1>4, UnderWay
    <2>4. /\ torn' \in BOOLEAN /\ (torn => torn') /\ orphaned' \in BOOLEAN /\ notKilled' \in SUBSET SessionId
      BY <1>4 DEF ResumeInv, ResumeRecords
    <2> QED
      BY <1>1, <1>2, <1>3, <1>4, <2>2, <2>3, <2>4, Unchanging, ScriptChanges
  <1>5. CASE script[r].at = "create" /\ sessions' = NewSession(script[r].unit, r) /\ torn' = TRUE
    <2>1. s.created = 0 /\ orphaned' \in BOOLEAN
      BY <1>2, <1>5, UnderWay DEF ScriptFits, ResumeInv, ResumeRecords
    <2>2. torn' /\ torn' \in BOOLEAN /\ (torn => torn')
          /\ s.created \in {0, FreshId} /\ s.at \in {"send", "exited"}
      BY <1>2, <1>5, <2>1
    <2>3. (s.at = "send" /\ s.created = FreshId /\ s.failures = script[r].failures) \/ (torn' /\ s.failures # 0)
      BY <1>2, <2>2
    <2> QED
      BY <1>1, <1>2, <1>3, <1>5, <2>1, <2>2, <2>3, CreationKeeps
  <1> QED
    BY <1>4, <1>5 DEF Killed

LEMMA KillGroupKeeps ==
  ASSUME ResumeInv, NEW w \in Server, KillGroup(w)
  PROVE  ResumeInv'
  <1> DEFINE r == phase[w].run
             s == Exited(script[r], 137)
  <1>1. r \in Run
    BY DEF KillGroup, ResumeInv, LockKept, Waits
  <1>2. /\ Alive(r) /\ Killed(r) /\ UNCHANGED <<phase, runLock, orphaned, notKilled, userActs>>
        /\ script' = [script EXCEPT ![r] = s]
    BY DEF KillGroup, Killed
  <1>3. runFaults' \in 0..MaxRunFault
    BY QuickResumeAssumption DEF KillGroup, ResumeInv, ResumeRecords
  <1>4. s.at # "none"
    BY <1>1, <1>2, UnderWay, ExitedFits
  <1> HIDE DEF r, s
  <1>5. LockKept'
    BY <1>1, <1>2, <1>4, LockStays
  <1> QED
    BY <1>1, <1>2, <1>3, <1>5, KilledKeeps DEF ResumeInv, ResumeRecords

LEMMA ServerStopsKeeps ==
  ASSUME ResumeInv, NEW w \in Server, ServerStops(w)
  PROVE  ResumeInv'
  <1> DEFINE r == phase[w].run
             s == Exited(script[r], 137)
  <1>1. runFaults' \in 0..MaxRunFault
    BY QuickResumeAssumption DEF ServerStops, ResumeInv, ResumeRecords
  <1>2. /\ Waits(w) /\ runLock' = (IF runLock = w THEN Unlocked ELSE runLock) /\ UNCHANGED <<notKilled, userActs>>
        /\ phase' \in [Server -> [is : Phases, run : 0..MaxRun]] /\ phase'[w].is = "idle"
        /\ \A v \in Server \ {w} : phase'[v] = phase[v]
    BY QuickResumeAssumption DEF ServerStops, Waits, ResumeInv, ResumeRecords, Phases
  <1>3. /\ r \in Run /\ ~Waits(w)' /\ runLock' \in Server \cup {Unlocked}
        /\ \A v \in Server \ {w} : (Waits(v)' <=> Waits(v)) /\ phase'[v].run = phase[v].run
    BY <1>2 DEF ResumeInv, ResumeRecords, LockKept, Waits
  <1>4. \A v \in Server : v # w /\ runLock = v => runLock' = v
    BY <1>2
  <1>5. CASE Alive(r) /\ Killed(r) /\ UNCHANGED orphaned
    <2>0. script' = [script EXCEPT ![r] = s]
      BY <1>5 DEF Killed
    <2>1. s.at = "exited"
      BY <1>3, <1>5, UnderWay, ExitedFits
    <2>2. \A q \in Run : (Alive(q)' => Alive(q) /\ q # r) /\ (script'[q].at = "none" => script[q].at = "none")
      BY <1>3, <2>0, <2>1 DEF Alive, ResumeInv, ResumeRecords
    <2> HIDE DEF s
    <2>3. LockKept'
      BY <1>3, <1>4, <1>5, <2>2 DEF ResumeInv, LockKept
    <2> HIDE DEF r
    <2> QED
      BY <1>1, <1>2, <1>3, <1>5, <2>3, KilledKeeps
  <1>6. CASE orphaned' = (orphaned \/ Alive(r)) /\ UNCHANGED <<script, torn, sessions>>
    <2>1. \A q \in Run : (Alive(q)' <=> Alive(q)) /\ script'[q].at = script[q].at
      BY <1>6 DEF Alive
    <2>2. LockKept'
      BY <1>3, <1>4, <1>6, <2>1 DEF ResumeInv, LockKept
    <2>3. orphaned' \in BOOLEAN
      BY <1>6 DEF ResumeInv, ResumeRecords
    <2> HIDE DEF r
    <2> QED
      BY <1>1, <1>2, <1>3, <1>6, <2>2, <2>3, ProcessKeeps
  <1> QED
    BY <1>5, <1>6 DEF ServerStops

LEMMA StartRecoveryKeeps ==
  ASSUME ResumeInv, NEW w \in Server, StartRecovery(w)
  PROVE  ResumeInv'
  <1> DEFINE s == [NoScript EXCEPT !.at = "has", !.unit = 1]
  <1>1. PICK r \in Run :
          /\ script[r] = NoScript /\ script' = [script EXCEPT ![r] = s]
          /\ phase' = [phase EXCEPT ![w] = [is |-> "running", run |-> r]]
    BY DEF StartRecovery
  <1>2. /\ ~Waits(w) /\ runLock = Unlocked /\ runLock' = w
        /\ UNCHANGED <<sessions, orphaned, torn, notKilled, userActs, runFaults>>
    BY DEF StartRecovery, AcquireLock, historyVars
  <1>3. /\ s \in Scripts /\ s.at = "has" /\ s.unit = 1 /\ s.created = 0
    <2>1. s.at = "has" /\ s.unit = 1 /\ s.created = 0
      BY DEF NoScript
    <2> DEFINE x == [NoScript EXCEPT !.at = "has"]
    <2>2. s = [x EXCEPT !.unit = 1]
      OBVIOUS
    <2>3. 0 \in 0..NumUnit /\ 1 \in 0..NumUnit
      BY QuickResumeAssumption
    <2>4. x \in Scripts
      BY <2>3 DEF NoScript, Scripts
    <2> HIDE DEF x, s
    <2> QED
      BY <2>1, <2>2, <2>3, <2>4 DEF Scripts
  <1> HIDE DEF s
  <1>4. ScriptFits(s) /\ UnitsMade(s) >= UnitsMade(script[r])
    BY <1>1, <1>3, QuickResumeAssumption DEF ScriptFits, UnitsMade, NoScript, Unit
  <1>5. /\ phase' \in [Server -> [is : Phases, run : 0..MaxRun]]
        /\ phase'[w].is = "running" /\ phase'[w].run = r
        /\ \A v \in Server \ {w} : phase'[v] = phase[v]
    BY <1>1, QuickResumeAssumption DEF ResumeInv, ResumeRecords, Phases, Run
  <1>6. \A v \in Server : Waits(v) => phase[v].run # r /\ ~Alive(phase[v].run)
    BY <1>1, <1>2, QuickResumeAssumption DEF ResumeInv, LockKept, NoScript
  <1>7. /\ script'[r] = s /\ \A q \in Run \ {r} : script'[q] = script[q]
    BY <1>1 DEF ResumeInv, ResumeRecords
  <1>8. LockKept'
    <2>1. ASSUME NEW v \in Server, Waits(v)', v # w
          PROVE  phase'[v].run \in Run /\ script'[phase'[v].run].at # "none" /\ ~Alive(phase[v].run)'
      <3>1. Waits(v) /\ phase'[v] = phase[v]
        BY <1>5, <2>1 DEF Waits
      <3> QED
        BY <1>6, <1>7, <3>1 DEF ResumeInv, LockKept, Alive
    <2>2. ~orphaned => \A q \in Run : Alive(q)' => q = r
      BY <1>6, <1>7 DEF ResumeInv, LockKept, Alive
    <2> QED
      BY <1>2, <1>3, <1>5, <1>7, <2>1, <2>2 DEF LockKept, Waits
  <1>9. \A i \in SessionId : sessions[i].by = r => OpenUnit(i, sessions'[i], s, Excused(i)')
    BY <1>1, <1>2 DEF ResumeInv, HalfIsOpen, OpenUnit, NoScript, User, Run
  <1>10. runLock' \in Server \cup {Unlocked} /\ orphaned' \in BOOLEAN /\ torn' \in BOOLEAN
         /\ runFaults' \in 0..MaxRunFault /\ notKilled' \in SUBSET SessionId
    BY <1>2 DEF ResumeInv, ResumeRecords
  <1> QED
    BY <1>1, <1>2, <1>3, <1>4, <1>5, <1>8, <1>9, <1>10, Unchanging, ScriptChanges

-----------------------------------------------------------------------------
(* The users, and all steps.                                               *)

\* Users change names only, besides what they make.
LEMMA UserKeeps ==
  ASSUME ResumeInv, UserActs
  PROVE  ResumeInv'
  <1>1. /\ userActs < MaxUser /\ userActs' = userActs + 1 /\ userActs' \in 0..MaxUser
        /\ UNCHANGED <<phase, runLock, script, orphaned, torn, notKilled, runFaults>>
    BY QuickResumeAssumption DEF historyVars, UserActs, ResumeInv, ResumeRecords
  <1>2. LockKept'
    BY <1>1 DEF ResumeInv, LockKept, Waits, Alive
  <1>3. \A b \in 0..MaxRun : Made(b) \in Int /\ Made(b)' = IF b = User THEN Made(b) + 1 ELSE Made(b)
    BY <1>1, MadeIsBounded DEF Made, ResumeInv
  <1>4. \A b \in 0..MaxRun : Made(b)' >= Made(b)
    BY <1>3
  <1>5. ASSUME NEW n \in Unit, sessions' = NewSession(n, User)
        PROVE  ResumeInv'
    <2> DEFINE i == FreshId
    <2>1. User \in 0..MaxRun /\ Made(User) < MaxUser /\ Made(User) >= 0
      BY <1>1, QuickResumeAssumption DEF User, Made, ResumeInv, ResumeRecords
    <2>2. /\ i \in SessionId /\ sessions[i] = NoSession
          /\ sessions' \in [SessionId -> TmuxSession] /\ sessions'[i].by = User
          /\ \A j \in SessionId \ {i} : sessions'[j] = sessions[j]
          /\ TypedOwn' /\ \A j \in SessionId : sessions'[j].name = 0 => sessions'[j] = NoSession
      BY <1>5, <2>1, NewSessionFits
    <2> HIDE DEF i
    <2>3. ResumeRecords'
      BY <1>1, <2>2 DEF ResumeInv, ResumeRecords
    <2>4. ScriptsOwn'
      <3>1. \A r \in Run : script[r].created # i
        BY <2>2 DEF ResumeInv, ScriptsOwn, NoSession, Run
      <3> QED
        BY <1>1, <2>2, <3>1 DEF ResumeInv, ScriptsOwn
    <2>5. HalfIsOpen'
      BY <1>1, <2>2 DEF ResumeInv, HalfIsOpen, OpenUnit, Excused
    <2>6. Numbered'
      BY <1>3, <1>4, <2>1, <2>2, <2>3, NumberingGrows
    <2> QED
      BY <1>2, <2>2, <2>3, <2>4, <2>5, <2>6 DEF ResumeInv
  <1>6. ASSUME NEW i \in SessionId, NEW name \in {-1, NumUnit + 1}, sessions[i].name > 0,
               sessions' = [sessions EXCEPT ![i].name = name]
        PROVE  ResumeInv'
    <2> DEFINE x == [sessions[i] EXCEPT !.name = name]
    <2>7. name \notin Unit /\ name # 0 /\ name \in -1..NumUnit + 1
      BY QuickResumeAssumption DEF Unit
    <2>8. x \in TmuxSession /\ x.name = name /\ x.by = sessions[i].by /\ x.typed = sessions[i].typed
      <3>1. sessions[i] \in TmuxSession
        BY DEF ResumeInv, ResumeRecords
      <3> QED
        BY <2>7, <3>1 DEF TmuxSession
    <2>9. sessions' = [sessions EXCEPT ![i] = x]
      BY <1>6
    <2> HIDE DEF x
    <2>1. /\ sessions'[i].name = name /\ sessions'[i].by = sessions[i].by
          /\ sessions'[i].typed = sessions[i].typed /\ sessions' \in [SessionId -> TmuxSession]
          /\ \A j \in SessionId \ {i} : sessions'[j] = sessions[j]
      BY <2>8, <2>9 DEF ResumeInv, ResumeRecords
    <2>2. SameMakers
      <3>1. sessions[i] # NoSession /\ sessions'[i] # NoSession
        BY <1>6, <2>1, <2>7 DEF NoSession
      <3> QED
        BY <2>1, <2>7, <3>1 DEF SameMakers, ResumeInv, ResumeRecords
    <2>3. TypedOwn' /\ ScriptsOwn'
      BY <1>1, <2>1 DEF ResumeInv, TypedOwn, ScriptsOwn
    <2>4. HalfIsOpen'
      BY <1>1, <2>1, <2>7 DEF ResumeInv, HalfIsOpen, OpenUnit, Excused
    <2>5. ResumeRecords'
      BY <1>1, <2>2 DEF ResumeInv, ResumeRecords, SameMakers
    <2>6. Numbered'
      BY <1>4, <2>2, <2>5, NumberingStays DEF SameMakers
    <2> QED
      BY <1>2, <2>3, <2>4, <2>5, <2>6 DEF ResumeInv
  <1> QED
    BY <1>5, <1>6 DEF UserActs, KillSession

LEMMA ResumeInitInv == ResumeInit => ResumeInv
  <1> SUFFICES ASSUME ResumeInit PROVE ResumeInv
    OBVIOUS
  <1>1. ResumeRecords
    <2>1. 0 \in 0..NumUnit /\ 0 \in 0..MaxRun /\ 0 \in -1..NumUnit + 1 /\ 0 \in 0..MaxUser /\ 0 \in 0..MaxRunFault
      BY QuickResumeAssumption
    <2>2. NoScript \in Scripts /\ NoSession \in TmuxSession
      BY <2>1 DEF NoScript, Scripts, NoSession, TmuxSession
    <2>3. [is |-> "idle", run |-> 0] \in [is : Phases, run : 0..MaxRun]
      BY <2>1 DEF Phases
    <2> QED
      BY <2>1, <2>2, <2>3 DEF ResumeInit, ResumeRecords
  <1>2. LockKept
    BY DEF ResumeInit, LockKept, Waits, Alive, NoScript
  <1>3. ScriptsOwn
    BY DEF ResumeInit, ScriptsOwn, ScriptFits, NoScript, SessionId
  <1>4. TypedOwn /\ HalfIsOpen
    BY DEF ResumeInit, TypedOwn, HalfIsOpen, NoSession, User
  <1>5. Numbered
    <2> DEFINE n == [i \in SessionId |-> 0]
    <2>1. n \in [SessionId -> Nat] /\ Given = {}
      BY DEF ResumeInit, Given
    <2>2. Numbering(n)
      BY <2>1 DEF Numbering
    <2> QED
      BY <2>2 DEF Numbered
  <1> QED
    BY <1>1, <1>2, <1>3, <1>4, <1>5 DEF ResumeInv

LEMMA ResumeNextInv == ResumeInv /\ [ResumeNext]_resumeVars => ResumeInv'
  <1> SUFFICES ASSUME ResumeInv, [ResumeNext]_resumeVars PROVE ResumeInv'
    OBVIOUS
  <1>1. CASE UserActs
    BY <1>1, UserKeeps
  <1>2. ASSUME NEW r \in Run, ScriptStep(r) \/ CommandFails(r) \/ CreateTorn(r)
        PROVE  ResumeInv'
    BY <1>2, HasKeeps, CreateKeeps, SendKeeps, FinishKeeps, RollbackKeeps, TrapKeeps, CommandFailsKeeps, CreateTornKeeps
    DEF ScriptStep
  <1>3. ASSUME NEW w \in Server,
               \/ StartRecovery(w) \/ RefuseStart(w) \/ Status(w)
               \/ TimesOut(w) \/ KillGroup(w) \/ Reap(w) \/ ServerStops(w)
        PROVE  ResumeInv'
    BY <1>3, StartRecoveryKeeps, RefuseStartKeeps, StatusKeeps, TimesOutKeeps, KillGroupKeeps,
       ReapKeeps, ServerStopsKeeps
  <1>4. CASE UNCHANGED resumeVars
    BY <1>4, ProcessKeeps DEF resumeVars, historyVars, ResumeInv, ResumeRecords, LockKept, Waits, Alive
  <1> QED
    BY <1>1, <1>2, <1>3, <1>4 DEF ResumeNext

\* The invariant of the quick recovery holds in every state of every behaviour.
THEOREM ResumeInvariant == ResumeSpec => []ResumeInv
  BY ResumeInitInv, ResumeNextInv, PTL DEF ResumeSpec

LEMMA ResumeIsSafe == ResumeInv => ResumeTypeOK /\ OneRecovery /\ UnitsAreWhole
  <1> SUFFICES ASSUME ResumeInv PROVE ResumeTypeOK /\ OneRecovery /\ UnitsAreWhole
    OBVIOUS
  <1>1. ResumeTypeOK
    BY QuickResumeAssumption
    DEF ResumeInv, ResumeRecords, ResumeTypeOK, Phases, Scripts, TmuxSession, Run, User
  <1>2. OneRecovery
    <2>1. ASSUME NEW r \in Run, NEW q \in Run, Alive(r), Alive(q), ~orphaned
          PROVE  r = q
      <3>1. PICK w \in Server : Waits(w) /\ phase[w].run = r
        BY <2>1 DEF ResumeInv, LockKept
      <3>2. PICK v \in Server : Waits(v) /\ phase[v].run = q
        BY <2>1 DEF ResumeInv, LockKept
      <3> QED
        BY <2>1, <3>1, <3>2 DEF ResumeInv, LockKept
    <2> QED
      BY <2>1 DEF OneRecovery, ResumeInv, LockKept
  <1>3. UnitsAreWhole
    <2>1. ASSUME \A r \in Run : ~Alive(r), NEW i \in SessionId,
                 sessions[i].name \in Unit, sessions[i].by # User, sessions[i].typed = {}
          PROVE  script[sessions[i].by].failures # 0 /\ (torn \/ i \in notKilled)
      <3>1. sessions[i].by \in Run
        BY <2>1 DEF ResumeInv, ResumeRecords, TmuxSession, Run, User
      <3> QED
        BY <2>1, <3>1 DEF ResumeInv, HalfIsOpen, OpenUnit, Excused, Alive
    <2> QED
      BY <2>1 DEF UnitsAreWhole, ResumeInv, TypedOwn
  <1> QED
    BY <1>1, <1>2, <1>3

\* One script runs at a time, unless a server died and left its own (start,
\* acquire_runtime_lock); and once none runs, a session of a unit that a script
\* made has had its launch command, or the script did not succeed: it was killed,
\* or a rollback could not kill that session (fail_unit).
THEOREM RecoveriesAreSafe == ResumeSpec => [](ResumeTypeOK /\ OneRecovery /\ UnitsAreWhole)
  BY ResumeInvariant, ResumeIsSafe, PTL

-----------------------------------------------------------------------------
(* The components together.  A step is one of a component, and the others  *)
(* keep their variables.                                                   *)

LEMMA WritersAreParts ==
  WritersSpec => /\ BackfillSpec /\ ResumeSpec /\ DraftsSpec
                 /\ DirectorySpec /\ SpoolSpec /\ LiveSpec /\ PostgresSpec
  <1>1. WritersInit => /\ BackfillInit /\ ResumeInit /\ DraftsInit
                       /\ DirectoryInit /\ SpoolInit /\ LiveInit /\ PostgresInit
    BY DEF WritersInit
  <1>2. ASSUME [WritersNext]_writersVars
        PROVE  /\ [BackfillNext]_backfillVars /\ [ResumeNext]_resumeVars
               /\ [DraftsNext]_draftVars /\ [DirectoryNext]_directoryVars
               /\ [SpoolNext]_spoolVars /\ [LiveNext]_liveVars /\ [PostgresNext]_postgresVars
    BY <1>2 DEF WritersNext, Is, writersVars
  <1> QED
    BY <1>1, <1>2, PTL
    DEF WritersSpec, BackfillSpec, ResumeSpec, DraftsSpec, DirectorySpec, SpoolSpec, LiveSpec, PostgresSpec

\* What several writers share stays right (WritersSafe): the rows of a reader
\* behind the backfill's cursor, the units of a recovery, the drafts of tabs at
\* rest, the launch directories, each with the exceptions its own theorem names,
\* and the types of every component's variables.
THEOREM WritersStaySafe == WritersSpec => []WritersSafe
  <1>1. /\ BackfillTypeOK /\ BehindCursorCovered
        /\ ResumeTypeOK /\ OneRecovery /\ UnitsAreWhole
        /\ DraftsTypeOK /\ TabsAgree
        /\ DirectoryTypeOK /\ DestinationIsWhole
        /\ SpoolTypeOK /\ LiveTypeOK
        => WritersSafe
    BY DEF WritersSafe
  <1> QED
    BY <1>1, WritersAreParts, BackfillInvariant, RecoveriesAreSafe, TabsStayInAgreement,
       DestinationsAreWhole, ImagesAreKept, QuietTabsAreCurrent, PTL

\* The caps and the uniqueness that the operations of the PostgreSQL store check
\* hold at every moment (StoreCapsHold), however their statements interleave.
THEOREM StoreCapsStay == WritersSpec => []StoreCapsHold
  <1>1. CapsHold => StoreCapsHold
    BY DEF StoreCapsHold
  <1> QED
    BY <1>1, WritersAreParts, CapsAlwaysHold, PTL
=============================================================================
