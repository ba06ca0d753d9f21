------------------------- MODULE PulseReporterProofs -------------------------
(***************************************************************************)
(* Push reporting is exactly-once for the usage snapshots and never goes   *)
(* back for the token rows, for every number of reporters, rows, pages,    *)
(* retries and replay keys.                                                *)
(*                                                                         *)
(* The argument.  A request of a stream is either stored already or one of *)
(* the page that waits in the outbox, and then the requests before it are  *)
(* stored (InTurn).  A page begins where the cursor stands, so what it     *)
(* carries is new (GoodPage, PendingOK), and a cursor moves only past a    *)
(* page of which everything is stored (ProcOK).  Hence a snapshot has been *)
(* stored exactly when one stored request carries it (StoredOnce).         *)
(***************************************************************************)
EXTENDS PulseReporter, TLAPS, FiniteSetTheorems, WellFoundedInduction

------------------------------------------------------------------------------
(* The inductive invariant.                                                *)

\* The order in which cursors follow each other.
Behind(c, d) ==
  /\ c.gen <= d.gen /\ c.usage <= d.usage
  /\ c.gen = d.gen => c.after <= d.after

\* A page of usage snapshots carries all that is kept between its cursors.
GoodUsage(p) ==
  /\ p.next = [p.expected EXCEPT !.usage = p.next.usage]
  /\ p.next.usage <= lastId
  /\ p.rows \in [DOMAIN p.rows -> {0}]
  /\ \A i \in DOMAIN p.rows : i \in Id /\ p.expected.usage < i /\ i <= p.next.usage
  /\ \A i \in usage : p.expected.usage < i /\ i <= p.next.usage => i \in DOMAIN p.rows

\* A page of token rows carries all that were written before the generation
\* began, none of them older than then and none newer than it is.
GoodToken(p) ==
  /\ p.next = [p.expected EXCEPT !.after = p.next.after]
  /\ p.rows \in [DOMAIN p.rows -> Nat]
  /\ \A k \in DOMAIN p.rows :
       k \in Key /\ p.expected.after < k /\ k <= p.next.after /\ p.rows[k] <= tokens[k]
  /\ p.expected.gen = cursor.gen =>
       \A k \in Key : p.expected.after < k /\ k <= p.next.after /\ sweep[k] > 0 =>
         k \in DOMAIN p.rows /\ sweep[k] <= p.rows[k]

GoodPage(p) ==
  /\ p # None /\ p.kind \in Stream /\ p.version \in 0..version
  /\ p.expected \in Cursor /\ p.next \in Cursor
  /\ DOMAIN p.rows # {}
  /\ p.kind = "usage" => GoodUsage(p)
  /\ p.kind = "token" => GoodToken(p)

\* The receiver's token rows are no newer than those of the page.
NotOlder(p) == \A k \in DOMAIN p.rows : held[k] <= p.rows[k]

\* The page in the outbox begins at the cursor, or the generation ended under
\* it and it stays for good.
PendingOK(s) ==
  \A p \in {pending[s]} : p # None =>
    /\ GoodPage(p) /\ p.kind = s
    /\ \/ p.expected = cursor
       \/ /\ p.expected.gen < cursor.gen
          /\ p.expected.usage = cursor.usage
          /\ cursor.after = 0
    /\ s = "token" => NotOlder(p)

StoredUpTo(p, n) == \A m \in 1..Chunks(p) : m < n => Request(p, m) \in replays
AllStored(p) == \A m \in 1..Chunks(p) : Request(p, m) \in replays

\* A request of the page in the outbox, those before it stored.
InTurn(q) ==
  \E p \in {pending[q.kind]} :
    /\ p # None
    /\ \E n \in 1..Chunks(p) : q = Request(p, n) /\ StoredUpTo(p, n)

WireOK ==
  \A m \in wire :
    m.from \in Reporter /\ (m.body.kind \in Stream => m.body \in replays \/ InTurn(m.body))

\* What the receiver has stored lies behind the cursor or is in turn.
ReplaysOK ==
  \A q \in replays : q.kind = "usage" =>
    (\A i \in DOMAIN q.rows : i \in Id /\ i <= cursor.usage) \/ InTurn(q)

Carried(i) == \E q \in replays : q.kind = "usage" /\ i \in DOMAIN q.rows

\* Stored at most once, and only if a request carried it.
StoredOnce ==
  /\ stored \in [Id -> {0, 1}]
  /\ \A i \in Id : stored[i] = 1 <=> Carried(i)

HeldOK ==
  /\ held \in [Key -> Nat]
  /\ \A k \in Key : held[k] <= tokens[k]
  /\ \A q \in replays : q.kind = "token" =>
       \A k \in DOMAIN q.rows : k \in Key => q.rows[k] \in 0..held[k]

SweepOK ==
  /\ sweep \in [Key -> Nat]
  /\ \A k \in Key : sweep[k] <= tokens[k]
  /\ \A k \in Key : k <= cursor.after => sweep[k] <= held[k]

SourceOK ==
  /\ lastId \in 0..MaxUsage /\ usage \subseteq 1..lastId
  /\ tokens \in [Key -> 0..MaxToken]
  /\ version \in 0..MaxVersion
  /\ cursor \in Cursor /\ cursor.usage <= lastId
  /\ pending \in [Stream -> {pending["usage"], pending["token"]}]

IsProc(p) ==
  /\ p = [pc |-> p.pc, phase |-> p.phase, state |-> p.state, page |-> p.page,
          index |-> p.index, attempt |-> p.attempt, left |-> p.left]
  /\ p.pc \in PC /\ p.phase \in 1..5 /\ p.state \in Cursor
  /\ p.index \in Nat /\ p.attempt \in 0..MaxAttempts /\ p.left \in 0..MaxPages
  /\ p.phase > 3 => p.left > 0
  /\ Behind(p.state, cursor)

\* A page that was read and is not in the outbox yet.  If it could be put there,
\* it is not older than what the receiver has.
Drafts(p) ==
  p.pc = "prepare" =>
    /\ GoodPage(p.page) /\ p.page.expected = p.state
    /\ p.page.kind = "token" /\ p.page.expected = cursor /\ pending["token"] = None =>
         NotOlder(p.page)

\* A page that is being sent is in the outbox, or another reporter has finished
\* it; the requests before the present one are stored.
Sends(p) ==
  p.pc \in {"send", "wait", "commit"} =>
    /\ p.page.kind \in Stream \cup {"profile"}
    /\ Chunks(p.page) \in Nat /\ p.index \in 1..Chunks(p.page)
    /\ p.pc = "commit" => p.page.kind \in Stream /\ AllStored(p.page)
    /\ p.page.kind \in Stream =>
         /\ p.page # None
         /\ p.page = pending[p.page.kind] \/ AllStored(p.page)
         /\ StoredUpTo(p.page, p.index)

\* At the end of a generation no row behind the cursor was there at its start.
Advances(p) ==
  p.pc = "advance" =>
    /\ p.state.after > 0
    /\ p.state.gen = cursor.gen => \A k \in Key : k > p.state.after => sweep[k] = 0

ProcOK(p) == IsProc(p) /\ Drafts(p) /\ Sends(p) /\ Advances(p)

ProcsOK ==
  /\ proc \in [Reporter -> {proc[r] : r \in Reporter}]
  /\ \A r \in Reporter : \A p \in {proc[r]} : ProcOK(p)

OutboxOK == OneOutbox /\ \A s \in Stream : PendingOK(s)

PushInv ==
  /\ SourceOK /\ OutboxOK /\ ProcsOK /\ WireOK /\ ReplaysOK
  /\ StoredOnce /\ HeldOK /\ SweepOK /\ BehindCursorStored

------------------------------------------------------------------------------
(* Numbers, ranks and chunks.                                              *)

\* A set of numbers that is not empty has a least one.
LEMMA LeastNumber ==
  ASSUME NEW T \in SUBSET Nat, T # {}
  PROVE  \E x \in T : \A y \in T : x <= y
<1> DEFINE R == OpToRel(<, Nat)
<1>1. \E x \in T : \A y \in T : <<y, x>> \notin R
  BY NatLessThanWellFounded, WFMin
<1>2. \A x, y \in Nat : y < x => <<y, x>> \in R
  BY DEF OpToRel
<1> HIDE DEF R
<1>3. PICK x \in T : \A y \in T : <<y, x>> \notin R
  BY <1>1
<1>4. \A y \in T : y \in Nat
  OBVIOUS
<1>5. ASSUME NEW y \in T PROVE x <= y
  <2>1. x \in Nat /\ y \in Nat
    BY <1>4
  <2>2. ~ (y < x)
    BY <1>2, <1>3, <2>1
  <2>3. QED BY <2>1, <2>2
<1>6. QED BY <1>5

\* One that is bounded has a greatest one.
LEMMA GreatestNumber ==
  ASSUME NEW b \in Nat, NEW T \in SUBSET (0..b), T # {}
  PROVE  \E x \in T : \A y \in T : y <= x
<1> DEFINE U == {u \in Nat : \A y \in T : y <= u}
<1>1. b \in U
  OBVIOUS
<1>2. PICK u \in U : \A v \in U : u <= v
  BY <1>1, LeastNumber
<1>3. u \in T
  <2>1. SUFFICES ASSUME u \notin T PROVE FALSE
    OBVIOUS
  <2>2. PICK t \in T : TRUE
    OBVIOUS
  <2>3. \A y \in T : y \in Nat /\ y <= u - 1
    BY <2>1
  <2>4. u - 1 \in U
    BY <2>2, <2>3
  <2>5. QED BY <2>4, <1>2
<1>4. QED BY <1>2, <1>3

LEMMA DivMonotone ==
  ASSUME NEW a \in Nat, NEW b \in Nat, NEW c \in Nat \ {0}, a <= b
  PROVE  a \div c \in Nat /\ b \div c \in Nat /\ a \div c <= b \div c
  OBVIOUS

\* Counting from the least row.
LEMMA RankFacts ==
  ASSUME NEW b \in Nat, NEW S \in SUBSET (1..b), NEW x \in S
  PROVE  /\ Cardinality(S) \in Nat /\ Rank(S, x) \in 1..Cardinality(S)
         /\ \A y \in S : x <= y => Rank(S, x) <= Rank(S, y)
<1>0. S \in SUBSET Nat /\ \A z \in S : z <= b
  OBVIOUS
<1>1. IsFiniteSet(S) /\ Cardinality(S) \in Nat
  BY <1>0, FS_BoundedSetOfNaturals, FS_CardinalityType
<1>2. ASSUME NEW y \in S PROVE IsFiniteSet({z \in S : z <= y}) /\ Rank(S, y) \in Nat /\ Rank(S, y) <= Cardinality(S)
  BY <1>1, FS_Subset, FS_CardinalityType, {z \in S : z <= y} \in SUBSET S DEF Rank
<1>3. Rank(S, x) # 0
  BY <1>2, FS_EmptySet, x \in {z \in S : z <= x} DEF Rank
<1>4. ASSUME NEW y \in S, x <= y PROVE Rank(S, x) <= Rank(S, y)
  <2>1. {z \in S : z <= x} \in SUBSET {z \in S : z <= y}
    <3>1. x \in Nat /\ y \in Nat
      BY <1>0
    <3>2. \A z \in S : z <= x => z <= y
      BY <1>0, <1>4, <3>1
    <3>3. QED BY <3>2
  <2>2. QED BY <1>2, <2>1, FS_Subset DEF Rank
<1>5. Rank(S, x) \in 1..Cardinality(S)
  <2>1. Rank(S, x) \in Nat /\ Rank(S, x) <= Cardinality(S)
    BY <1>2
  <2>2. QED BY <1>1, <1>3, <2>1
<1>6. QED BY <1>1, <1>4, <1>5

\* A page begins with the least row and leaves none out.
LEMMA FirstRowsFacts ==
  ASSUME NEW b \in Nat, NEW S \in SUBSET (1..b), S # {}
  PROVE  LET F == FirstRows(S)
         IN /\ F \subseteq S /\ LastOf(F) \in F
            /\ \A y \in F : y <= LastOf(F)
            /\ \A y \in S : y <= LastOf(F) => y \in F
<1> DEFINE F == FirstRows(S)
<1>1. PICK x \in S : \A y \in S : x <= y
  BY LeastNumber, S \in SUBSET Nat
<1>2. x \in F
  <2>1. {y \in S : y <= x} = {x}
    <3>1. \A y \in S : y \in Nat
      OBVIOUS
    <3>2. \A y \in S : y <= x <=> y = x
      BY <1>1, <3>1
    <3>3. QED BY <3>2
  <2>2. Rank(S, x) = 1
    BY <2>1, FS_Singleton DEF Rank
  <2>3. QED BY <2>2, ReporterLimits DEF FirstRows
<1>3. F \subseteq S
  BY DEF FirstRows
<1>4. \E z \in F : \A y \in F : y <= z
  <2>1. \A y \in S : y \in 0..b
    OBVIOUS
  <2>2. F # {} /\ F \subseteq 0..b
    BY <1>2, <1>3, <2>1
  <2>3. F \in SUBSET (0..b)
    BY <2>2
  <2>4. QED BY <2>2, <2>3, GreatestNumber
<1>5. LastOf(F) \in F /\ \A y \in F : y <= LastOf(F)
  BY <1>4 DEF LastOf
<1>6. ASSUME NEW y \in S, y <= LastOf(F) PROVE y \in F
  <2>1. LastOf(F) \in S
    BY <1>3, <1>5
  <2>2. Rank(S, y) <= Rank(S, LastOf(F)) /\ Rank(S, y) \in Nat /\ Rank(S, LastOf(F)) \in Nat
    <3>1. Cardinality(S) \in Nat /\ Rank(S, y) \in 1..Cardinality(S)
          /\ Rank(S, LastOf(F)) \in 1..Cardinality(S)
      BY <2>1, RankFacts
    <3>2. \A z \in S : y <= z => Rank(S, y) <= Rank(S, z)
      BY RankFacts
    <3>3. Rank(S, y) <= Rank(S, LastOf(F))
      BY <1>6, <2>1, <3>2
    <3>4. QED BY <3>1, <3>3
  <2>3. Rank(S, LastOf(F)) <= PageRows
    BY <1>5 DEF FirstRows
  <2>4. QED BY <2>2, <2>3, ReporterLimits DEF FirstRows
<1>7. QED BY <1>3, <1>5, <1>6

\* Every row of a page is in one of its requests, and the requests follow the
\* order of the rows.
LEMMA ChunkFacts ==
  ASSUME NEW b \in Nat, NEW p, DOMAIN p.rows \subseteq 1..b
  PROVE  /\ Chunks(p) \in Nat
         /\ \A x \in DOMAIN p.rows : \E n \in 1..Chunks(p) : x \in ChunkKeys(p, n)
         /\ \A m, n : \A x \in ChunkKeys(p, m), y \in ChunkKeys(p, n) :
              m \in Int /\ n \in Int /\ m < n => x < y
<1> DEFINE D == DOMAIN p.rows
           c(x) == (Rank(D, x) + ChunkRows - 1) \div ChunkRows
<1>1. ChunkRows \in Nat \ {0} /\ D \in SUBSET (1..b)
  BY ReporterLimits
<1>2. Cardinality(D) \in Nat
  <2>1. D \in SUBSET Nat /\ \A x \in D : x <= b
    BY <1>1
  <2>2. QED BY <2>1, FS_BoundedSetOfNaturals, FS_CardinalityType
<1>3. Chunks(p) \in Nat
  BY <1>1, <1>2, DivMonotone DEF Chunks
<1>4. ASSUME NEW x \in D PROVE c(x) \in 1..Chunks(p)
  <2>1. Rank(D, x) \in 1..Cardinality(D)
    BY <1>1, RankFacts
  <2>2. c(x) <= Chunks(p) /\ c(x) \in Nat
    <3>1. Rank(D, x) + ChunkRows - 1 \in Nat /\ Cardinality(D) + ChunkRows - 1 \in Nat
      BY <1>1, <1>2, <2>1
    <3>2. Rank(D, x) + ChunkRows - 1 <= Cardinality(D) + ChunkRows - 1
      BY <1>1, <1>2, <2>1
    <3>3. QED BY <1>1, <3>1, <3>2, DivMonotone DEF Chunks
  <2>3. ChunkRows \div ChunkRows <= c(x)
    <3>1. Rank(D, x) + ChunkRows - 1 \in Nat /\ ChunkRows <= Rank(D, x) + ChunkRows - 1
      BY <1>1, <1>2, <2>1
    <3>2. QED BY <1>1, <3>1, DivMonotone
  <2>4. ChunkRows \div ChunkRows = 1
    BY <1>1
  <2>5. QED BY <1>3, <2>2, <2>3, <2>4
<1>5. ASSUME NEW x \in D, NEW y \in D, y <= x PROVE c(y) <= c(x)
  <2>1. Rank(D, x) \in 1..Cardinality(D) /\ Rank(D, y) \in 1..Cardinality(D)
    BY <1>1, RankFacts
  <2>2. Rank(D, y) <= Rank(D, x)
    BY <1>1, <1>5, RankFacts
  <2>3. Rank(D, x) + ChunkRows - 1 \in Nat /\ Rank(D, y) + ChunkRows - 1 \in Nat
    BY <1>1, <1>2, <2>1
  <2>4. Rank(D, y) + ChunkRows - 1 <= Rank(D, x) + ChunkRows - 1
    BY <1>1, <1>2, <2>1, <2>2
  <2>5. QED BY <1>1, <2>3, <2>4, DivMonotone
<1>6. ASSUME NEW m \in Int, NEW n \in Int, m < n,
             NEW x \in ChunkKeys(p, m), NEW y \in ChunkKeys(p, n)
      PROVE  x < y
  <2>1. x \in D /\ y \in D /\ c(x) = m /\ c(y) = n
    BY DEF ChunkKeys
  <2>2. ~ y <= x
    BY <2>1, <1>5, <1>6
  <2>3. QED BY <2>1, <2>2, <1>1
<1>7. QED BY <1>3, <1>4, <1>6 DEF ChunkKeys

------------------------------------------------------------------------------
(* What a page and a reporter keep while others take steps.                *)

\* The rows of a page are known and its requests cover them in order.
LEMMA PageChunks ==
  ASSUME NEW p, GoodPage(p)
  PROVE  /\ Chunks(p) \in Nat
         /\ \A x \in DOMAIN p.rows : \E n \in 1..Chunks(p) : x \in ChunkKeys(p, n)
         /\ \A m, n \in Int : \A x \in ChunkKeys(p, m), y \in ChunkKeys(p, n) : m < n => x < y
         /\ 1 <= Chunks(p)
<1>1. \E b \in Nat : DOMAIN p.rows \subseteq 1..b
  <2>1. CASE p.kind = "usage"
    <3>1. DOMAIN p.rows \subseteq 1..MaxUsage /\ MaxUsage \in Nat
      BY <2>1, ReporterBounds DEF GoodPage, GoodUsage, Id
    <3>2. QED BY <3>1
  <2>2. CASE p.kind = "token"
    <3>1. DOMAIN p.rows \subseteq 1..NumKey /\ NumKey \in Nat
      BY <2>2, ReporterLimits DEF GoodPage, GoodToken, Key
    <3>2. QED BY <3>1
  <2>3. QED BY <2>1, <2>2 DEF GoodPage, Stream
<1>2. PICK b \in Nat : DOMAIN p.rows \subseteq 1..b
  BY <1>1
<1>3. /\ Chunks(p) \in Nat
      /\ \A x \in DOMAIN p.rows : \E n \in 1..Chunks(p) : x \in ChunkKeys(p, n)
      /\ \A m, n : \A x \in ChunkKeys(p, m), y \in ChunkKeys(p, n) :
              m \in Int /\ n \in Int /\ m < n => x < y
  BY <1>2, ChunkFacts
<1>4. PICK x \in DOMAIN p.rows : TRUE
  BY DEF GoodPage
<1>5. 1 <= Chunks(p)
  BY <1>3, <1>4
<1>6. QED BY <1>3, <1>5

\* What a step does to everything but the reporter that takes it.
Onward ==
  /\ lastId <= lastId' /\ version <= version'
  /\ \A i \in usage' : i \in usage \/ i > lastId
  /\ \A k \in Key : tokens[k] <= tokens'[k]
  /\ Behind(cursor, cursor')
  /\ cursor' = cursor \/ ~ Behind(cursor', cursor)
  /\ (sweep' = sweep /\ cursor'.gen = cursor.gen) \/ cursor.gen < cursor'.gen
  /\ replays \subseteq replays'
  /\ \A s \in Stream : pending[s] # None => pending'[s] = pending[s] \/ AllStored(pending[s])
  /\ cursor' = cursor /\ pending'["token"] = None => pending["token"] = None /\ held' = held

LEMMA BehindFacts ==
  ASSUME NEW c \in Cursor, NEW d \in Cursor, NEW e \in Cursor
  PROVE  /\ Behind(c, c) /\ Behind(ZeroCursor, c)
         /\ Behind(c, d) /\ Behind(d, e) => Behind(c, e)
         /\ Behind(c, d) /\ Behind(d, c) => c = d
  BY ReporterLimits, ReporterBounds DEF Behind, Cursor, ZeroCursor

LEMMA GoodPageKept ==
  ASSUME NEW p, GoodPage(p), SourceOK, SourceOK', Onward, Behind(p.expected, cursor)
  PROVE  GoodPage(p)'
<1>1. /\ lastId \in Nat /\ lastId' \in Nat /\ version \in Nat /\ version' \in Nat
      /\ \A k \in Key : tokens[k] \in Nat /\ tokens'[k] \in Nat
      /\ usage \subseteq 1..lastId /\ usage' \subseteq 1..lastId'
      /\ cursor \in Cursor /\ cursor' \in Cursor
  BY ReporterBounds DEF SourceOK
<1>2. p.kind = "usage" => GoodUsage(p)'
  <2>1. SUFFICES ASSUME p.kind = "usage" PROVE GoodUsage(p)'
    OBVIOUS
  <2>2. GoodUsage(p) /\ p.next.usage \in Nat
    BY <2>1, ReporterBounds DEF GoodPage, Cursor
  <2>3. p.next.usage <= lastId'
    BY <1>1, <2>2 DEF GoodUsage, Onward
  <2>4. ASSUME NEW i \in usage', p.expected.usage < i, i <= p.next.usage PROVE i \in DOMAIN p.rows
    BY <1>1, <2>2, <2>4 DEF GoodUsage, Onward
  <2>5. QED BY <2>2, <2>3, <2>4 DEF GoodUsage
<1>3. p.kind = "token" => GoodToken(p)'
  <2>1. SUFFICES ASSUME p.kind = "token" PROVE GoodToken(p)'
    OBVIOUS
  <2>2. GoodToken(p)
    BY <2>1 DEF GoodPage
  <2>3. ASSUME NEW k \in DOMAIN p.rows PROVE k \in Key /\ p.rows[k] \in Nat /\ p.rows[k] <= tokens'[k]
    <3>1. k \in Key /\ p.rows[k] <= tokens[k] /\ p.rows[k] \in Nat
      BY <2>2 DEF GoodToken
    <3>2. tokens[k] <= tokens'[k]
      BY <3>1 DEF Onward
    <3>3. QED BY <1>1, <3>1, <3>2
  <2>4. p.expected.gen = cursor'.gen => sweep' = sweep /\ p.expected.gen = cursor.gen
    <3>1. p.expected.gen \in Nat /\ cursor.gen \in Nat /\ cursor'.gen \in Nat
      BY <1>1, ReporterBounds DEF GoodPage, Cursor
    <3>2. p.expected.gen <= cursor.gen
      BY DEF Behind
    <3>3. QED BY <3>1, <3>2 DEF Onward
  <2>5. QED BY <2>2, <2>3, <2>4 DEF GoodToken
<1>4. p.version \in 0..version'
  BY <1>1 DEF GoodPage, Onward
<1>5. QED BY <1>2, <1>3, <1>4 DEF GoodPage

\* A reporter stays in order while the others take steps.
LEMMA ProcKept ==
  ASSUME NEW p, ProcOK(p), SourceOK, SourceOK', Onward
  PROVE  ProcOK(p)'
<1>1. /\ cursor \in Cursor /\ cursor' \in Cursor /\ Behind(cursor, cursor')
      /\ p.state \in Cursor /\ Behind(p.state, cursor)
  BY DEF SourceOK, Onward, ProcOK, IsProc
<1>2. Behind(p.state, cursor')
  BY <1>1, BehindFacts
<1>3. IsProc(p)'
  BY <1>2 DEF ProcOK, IsProc, Behind
<1>4. Drafts(p)'
  <2>1. SUFFICES ASSUME p.pc = "prepare" PROVE Drafts(p)'
    BY DEF Drafts
  <2>2. /\ GoodPage(p.page) /\ p.page.expected = p.state
        /\ p.page.kind = "token" /\ p.page.expected = cursor /\ pending["token"] = None =>
             NotOlder(p.page)
    BY <2>1 DEF ProcOK, Drafts
  <2>3. GoodPage(p.page)'
    BY <1>1, <2>2, GoodPageKept
  <2>4. ASSUME p.page.kind = "token", p.page.expected = cursor', pending'["token"] = None
        PROVE  NotOlder(p.page)'
    <3>1. cursor' = cursor
      BY <1>1, <2>2, <2>4 DEF Onward
    <3>2. NotOlder(p.page) /\ held' = held
      BY <2>2, <2>4, <3>1 DEF Onward
    <3>3. QED BY <3>2 DEF NotOlder
  <2>5. QED BY <2>2, <2>3, <2>4 DEF Drafts
<1>5. Sends(p)'
  <2>1. SUFFICES ASSUME p.pc \in {"send", "wait", "commit"} PROVE Sends(p)'
    BY DEF Sends
  <2>2. replays \subseteq replays'
    BY DEF Onward
  <2>3. AllStored(p.page) => AllStored(p.page)'
    BY <2>2 DEF AllStored
  <2>4. StoredUpTo(p.page, p.index) => StoredUpTo(p.page, p.index)'
    BY <2>2 DEF StoredUpTo
  <2>5. p.page.kind \in Stream /\ p.page # None /\ p.page = pending[p.page.kind] =>
          p.page = pending'[p.page.kind] \/ AllStored(p.page)
    BY DEF Onward
  <2>6. QED BY <2>1, <2>3, <2>4, <2>5 DEF ProcOK, Sends
<1>6. Advances(p)'
  <2>1. SUFFICES ASSUME p.pc = "advance" PROVE Advances(p)'
    BY DEF Advances
  <2>2. p.state.gen = cursor'.gen => sweep' = sweep /\ p.state.gen = cursor.gen
    <3>1. p.state.gen \in Nat /\ cursor.gen \in Nat /\ cursor'.gen \in Nat
      BY <1>1, ReporterBounds DEF Cursor
    <3>2. p.state.gen <= cursor.gen
      BY <1>1 DEF Behind
    <3>3. QED BY <3>1, <3>2 DEF Onward
  <2>3. QED BY <2>1, <2>2 DEF ProcOK, Advances
<1>7. QED BY <1>3, <1>4, <1>5, <1>6 DEF ProcOK

------------------------------------------------------------------------------
(* Steps of one reporter that change nothing but its cycle.                *)

LEMMA ProcsStep ==
  ASSUME ProcsOK, SourceOK, SourceOK', Onward,
         NEW r \in Reporter, NEW x, ProcOK(x)', proc' = [proc EXCEPT ![r] = x]
  PROVE  ProcsOK'
<1>1. proc' \in [Reporter -> {proc'[s] : s \in Reporter}]
  BY DEF ProcsOK
<1>2. ASSUME NEW s \in Reporter, NEW p \in {proc'[s]} PROVE ProcOK(p)'
  <2>1. CASE s = r
    <3>1. p = x
      BY <2>1 DEF ProcsOK
    <3>2. QED BY <3>1
  <2>2. CASE s # r
    <3>1. p \in {proc[s]}
      BY <2>2 DEF ProcsOK
    <3>2. ProcOK(p)
      BY <3>1 DEF ProcsOK
    <3>3. QED BY <3>2, ProcKept
  <2>3. QED BY <2>1, <2>2
<1>3. QED BY <1>1, <1>2 DEF ProcsOK

LEMMA QuietOnward ==
  ASSUME PushInv, UNCHANGED <<sourceVars, outboxVars, version, receiverVars>>
  PROVE  SourceOK' /\ Onward
<1>1. SourceOK'
  BY DEF PushInv, SourceOK, sourceVars, outboxVars
<1>2. lastId \in Nat /\ version \in Nat /\ cursor \in Cursor /\ \A k \in Key : tokens[k] \in Nat
  BY ReporterBounds DEF PushInv, SourceOK
<1>3. Behind(cursor, cursor')
  BY <1>2, BehindFacts DEF outboxVars
<1>4. QED BY <1>1, <1>2, <1>3 DEF Onward, sourceVars, outboxVars, receiverVars

LEMMA OutboxKept ==
  ASSUME PushInv, SourceOK', Onward, UNCHANGED outboxVars,
         \A p \in {pending["token"]} : p # None /\ NotOlder(p) => NotOlder(p)'
  PROVE  OutboxOK'
<1>1. OneOutbox'
  BY DEF PushInv, OutboxOK, OneOutbox, outboxVars
<1>2. ASSUME NEW s \in Stream, NEW p \in {pending'[s]}, p # None
      PROVE  /\ GoodPage(p)' /\ p.kind = s
             /\ \/ p.expected = cursor'
                \/ /\ p.expected.gen < cursor'.gen
                   /\ p.expected.usage = cursor'.usage
                   /\ cursor'.after = 0
             /\ s = "token" => NotOlder(p)'
  <2>1. p \in {pending[s]}
    BY DEF outboxVars
  <2>2. /\ GoodPage(p) /\ p.kind = s
        /\ \/ p.expected = cursor
           \/ /\ p.expected.gen < cursor.gen
              /\ p.expected.usage = cursor.usage
              /\ cursor.after = 0
        /\ s = "token" => NotOlder(p)
    BY <1>2, <2>1 DEF PushInv, OutboxOK, PendingOK
  <2>3. Behind(p.expected, cursor)
    <3>1. p.expected \in Cursor /\ cursor \in Cursor
      BY <2>2 DEF GoodPage, PushInv, SourceOK
    <3>2. QED BY <2>2, <3>1, BehindFacts, ReporterLimits, ReporterBounds DEF Behind, Cursor
  <2>4. GoodPage(p)'
    BY <2>2, <2>3, GoodPageKept DEF PushInv
  <2>5. s = "token" => NotOlder(p)'
    BY <1>2, <2>1, <2>2
  <2>6. QED BY <2>2, <2>4, <2>5 DEF outboxVars
<1>3. QED BY <1>1, <1>2 DEF OutboxOK, PendingOK

LEMMA InTurnKept ==
  ASSUME NEW q, InTurn(q), UNCHANGED pending, replays \subseteq replays'
  PROVE  InTurn(q)'
<1>1. PICK p \in {pending[q.kind]} : p # None /\ \E n \in 1..Chunks(p) : q = Request(p, n) /\ StoredUpTo(p, n)
  BY DEF InTurn
<1>2. p \in {pending'[q.kind]}
  OBVIOUS
<1>3. ASSUME NEW n \in 1..Chunks(p), StoredUpTo(p, n) PROVE StoredUpTo(p, n)'
  BY <1>3 DEF StoredUpTo
<1>4. QED BY <1>1, <1>2, <1>3 DEF InTurn

LEMMA WireKept ==
  ASSUME PushInv, UNCHANGED pending, replays \subseteq replays', wire' \subseteq wire
  PROVE  WireOK'
<1>1. ASSUME NEW m \in wire'
      PROVE  m.from \in Reporter /\ (m.body.kind \in Stream => m.body \in replays' \/ InTurn(m.body)')
  <2>1. m.from \in Reporter /\ (m.body.kind \in Stream => m.body \in replays \/ InTurn(m.body))
    BY DEF PushInv, WireOK
  <2>2. InTurn(m.body) => InTurn(m.body)'
    BY InTurnKept
  <2>3. QED BY <2>1, <2>2
<1>2. QED BY <1>1 DEF WireOK

\* The rest of the invariant speaks of the stores and of what is on its way.
LEMMA QuietRest ==
  ASSUME PushInv, UNCHANGED <<outboxVars, receiverVars>>, wire' \subseteq wire,
         SourceOK', Onward, ProcsOK', BehindCursorStored'
  PROVE  PushInv'
<1>1. OutboxOK'
  <2>1. ASSUME NEW p, NotOlder(p) PROVE NotOlder(p)'
    BY <2>1 DEF NotOlder, receiverVars
  <2>2. QED BY <2>1, OutboxKept
<1>2. WireOK'
  BY WireKept DEF outboxVars, receiverVars
<1>3. ReplaysOK'
  <2>1. ASSUME NEW q \in replays', q.kind = "usage"
        PROVE  (\A i \in DOMAIN q.rows : i \in Id /\ i <= cursor'.usage) \/ InTurn(q)'
    <3>1. (\A i \in DOMAIN q.rows : i \in Id /\ i <= cursor.usage) \/ InTurn(q)
      BY <2>1 DEF PushInv, ReplaysOK, receiverVars
    <3>2. InTurn(q) => InTurn(q)'
      BY InTurnKept DEF outboxVars, receiverVars
    <3>3. QED BY <3>1, <3>2 DEF outboxVars
  <2>2. QED BY <2>1 DEF ReplaysOK
<1>4. StoredOnce'
  BY DEF PushInv, StoredOnce, Carried, receiverVars
<1>5. \A k \in Key : tokens[k] \in Nat /\ tokens'[k] \in Nat /\ tokens[k] <= tokens'[k]
  BY ReporterBounds DEF PushInv, SourceOK, Onward
<1>6. HeldOK'
  BY <1>5 DEF PushInv, HeldOK, receiverVars
<1>7. SweepOK'
  <2>1. sweep' = sweep /\ held' = held /\ cursor' = cursor
    BY DEF outboxVars, receiverVars
  <2>2. SweepOK
    BY DEF PushInv
  <2>3. ASSUME NEW k \in Key PROVE sweep[k] <= tokens'[k]
    BY <1>5, <2>2 DEF SweepOK
  <2>4. QED BY <2>1, <2>2, <2>3 DEF SweepOK
<1>8. QED BY <1>1, <1>2, <1>3, <1>4, <1>6, <1>7 DEF PushInv

\* A reporter that goes on as it should.
LEMMA QuietStep ==
  ASSUME PushInv, UNCHANGED <<sourceVars, outboxVars, version, receiverVars>>, wire' \subseteq wire,
         NEW r \in Reporter, NEW x, ProcOK(x), proc' = [proc EXCEPT ![r] = x]
  PROVE  PushInv'
<1>1. SourceOK' /\ Onward /\ SourceOK /\ ProcsOK
  BY QuietOnward DEF PushInv
<1>2. ProcOK(x)'
  BY <1>1, ProcKept
<1>3. ProcsOK'
  BY <1>1, <1>2, ProcsStep
<1>4. BehindCursorStored'
  BY DEF PushInv, BehindCursorStored, sourceVars, outboxVars, receiverVars
<1>5. QED BY <1>1, <1>3, <1>4, QuietRest

LEMMA IdleOK ==
  ASSUME SourceOK
  PROVE  ProcOK(Idle)
<1>1. cursor \in Cursor /\ ZeroCursor \in Cursor /\ Behind(ZeroCursor, cursor)
  BY BehindFacts, ReporterLimits, ReporterBounds DEF SourceOK, Cursor, ZeroCursor
<1>2. IsProc(Idle)
  BY <1>1, ReporterLimits DEF IsProc, Idle, PC
<1>3. QED BY <1>2 DEF ProcOK, Drafts, Sends, Advances, Idle

\* The next part of a cycle begins at a cursor that was stored.
LEMMA NextPartOK ==
  ASSUME PushInv, NEW r \in Reporter, NEW c \in Cursor, Behind(c, cursor)
  PROVE  ProcOK(NextPart(r, c))
<1>1. CASE proc[r].phase = 5
  BY <1>1, IdleOK DEF NextPart, PushInv
<1>2. CASE proc[r].phase # 5
  <2>1. PICK p : p = proc[r]
    OBVIOUS
  <2>2. p.phase \in 1..4
    BY <1>2, <2>1 DEF PushInv, ProcsOK, ProcOK, IsProc
  <2>3. PICK x : x = NextPart(r, c)
    OBVIOUS
  <2>4. x = [pc |-> "pending", phase |-> p.phase + 1, state |-> c, page |-> None, index |-> 0,
             attempt |-> 0, left |-> IF p.phase < 3 THEN 0 ELSE MaxPages]
    BY <1>2, <2>1, <2>3 DEF NextPart, Idle
  <2>5. IsProc(x)
    BY <2>2, <2>4, ReporterLimits DEF IsProc, PC
  <2>6. ProcOK(x)
    BY <2>4, <2>5 DEF ProcOK, Drafts, Sends, Advances
  <2>7. QED BY <2>3, <2>6
<1>3. QED BY <1>1, <1>2

\* Sending begins with the first request of a page that waits in the outbox.
LEMMA SendingOK ==
  ASSUME PushInv, NEW r \in Reporter, NEW s \in Stream, NEW p \in {pending[s]}, p # None
  PROVE  ProcOK(Sending(r, p))
<1>1. PICK q : q = proc[r]
  OBVIOUS
<1>2. IsProc(q)
  BY <1>1 DEF PushInv, ProcsOK, ProcOK
<1>3. PICK x : x = Sending(r, p)
  OBVIOUS
<1>4. x = [q EXCEPT !.pc = "send", !.page = p, !.index = 1, !.attempt = 1]
  BY <1>1, <1>3 DEF Sending
<1>5. x = [pc |-> "send", phase |-> q.phase, state |-> q.state, page |-> p, index |-> 1,
           attempt |-> 1, left |-> q.left]
  BY <1>2, <1>4 DEF IsProc
<1>6. GoodPage(p) /\ p.kind = s
  BY DEF PushInv, OutboxOK, PendingOK
<1>7. Chunks(p) \in Nat /\ 1 <= Chunks(p)
  BY <1>6, PageChunks
<1>8. StoredUpTo(p, 1)
  BY <1>7 DEF StoredUpTo
<1>9. IsProc(x)
  BY <1>2, <1>5, ReporterLimits DEF IsProc, PC
<1>10. Sends(x)
  BY <1>5, <1>6, <1>7, <1>8 DEF Sends
<1>11. QED BY <1>3, <1>5, <1>9, <1>10 DEF ProcOK, Drafts, Advances

\* A page read at c carries everything behind c up to where it ends.
LEMMA UsagePageGood ==
  ASSUME PushInv, NEW c \in Cursor, UsageAfter(c) # {}
  PROVE  GoodPage(UsagePage(c))
<1> DEFINE S == FirstRows(UsageAfter(c))
<1>1. MaxUsage \in Nat /\ lastId \in 0..MaxUsage /\ usage \subseteq 1..lastId /\ version \in Nat
  BY ReporterBounds DEF PushInv, SourceOK
<1>2. UsageAfter(c) \in SUBSET (1..MaxUsage)
  <2>1. \A i \in usage : i \in 1..lastId
    BY <1>1
  <2>2. \A i \in usage : i \in 1..MaxUsage
    BY <1>1, <2>1
  <2>3. QED BY <2>2 DEF UsageAfter
<1>3. /\ S \subseteq UsageAfter(c) /\ LastOf(S) \in S
      /\ \A y \in S : y <= LastOf(S)
      /\ \A y \in UsageAfter(c) : y <= LastOf(S) => y \in S
  BY <1>1, <1>2, FirstRowsFacts
<1> HIDE DEF S
<1>4. PICK p : p = UsagePage(c)
  OBVIOUS
<1>5. p = [kind |-> "usage", version |-> version, expected |-> c,
           next |-> [c EXCEPT !.usage = LastOf(S)], rows |-> [i \in S |-> 0]]
  BY <1>4 DEF UsagePage, S
<1>6. \A i \in S : i \in usage /\ i \in Id /\ i \in Nat /\ i <= lastId /\ c.usage < i
  BY <1>1, <1>3 DEF UsageAfter, Id, Cursor
<1>7. p.next \in Cursor /\ p.next.usage = LastOf(S) /\ p.next = [p.expected EXCEPT !.usage = p.next.usage]
  BY <1>1, <1>3, <1>5, <1>6 DEF Cursor
<1>8. DOMAIN p.rows = S /\ p.rows \in [S -> {0}] /\ S # {}
  BY <1>3, <1>5
<1>9. GoodUsage(p)
  <2>1. ASSUME NEW i \in usage, c.usage < i, i <= LastOf(S) PROVE i \in S
    BY <1>3, <2>1 DEF UsageAfter
  <2>2. QED BY <1>3, <1>5, <1>6, <1>7, <1>8, <2>1 DEF GoodUsage
<1>10. p # None
  <2>1. S \in SUBSET (Id \cup Key) /\ p.rows \in [S -> Nat]
    BY <1>6, <1>8
  <2>2. p \in Pages(S)
    BY <1>1, <1>5, <1>7, <2>1 DEF Pages, Stream
  <2>3. QED BY <2>1, <2>2, NoneIsNoPage
<1>11. QED BY <1>1, <1>4, <1>5, <1>7, <1>8, <1>9, <1>10 DEF GoodPage, Stream

LEMMA TokenPageGood ==
  ASSUME PushInv, NEW c \in Cursor, TokensAfter(c) # {}
  PROVE  /\ GoodPage(TokenPage(c))
         /\ NotOlder(TokenPage(c))
<1> DEFINE S == FirstRows(TokensAfter(c))
<1>1. /\ NumKey \in Nat /\ version \in Nat /\ \A k \in Key : tokens[k] \in Nat
      /\ \A k \in Key : held[k] <= tokens[k] /\ sweep[k] \in Nat /\ sweep[k] <= tokens[k]
  BY ReporterLimits, ReporterBounds DEF PushInv, SourceOK, HeldOK, SweepOK
<1>2. TokensAfter(c) \in SUBSET (1..NumKey)
  BY <1>1 DEF TokensAfter, Key
<1>3. /\ S \subseteq TokensAfter(c) /\ LastOf(S) \in S
      /\ \A y \in S : y <= LastOf(S)
      /\ \A y \in TokensAfter(c) : y <= LastOf(S) => y \in S
  BY <1>1, <1>2, FirstRowsFacts
<1> HIDE DEF S
<1>4. PICK p : p = TokenPage(c)
  OBVIOUS
<1>5. p = [kind |-> "token", version |-> version, expected |-> c,
           next |-> [c EXCEPT !.after = LastOf(S)], rows |-> [k \in S |-> tokens[k]]]
  BY <1>4 DEF TokenPage, S
<1>6. \A k \in S : k \in Key /\ k \in Nat /\ k <= NumKey /\ c.after < k /\ tokens[k] > 0
  BY <1>1, <1>3 DEF TokensAfter, Key, Cursor
<1>7. p.next \in Cursor /\ p.next.after = LastOf(S) /\ p.next = [p.expected EXCEPT !.after = p.next.after]
  BY <1>1, <1>3, <1>5, <1>6 DEF Cursor
<1>8. DOMAIN p.rows = S /\ p.rows \in [S -> Nat] /\ S # {} /\ \A k \in S : p.rows[k] = tokens[k]
  BY <1>1, <1>3, <1>5, <1>6
<1>9. GoodToken(p)
  <2>1. ASSUME NEW k \in Key, c.after < k, k <= LastOf(S), sweep[k] > 0 PROVE k \in S /\ sweep[k] <= p.rows[k]
    <3>1. tokens[k] > 0
      BY <1>1, <2>1
    <3>2. k \in S
      BY <1>3, <2>1, <3>1 DEF TokensAfter
    <3>3. QED BY <1>1, <1>8, <3>2
  <2>2. QED BY <1>1, <1>3, <1>5, <1>6, <1>7, <1>8, <2>1 DEF GoodToken
<1>10. p # None
  <2>1. S \in SUBSET (Id \cup Key)
    BY <1>6
  <2>2. p \in Pages(S)
    BY <1>1, <1>5, <1>7, <1>8, <2>1 DEF Pages, Stream
  <2>3. QED BY <2>1, <2>2, NoneIsNoPage
<1>11. NotOlder(p)
  BY <1>1, <1>6, <1>8 DEF NotOlder
<1>12. QED BY <1>1, <1>4, <1>5, <1>7, <1>8, <1>9, <1>10, <1>11 DEF GoodPage, Stream

\* What the reporter r is like, for the steps below.
LEMMA OneProc ==
  ASSUME PushInv, NEW r \in Reporter, NEW q, q = proc[r]
  PROVE  /\ ProcOK(q) /\ IsProc(q) /\ SourceOK
         /\ StreamOf(r) = (IF q.phase \in {2, 4} THEN "usage" ELSE "token")
         /\ Draining(r) = (q.phase < 4)
  BY DEF PushInv, ProcsOK, ProcOK, StreamOf, Draining

LEMMA BeginStep ==
  ASSUME PushInv, NEW r \in Reporter, Begin(r)
  PROVE  PushInv'
<1>1. PICK q : q = proc[r]
  OBVIOUS
<1>2. PICK x : x = Sending(r, ProfilePage)
  OBVIOUS
<1>3. IsProc(q)
  BY <1>1, OneProc
<1>4. PICK p : p = ProfilePage
  OBVIOUS
<1>5. x = [q EXCEPT !.pc = "send", !.page = p, !.index = 1, !.attempt = 1]
  BY <1>1, <1>2, <1>4 DEF Sending
<1>6. x = [pc |-> "send", phase |-> q.phase, state |-> q.state, page |-> p, index |-> 1,
           attempt |-> 1, left |-> q.left]
  BY <1>3, <1>5 DEF IsProc
<1>7. p.kind = "profile" /\ DOMAIN p.rows = {0}
  BY <1>4 DEF ProfilePage
<1>8. Chunks(p) \in Nat /\ 1 <= Chunks(p)
  <2>1. Cardinality({0}) = 1
    BY FS_Singleton
  <2>2. Chunks(p) = (1 + ChunkRows - 1) \div ChunkRows
    BY <1>7, <2>1 DEF Chunks
  <2>3. QED BY <2>2, ReporterLimits
<1>9. IsProc(x)
  BY <1>3, <1>6, ReporterLimits DEF IsProc, PC
<1>10. Sends(x)
  BY <1>6, <1>7, <1>8 DEF Sends, Stream
<1>11. ProcOK(x)
  BY <1>6, <1>9, <1>10 DEF ProcOK, Drafts, Advances
<1>12. proc' = [proc EXCEPT ![r] = x]
  BY <1>2 DEF Begin, Goes
<1>13. QED BY <1>11, <1>12, QuietStep DEF Begin

LEMMA LoadCursorStep ==
  ASSUME PushInv, NEW r \in Reporter, LoadCursor(r)
  PROVE  PushInv'
<1>1. PICK x : x = NextPart(r, cursor)
  OBVIOUS
<1>2. PICK c : c = cursor
  OBVIOUS
<1>3. c \in Cursor /\ Behind(c, c)
  BY <1>2, BehindFacts DEF PushInv, SourceOK
<1>4. ProcOK(x)
  BY <1>1, <1>2, <1>3, NextPartOK
<1>5. proc' = [proc EXCEPT ![r] = x]
  BY <1>1 DEF LoadCursor, Goes
<1>6. QED BY <1>4, <1>5, QuietStep DEF LoadCursor

\* A page of the outbox is sent if the cycle stands where the page begins.
LEMMA SendOutboxOK ==
  ASSUME PushInv, NEW r \in Reporter, NEW s \in Stream, NEW p \in {pending[s]}, p # None,
         SendOutbox(r, p)
  PROVE  \E x : ProcOK(x) /\ proc' = [proc EXCEPT ![r] = x]
<1>1. ProcOK(Sending(r, p)) /\ ProcOK(Idle)
  BY SendingOK, IdleOK DEF PushInv
<1>2. QED BY <1>1 DEF SendOutbox, Goes, Fails

LEMMA LoadPendingStep ==
  ASSUME PushInv, NEW r \in Reporter, LoadPending(r)
  PROVE  PushInv'
<1>1. PICK q : q = proc[r]
  OBVIOUS
<1>2. ProcOK(q) /\ IsProc(q) /\ q.pc = "pending" /\ StreamOf(r) \in Stream
  BY <1>1, OneProc DEF LoadPending, Stream
<1>3. PICK p : p = pending[StreamOf(r)]
  OBVIOUS
<1>4. \E x : ProcOK(x) /\ proc' = [proc EXCEPT ![r] = x]
  <2>1. CASE p # None /\ SendOutbox(r, p)
    BY <1>2, <1>3, <2>1, SendOutboxOK
  <2>2. CASE Goes(r, NextPart(r, proc[r].state))
    <3>1. q.state \in Cursor /\ Behind(q.state, cursor)
      BY <1>2 DEF IsProc
    <3>2. ProcOK(NextPart(r, q.state))
      BY <3>1, NextPartOK
    <3>3. QED BY <1>1, <2>2, <3>2 DEF Goes
  <2>3. CASE Goes(r, [proc[r] EXCEPT !.pc = "read"])
    <3>1. PICK x : x = [q EXCEPT !.pc = "read"]
      OBVIOUS
    <3>2. x = [pc |-> "read", phase |-> q.phase, state |-> q.state, page |-> q.page,
               index |-> q.index, attempt |-> q.attempt, left |-> q.left]
      BY <1>2, <3>1 DEF IsProc
    <3>3. IsProc(x)
      BY <1>2, <3>2 DEF IsProc, PC
    <3>4. ProcOK(x)
      BY <3>2, <3>3 DEF ProcOK, Drafts, Sends, Advances
    <3>5. QED BY <1>1, <2>3, <3>1, <3>4 DEF Goes
  <2>4. QED BY <1>3, <2>1, <2>2, <2>3 DEF LoadPending
<1>5. PICK x : ProcOK(x) /\ proc' = [proc EXCEPT ![r] = x]
  BY <1>4
<1>6. QED BY <1>5, QuietStep DEF LoadPending

\* A page that was read is not in the outbox yet.
LEMMA DraftOK ==
  ASSUME PushInv, NEW r \in Reporter, NEW q, q = proc[r], NEW p, GoodPage(p), p.expected = q.state,
         p.kind = "token" => NotOlder(p)
  PROVE  ProcOK([q EXCEPT !.pc = "prepare", !.page = p])
<1>1. IsProc(q)
  BY OneProc
<1>2. PICK x : x = [q EXCEPT !.pc = "prepare", !.page = p]
  OBVIOUS
<1>3. x = [pc |-> "prepare", phase |-> q.phase, state |-> q.state, page |-> p,
           index |-> q.index, attempt |-> q.attempt, left |-> q.left]
  BY <1>1, <1>2 DEF IsProc
<1>4. IsProc(x)
  BY <1>1, <1>3 DEF IsProc, PC
<1>5. ProcOK(x)
  BY <1>3, <1>4 DEF ProcOK, Drafts, Sends, Advances
<1>6. QED BY <1>2, <1>5

LEMMA ReadUsageStep ==
  ASSUME PushInv, NEW r \in Reporter, ReadUsage(r)
  PROVE  PushInv'
<1>1. PICK q : q = proc[r]
  OBVIOUS
<1>2. PICK c : c = q.state
  OBVIOUS
<1>3. c \in Cursor /\ Behind(c, cursor)
  BY <1>1, <1>2, OneProc DEF IsProc
<1>4. \E x : ProcOK(x) /\ proc' = [proc EXCEPT ![r] = x]
  <2>1. CASE UsageAfter(c) = {}
    <3>1. ProcOK(NextPart(r, c))
      BY <1>3, NextPartOK
    <3>2. QED BY <1>1, <1>2, <2>1, <3>1 DEF ReadUsage, Goes
  <2>2. CASE UsageAfter(c) # {}
    <3>1. PICK p : p = UsagePage(c)
      OBVIOUS
    <3>2. GoodPage(p) /\ p.expected = c /\ p.kind = "usage"
      BY <1>3, <2>2, <3>1, UsagePageGood DEF UsagePage
    <3>3. ProcOK([q EXCEPT !.pc = "prepare", !.page = p])
      BY <1>1, <1>2, <3>2, DraftOK
    <3>4. QED BY <1>1, <1>2, <2>2, <3>1, <3>3 DEF ReadUsage, Goes
  <2>3. QED BY <2>1, <2>2
<1>5. PICK x : ProcOK(x) /\ proc' = [proc EXCEPT ![r] = x]
  BY <1>4
<1>6. QED BY <1>5, QuietStep DEF ReadUsage

LEMMA ReadTokensStep ==
  ASSUME PushInv, NEW r \in Reporter, ReadTokens(r)
  PROVE  PushInv'
<1>1. PICK q : q = proc[r]
  OBVIOUS
<1>2. PICK c : c = q.state
  OBVIOUS
<1>3. c \in Cursor /\ Behind(c, cursor) /\ IsProc(q)
  BY <1>1, <1>2, OneProc DEF IsProc
<1>4. \E x : ProcOK(x) /\ proc' = [proc EXCEPT ![r] = x]
  <2>1. CASE TokensAfter(c) # {}
    <3>1. PICK p : p = TokenPage(c)
      OBVIOUS
    <3>2. GoodPage(p) /\ p.expected = c /\ NotOlder(p)
      BY <1>3, <2>1, <3>1, TokenPageGood DEF TokenPage
    <3>3. ProcOK([q EXCEPT !.pc = "prepare", !.page = p])
      BY <1>1, <1>2, <3>2, DraftOK
    <3>4. QED BY <1>1, <1>2, <2>1, <3>1, <3>3 DEF ReadTokens, Goes
  <2>2. CASE TokensAfter(c) = {} /\ c.after > 0
    <3>1. PICK x : x = [q EXCEPT !.pc = "advance"]
      OBVIOUS
    <3>2. x = [pc |-> "advance", phase |-> q.phase, state |-> q.state, page |-> q.page,
               index |-> q.index, attempt |-> q.attempt, left |-> q.left]
      BY <1>3, <3>1 DEF IsProc
    <3>3. IsProc(x)
      BY <1>3, <3>2 DEF IsProc, PC
    <3>4. ASSUME NEW k \in Key, k > c.after PROVE sweep[k] = 0
      <4>1. tokens[k] \in Nat /\ ~ (tokens[k] > 0)
        BY <2>2, <3>4, ReporterBounds DEF TokensAfter, PushInv, SourceOK
      <4>2. sweep[k] \in Nat /\ sweep[k] <= tokens[k]
        BY DEF PushInv, SweepOK
      <4>3. QED BY <4>1, <4>2
    <3>5. ProcOK(x)
      BY <1>2, <2>2, <3>2, <3>3, <3>4 DEF ProcOK, Drafts, Sends, Advances
    <3>6. QED BY <1>1, <1>2, <2>2, <3>1, <3>5 DEF ReadTokens, Goes
  <2>3. CASE TokensAfter(c) = {} /\ ~ (c.after > 0)
    <3>1. ProcOK(Idle)
      BY IdleOK DEF PushInv
    <3>2. QED BY <1>1, <1>2, <2>3, <3>1 DEF ReadTokens, Goes
  <2>4. QED BY <2>1, <2>2, <2>3
<1>5. PICK x : ProcOK(x) /\ proc' = [proc EXCEPT ![r] = x]
  BY <1>4
<1>6. QED BY <1>5, QuietStep DEF ReadTokens

LEMMA StopStep ==
  ASSUME PushInv, NEW r \in Reporter, Stop(r)
  PROVE  PushInv'
<1>1. ProcOK(Idle)
  BY IdleOK DEF PushInv
<1>2. QED BY <1>1, QuietStep DEF Stop, Goes

------------------------------------------------------------------------------
(* The requests and their answers.                                         *)

\* An answer ends a request only if the receiver has stored it.
LEMMA AnsweredOK ==
  ASSUME PushInv, SourceOK', Onward, NEW r \in Reporter, NEW q, q = proc[r], q.pc = "wait",
         NEW status, status = "ok" => Request(q.page, q.index) \in replays',
         NEW x, x = Answered(r, status)
  PROVE  ProcOK(x)'
<1>1. ProcOK(q) /\ SourceOK
  BY OneProc
<1>2. ProcOK(q)'
  BY <1>1, ProcKept
<1>3. /\ IsProc(q)' /\ Sends(q)'
  BY <1>2 DEF ProcOK
<1>4. q = [pc |-> q.pc, phase |-> q.phase, state |-> q.state, page |-> q.page,
           index |-> q.index, attempt |-> q.attempt, left |-> q.left]
  BY <1>3 DEF IsProc
<1>5. /\ q.page.kind \in Stream \cup {"profile"}
      /\ Chunks(q.page) \in Nat /\ q.index \in 1..Chunks(q.page)
      /\ q.page.kind \in Stream =>
           /\ q.page # None
           /\ q.page = pending'[q.page.kind] \/ AllStored(q.page)'
           /\ StoredUpTo(q.page, q.index)'
  BY <1>3 DEF Sends
<1>6. CASE status = "ok" /\ q.index < Chunks(q.page)
  <2>1. x = [pc |-> "send", phase |-> q.phase, state |-> q.state, page |-> q.page,
             index |-> q.index + 1, attempt |-> 1, left |-> q.left]
    <3>1. x = [q EXCEPT !.pc = "send", !.index = q.index + 1, !.attempt = 1]
      BY <1>5, <1>6 DEF Answered
    <3>2. QED BY <1>4, <3>1
  <2>2. IsProc(x)'
    BY <1>3, <1>5, <2>1, ReporterLimits DEF IsProc, PC
  <2>3. q.page.kind \in Stream => StoredUpTo(q.page, q.index + 1)'
    BY <1>5, <1>6 DEF StoredUpTo
  <2>4. Sends(x)'
    BY <1>5, <1>6, <2>1, <2>3 DEF Sends
  <2>5. QED BY <2>1, <2>2, <2>4 DEF ProcOK, Drafts, Advances
<1>7. CASE status = "ok" /\ q.index = Chunks(q.page)
  <2>1. x = [pc |-> IF q.page.kind = "profile" THEN "cursor" ELSE "commit",
             phase |-> q.phase, state |-> q.state, page |-> q.page,
             index |-> q.index, attempt |-> q.attempt, left |-> q.left]
    BY <1>4, <1>5, <1>7 DEF Answered
  <2>2. IsProc(x)'
    BY <1>3, <2>1 DEF IsProc, PC
  <2>3. q.page.kind \in Stream => AllStored(q.page)'
    BY <1>5, <1>7 DEF StoredUpTo, AllStored
  <2>4. Sends(x)'
    BY <1>5, <2>1, <2>3 DEF Sends
  <2>5. QED BY <2>1, <2>2, <2>4 DEF ProcOK, Drafts, Advances
<1>8. CASE status = "retry" /\ q.attempt < MaxAttempts
  <2>1. x = [pc |-> "send", phase |-> q.phase, state |-> q.state, page |-> q.page,
             index |-> q.index, attempt |-> q.attempt + 1, left |-> q.left]
    BY <1>4, <1>8 DEF Answered
  <2>2. IsProc(x)'
    BY <1>3, <1>8, <2>1, ReporterLimits DEF IsProc, PC
  <2>3. Sends(x)'
    BY <1>5, <2>1 DEF Sends
  <2>4. QED BY <2>1, <2>2, <2>3 DEF ProcOK, Drafts, Advances
<1>9. CASE ~ (status = "ok" /\ q.index < Chunks(q.page)) /\ ~ (status = "ok" /\ q.index = Chunks(q.page))
           /\ ~ (status = "retry" /\ q.attempt < MaxAttempts)
  <2>1. x = Idle
    BY <1>9 DEF Answered
  <2>2. ProcOK(Idle)'
    <3>1. PICK y : y = Idle
      OBVIOUS
    <3>2. ProcOK(y)
      BY <1>1, <3>1, IdleOK
    <3>3. ProcOK(y)'
      BY <1>1, <3>2, ProcKept
    <3>4. QED BY <3>1, <3>3
  <2>3. QED BY <2>1, <2>2
<1>10. QED BY <1>6, <1>7, <1>8, <1>9

LEMMA TimeoutStep ==
  ASSUME PushInv, NEW r \in Reporter, Timeout(r)
  PROVE  PushInv'
<1>1. PICK q : q = proc[r]
  OBVIOUS
<1>2. PICK x : x = Answered(r, "retry")
  OBVIOUS
<1>3. SourceOK' /\ Onward
  BY QuietOnward DEF Timeout
<1>4. ProcOK(x)'
  BY <1>1, <1>2, <1>3, AnsweredOK DEF Timeout
<1>5. proc' = [proc EXCEPT ![r] = x]
  BY <1>2 DEF Timeout, Goes
<1>6. ProcsOK'
  BY <1>3, <1>4, <1>5, ProcsStep DEF PushInv
<1>7. BehindCursorStored'
  BY DEF PushInv, BehindCursorStored, Timeout, sourceVars, outboxVars, receiverVars
<1>8. QED BY <1>3, <1>6, <1>7, QuietRest DEF Timeout

\* A message of the reporter r that waits is its present request.
LEMMA HearsOK ==
  ASSUME PushInv, SourceOK', Onward, NEW m \in wire, NEW status,
         status = "ok" => m.body \in replays', Hears(m, status)
  PROVE  ProcsOK'
<1>1. CASE UNCHANGED proc
  <2>1. ASSUME NEW r \in Reporter, NEW p \in {proc'[r]} PROVE ProcOK(p)'
    <3>1. ProcOK(p)
      BY <1>1 DEF PushInv, ProcsOK
    <3>2. QED BY <3>1, ProcKept DEF PushInv
  <2>2. QED BY <1>1, <2>1 DEF PushInv, ProcsOK
<1>2. CASE /\ proc[m.from].pc = "wait"
           /\ Request(proc[m.from].page, proc[m.from].index) = m.body
           /\ Goes(m.from, Answered(m.from, status))
  <2>1. m.from \in Reporter
    BY DEF PushInv, WireOK
  <2>2. PICK r \in Reporter : r = m.from
    BY <2>1
  <2>3. PICK q : q = proc[r]
    OBVIOUS
  <2>4. PICK x : x = Answered(r, status)
    OBVIOUS
  <2>5. ProcOK(x)'
    BY <1>2, <2>2, <2>3, <2>4, AnsweredOK
  <2>6. proc' = [proc EXCEPT ![r] = x]
    BY <1>2, <2>2, <2>4 DEF Goes
  <2>7. QED BY <2>5, <2>6, ProcsStep DEF PushInv
<1>3. QED BY <1>1, <1>2 DEF Hears

\* A request that is answered but not stored changes the reporter only.
LEMMA UnstoredStep ==
  ASSUME PushInv, NEW m \in wire, Replay(m) \/ Full(m) \/ Refuse(m), wire' = wire \ {m},
         UNCHANGED <<sourceVars, outboxVars, version>>
  PROVE  PushInv'
<1>1. UNCHANGED receiverVars
  BY DEF Replay, Full, Refuse
<1>2. SourceOK' /\ Onward
  BY <1>1, QuietOnward
<1>3. \E status : (status = "ok" => m.body \in replays') /\ Hears(m, status)
  <2>1. replays' = replays
    BY <1>1 DEF receiverVars
  <2>2. CASE Replay(m)
    BY <2>1, <2>2 DEF Replay, Conflicts
  <2>3. CASE Full(m)
    BY <2>3 DEF Full
  <2>4. CASE Refuse(m)
    BY <2>4 DEF Refuse
  <2>5. QED BY <2>2, <2>3, <2>4
<1>4. PICK status : (status = "ok" => m.body \in replays') /\ Hears(m, status)
  BY <1>3
<1>5. ProcsOK'
  BY <1>2, <1>4, HearsOK
<1>6. BehindCursorStored'
  BY <1>1 DEF PushInv, BehindCursorStored, sourceVars, outboxVars, receiverVars
<1>7. QED BY <1>1, <1>2, <1>5, <1>6, QuietRest

LEMMA SendStep ==
  ASSUME PushInv, NEW r \in Reporter, Send(r)
  PROVE  PushInv'
<1>1. PICK q : q = proc[r]
  OBVIOUS
<1>2. ProcOK(q) /\ IsProc(q) /\ Sends(q) /\ q.pc = "send"
  BY <1>1, OneProc DEF ProcOK, Send
<1>3. SourceOK' /\ Onward
  BY QuietOnward DEF Send
<1>4. UNCHANGED <<outboxVars, receiverVars, pending, replays, cursor>>
  BY DEF Send, outboxVars, receiverVars
<1>5. PICK x : x = [q EXCEPT !.pc = "wait"]
  OBVIOUS
<1>6. x = [pc |-> "wait", phase |-> q.phase, state |-> q.state, page |-> q.page,
           index |-> q.index, attempt |-> q.attempt, left |-> q.left]
  BY <1>2, <1>5 DEF IsProc
<1>7. ProcOK(x)
  <2>1. IsProc(x)
    BY <1>2, <1>6 DEF IsProc, PC
  <2>2. Sends(x)
    BY <1>2, <1>6 DEF Sends
  <2>3. QED BY <1>6, <2>1, <2>2 DEF ProcOK, Drafts, Advances
<1>8. ProcOK(x)' /\ proc' = [proc EXCEPT ![r] = x]
  BY <1>1, <1>3, <1>5, <1>7, ProcKept DEF Send, Goes, PushInv
<1>9. ProcsOK'
  BY <1>3, <1>8, ProcsStep DEF PushInv
<1>10. PICK b : b = Request(q.page, q.index)
  OBVIOUS
<1>11. b.kind \in Stream => b \in replays' \/ InTurn(b)'
  <2>1. SUFFICES ASSUME b.kind \in Stream PROVE b \in replays \/ InTurn(b)
    BY <1>4, InTurnKept
  <2>2. b.kind = q.page.kind
    BY <1>10 DEF Request
  <2>3. /\ Chunks(q.page) \in Nat /\ q.index \in 1..Chunks(q.page)
        /\ q.page # None
        /\ q.page = pending[q.page.kind] \/ AllStored(q.page)
        /\ StoredUpTo(q.page, q.index)
    BY <1>2, <2>1, <2>2 DEF Sends
  <2>4. CASE AllStored(q.page)
    BY <1>10, <2>3, <2>4 DEF AllStored
  <2>5. CASE q.page = pending[q.page.kind]
    BY <1>10, <2>2, <2>3, <2>5 DEF InTurn
  <2>6. QED BY <2>3, <2>4, <2>5
<1>12. WireOK'
  <2>1. ASSUME NEW m \in wire'
        PROVE  m.from \in Reporter /\ (m.body.kind \in Stream => m.body \in replays' \/ InTurn(m.body)')
    <3>1. CASE m \in wire
      <4>1. m.from \in Reporter /\ (m.body.kind \in Stream => m.body \in replays \/ InTurn(m.body))
        BY <3>1 DEF PushInv, WireOK
      <4>2. InTurn(m.body) => InTurn(m.body)'
        BY <1>4, InTurnKept
      <4>3. QED BY <1>4, <4>1, <4>2
    <3>2. CASE m \notin wire
      <4>1. m = [from |-> r, attempt |-> q.attempt, body |-> b]
        BY <1>1, <1>10, <3>2 DEF Send
      <4>2. m.from \in Reporter /\ m.body = b
        BY <4>1
      <4>3. QED BY <1>11, <4>2
    <3>3. QED BY <3>1, <3>2
  <2>2. QED BY <2>1 DEF WireOK
<1>13. OutboxOK'
  <2>1. ASSUME NEW p, NotOlder(p) PROVE NotOlder(p)'
    BY <1>4, <2>1 DEF NotOlder, receiverVars
  <2>2. QED BY <1>3, <1>4, <2>1, OutboxKept
<1>14. ReplaysOK'
  <2>1. ASSUME NEW z \in replays', z.kind = "usage"
        PROVE  (\A i \in DOMAIN z.rows : i \in Id /\ i <= cursor'.usage) \/ InTurn(z)'
    <3>1. (\A i \in DOMAIN z.rows : i \in Id /\ i <= cursor.usage) \/ InTurn(z)
      BY <1>4, <2>1 DEF PushInv, ReplaysOK
    <3>2. InTurn(z) => InTurn(z)'
      BY <1>4, InTurnKept
    <3>3. QED BY <1>4, <3>1, <3>2
  <2>2. QED BY <2>1 DEF ReplaysOK
<1>15. StoredOnce' /\ HeldOK' /\ SweepOK' /\ BehindCursorStored'
  BY DEF PushInv, StoredOnce, Carried, HeldOK, SweepOK, BehindCursorStored, Send,
         sourceVars, outboxVars, receiverVars
<1>16. QED BY <1>3, <1>9, <1>12, <1>13, <1>14, <1>15 DEF PushInv

------------------------------------------------------------------------------
(* The other writers.                                                      *)

LEMMA AppendStep ==
  ASSUME PushInv, AppendSnapshot
  PROVE  PushInv'
<1>1. /\ lastId \in 0..MaxUsage /\ lastId < MaxUsage /\ MaxUsage \in Nat
      /\ lastId' = lastId + 1 /\ usage' = usage \cup {lastId + 1}
      /\ usage \subseteq 1..lastId /\ cursor \in Cursor /\ cursor.usage <= lastId
      /\ UNCHANGED <<tokens, outboxVars, version, proc, wire, receiverVars>>
      /\ cursor' = cursor /\ version \in Nat /\ \A k \in Key : tokens[k] \in Nat
  BY ReporterBounds DEF PushInv, SourceOK, AppendSnapshot, outboxVars
<1>2. SourceOK'
  <2>1. lastId' \in 0..MaxUsage
    BY <1>1
  <2>2. usage' \subseteq 1..lastId'
    BY <1>1
  <2>3. cursor'.usage <= lastId'
    BY <1>1, ReporterBounds DEF Cursor
  <2>4. QED BY <1>1, <2>1, <2>2, <2>3 DEF PushInv, SourceOK, outboxVars
<1>3. Onward
  <2>1. Behind(cursor, cursor')
    BY <1>1, BehindFacts
  <2>2. \A i \in usage' : i \in usage \/ i > lastId
    BY <1>1
  <2>3. QED BY <1>1, <2>1, <2>2 DEF Onward, outboxVars, receiverVars
<1>4. ProcsOK'
  <2>1. ASSUME NEW r \in Reporter, NEW p \in {proc'[r]} PROVE ProcOK(p)'
    <3>1. ProcOK(p)
      BY <1>1 DEF PushInv, ProcsOK
    <3>2. QED BY <1>2, <1>3, <3>1, ProcKept DEF PushInv
  <2>2. QED BY <1>1, <2>1 DEF PushInv, ProcsOK
<1>5. BehindCursorStored'
  <2>1. ASSUME NEW i \in usage', i <= cursor'.usage PROVE stored'[i] = 1
    <3>1. i # lastId + 1
      BY <1>1, <2>1, ReporterBounds DEF Cursor
    <3>2. i \in usage /\ i <= cursor.usage /\ stored' = stored
      BY <1>1, <2>1, <3>1 DEF receiverVars
    <3>3. QED BY <3>2 DEF PushInv, BehindCursorStored
  <2>2. QED BY <2>1 DEF BehindCursorStored
<1>6. QED BY <1>1, <1>2, <1>3, <1>4, <1>5, QuietRest

\* A row of the reporting machine changes under its reporters.
LEMMA SourceStep ==
  ASSUME PushInv, UNCHANGED <<lastId, outboxVars, version, proc, wire, receiverVars>>,
         usage' \subseteq usage, tokens' \in [Key -> 0..MaxToken], \A k \in Key : tokens[k] <= tokens'[k]
  PROVE  PushInv'
<1>1. SourceOK'
  BY DEF PushInv, SourceOK, outboxVars
<1>2. lastId \in Nat /\ version \in Nat /\ cursor \in Cursor
  BY ReporterBounds DEF PushInv, SourceOK
<1>3. Behind(cursor, cursor')
  BY <1>2, BehindFacts DEF outboxVars
<1>4. Onward
  BY <1>2, <1>3 DEF Onward, outboxVars, receiverVars
<1>5. ProcsOK'
  <2>1. ASSUME NEW r \in Reporter, NEW p \in {proc'[r]} PROVE ProcOK(p)'
    <3>1. ProcOK(p)
      BY DEF PushInv, ProcsOK
    <3>2. QED BY <1>1, <1>4, <3>1, ProcKept DEF PushInv
  <2>2. QED BY <2>1 DEF PushInv, ProcsOK
<1>6. BehindCursorStored'
  BY DEF PushInv, BehindCursorStored, outboxVars, receiverVars
<1>7. QED BY <1>1, <1>4, <1>5, <1>6, QuietRest

LEMMA UpgradeStep ==
  ASSUME PushInv, Upgrade
  PROVE  PushInv'
<1>1. /\ version \in 0..MaxVersion /\ version' = version + 1 /\ version < MaxVersion /\ MaxVersion \in Nat
      /\ UNCHANGED <<sourceVars, outboxVars, wire, receiverVars>>
      /\ lastId \in Nat /\ cursor \in Cursor /\ \A k \in Key : tokens[k] \in Nat
      /\ proc' = [r \in Reporter |-> Idle]
  BY ReporterBounds DEF PushInv, SourceOK, Upgrade
<1>2. SourceOK'
  <2>1. version' \in 0..MaxVersion
    BY <1>1
  <2>2. QED BY <1>1, <2>1 DEF PushInv, SourceOK, sourceVars, outboxVars
<1>3. Behind(cursor, cursor')
  BY <1>1, BehindFacts DEF outboxVars
<1>4. Onward
  BY <1>1, <1>3 DEF Onward, sourceVars, outboxVars, receiverVars
<1>5. PICK x : x = Idle
  OBVIOUS
<1>6. ProcOK(x)'
  <2>1. ProcOK(x)
    BY <1>5, IdleOK DEF PushInv
  <2>2. QED BY <1>2, <1>4, <2>1, ProcKept DEF PushInv
<1>7. ProcsOK'
  BY <1>1, <1>5, <1>6 DEF ProcsOK
<1>8. BehindCursorStored'
  BY <1>1 DEF PushInv, BehindCursorStored, sourceVars, outboxVars, receiverVars
<1>9. QED BY <1>1, <1>2, <1>4, <1>7, <1>8, QuietRest

------------------------------------------------------------------------------
(* The outbox.                                                             *)

\* A page is put into an empty outbox where it begins at the cursor.
LEMMA PrepareStep ==
  ASSUME PushInv, NEW r \in Reporter, Prepare(r)
  PROVE  PushInv'
<1>1. PICK q : q = proc[r]
  OBVIOUS
<1>2. PICK p : p = q.page
  OBVIOUS
<1>3. /\ ProcOK(q) /\ IsProc(q) /\ q.pc = "prepare" /\ GoodPage(p) /\ p.expected = q.state
      /\ p.kind = "token" /\ p.expected = cursor /\ pending["token"] = None => NotOlder(p)
      /\ p.kind \in Stream /\ p # None
  BY <1>1, <1>2, OneProc DEF ProcOK, Drafts, Prepare, GoodPage
<1>4. CASE UNCHANGED pending
  <2>1. \E x : ProcOK(x) /\ proc' = [proc EXCEPT ![r] = x]
    <3>1. ProcOK(Idle)
      BY IdleOK DEF PushInv
    <3>2. CASE pending[p.kind] # None /\ SendOutbox(r, pending[p.kind])
      <4>1. PICK t : t = pending[p.kind]
        OBVIOUS
      <4>2. QED BY <1>3, <3>2, <4>1, SendOutboxOK
    <3>3. CASE Fails(r)
      BY <3>1, <3>3 DEF Fails, Goes
    <3>4. CASE pending' = [pending EXCEPT ![p.kind] = p] /\ pending[p.kind] = None
      <4>1. pending[p.kind] = p
        BY <1>3, <1>4, <3>4 DEF PushInv, SourceOK
      <4>2. QED BY <1>3, <3>4, <4>1
    <3>5. QED BY <1>1, <1>2, <3>2, <3>3, <3>4 DEF Prepare
  <2>2. PICK x : ProcOK(x) /\ proc' = [proc EXCEPT ![r] = x]
    BY <2>1
  <2>3. UNCHANGED <<sourceVars, outboxVars, version, receiverVars>> /\ wire' = wire
    BY <1>4 DEF Prepare, outboxVars
  <2>4. QED BY <2>2, <2>3, QuietStep
<1>5. CASE pending' # pending
  <2>1. /\ p.expected = cursor /\ \A s \in Stream : pending[s] = None
        /\ pending' = [pending EXCEPT ![p.kind] = p] /\ SendOutbox(r, p)
        /\ UNCHANGED <<sourceVars, cursor, sweep, version, wire, receiverVars>>
    BY <1>1, <1>2, <1>5 DEF Prepare
  <2>2. /\ pending'[p.kind] = p /\ \A s \in Stream : s # p.kind => pending'[s] = None
        /\ pending' \in [Stream -> {pending'["usage"], pending'["token"]}]
    BY <1>3, <2>1 DEF PushInv, SourceOK, Stream
  <2>3. SourceOK'
    BY <2>1, <2>2 DEF PushInv, SourceOK, sourceVars
  <2>4. lastId \in Nat /\ version \in Nat /\ cursor \in Cursor /\ \A k \in Key : tokens[k] \in Nat
    BY ReporterBounds DEF PushInv, SourceOK
  <2>5. cursor' = cursor /\ sweep' = sweep /\ held' = held /\ replays' = replays /\ tokens' = tokens
        /\ lastId' = lastId /\ usage' = usage /\ version' = version /\ stored' = stored /\ wire' = wire
    BY <2>1 DEF sourceVars, receiverVars
  <2>6. Onward
    <3>1. Behind(cursor, cursor')
      BY <2>4, <2>5, BehindFacts
    <3>2. \A s \in Stream : pending[s] = None
      BY <2>1
    <3>3. QED BY <2>4, <2>5, <3>1, <3>2 DEF Onward, Stream
  <2>7. GoodPage(p)'
    <3>1. Behind(p.expected, cursor)
      BY <2>1, <2>4, BehindFacts
    <3>2. QED BY <1>3, <2>3, <2>6, <3>1, GoodPageKept DEF PushInv
  <2>8. ProcsOK'
    <3>1. CASE proc' = [proc EXCEPT ![r] = Idle]
      <4>1. PICK x : x = Idle
        OBVIOUS
      <4>2. ProcOK(x)
        BY <4>1, IdleOK DEF PushInv
      <4>3. ProcOK(x)'
        BY <2>3, <2>6, <4>2, ProcKept DEF PushInv
      <4>4. QED BY <2>3, <2>6, <3>1, <4>1, <4>3, ProcsStep DEF PushInv
    <3>2. CASE proc' = [proc EXCEPT ![r] = Sending(r, p)]
      <4>1. PICK x : x = Sending(r, p)
        OBVIOUS
      <4>2. x = [q EXCEPT !.pc = "send", !.page = p, !.index = 1, !.attempt = 1]
        BY <1>1, <4>1 DEF Sending
      <4>3. x = [pc |-> "send", phase |-> q.phase, state |-> q.state, page |-> p, index |-> 1,
                 attempt |-> 1, left |-> q.left]
        BY <1>3, <4>2 DEF IsProc
      <4>4. Chunks(p) \in Nat /\ 1 <= Chunks(p)
        BY <1>3, PageChunks
      <4>5. StoredUpTo(p, 1)'
        BY <4>4 DEF StoredUpTo
      <4>6. IsProc(x)'
        BY <1>3, <2>5, <4>3, ReporterLimits DEF IsProc, PC, Behind
      <4>7. Sends(x)'
        BY <1>3, <2>2, <4>3, <4>4, <4>5 DEF Sends
      <4>8. ProcOK(x)'
        BY <4>3, <4>6, <4>7 DEF ProcOK, Drafts, Advances
      <4>9. QED BY <2>3, <2>6, <3>2, <4>1, <4>8, ProcsStep DEF PushInv
    <3>3. QED BY <2>1, <3>1, <3>2 DEF SendOutbox, Goes, Fails
  <2>9. OutboxOK'
    <3>1. p.kind = "token" => NotOlder(p)'
      <4>1. p.kind = "token" => NotOlder(p)
        BY <1>3, <2>1
      <4>2. QED BY <2>5, <4>1 DEF NotOlder
    <3>2. ASSUME NEW s \in Stream, NEW t \in {pending'[s]}, t # None
          PROVE  /\ GoodPage(t)' /\ t.kind = s /\ t.expected = cursor'
                 /\ s = "token" => NotOlder(t)'
      <4>1. s = p.kind /\ t = p
        BY <2>2, <3>2
      <4>2. QED BY <2>1, <2>5, <2>7, <3>1, <4>1
    <3>3. OneOutbox'
      BY <2>2 DEF OneOutbox, Stream
    <3>4. QED BY <3>2, <3>3 DEF OutboxOK, PendingOK
  <2>10. ASSUME NEW z, z.kind \in Stream PROVE ~ InTurn(z)
    BY <2>1, <2>10 DEF InTurn
  <2>11. WireOK'
    BY <2>5, <2>10 DEF PushInv, WireOK
  <2>12. ReplaysOK'
    BY <2>5, <2>10 DEF PushInv, ReplaysOK, Stream
  <2>13. StoredOnce' /\ HeldOK' /\ SweepOK' /\ BehindCursorStored'
    BY <2>5 DEF PushInv, StoredOnce, Carried, HeldOK, SweepOK, BehindCursorStored
  <2>14. QED BY <2>3, <2>8, <2>9, <2>11, <2>12, <2>13 DEF PushInv
<1>6. QED BY <1>4, <1>5

LEMMA RequestRows ==
  ASSUME NEW p, NEW n
  PROVE  LET z == Request(p, n)
         IN /\ z.kind = p.kind /\ z.index = n
            /\ DOMAIN z.rows = ChunkKeys(p, n) /\ ChunkKeys(p, n) \subseteq DOMAIN p.rows
            /\ \A x \in ChunkKeys(p, n) : z.rows[x] = p.rows[x]
  BY DEF Request, ChunkKeys

\* Everything of a page is stored when its requests are.
LEMMA RowStored ==
  ASSUME NEW p, GoodPage(p), AllStored(p), NEW x \in DOMAIN p.rows
  PROVE  \E z \in replays : z.kind = p.kind /\ x \in DOMAIN z.rows /\ z.rows[x] = p.rows[x]
<1>1. PICK n \in 1..Chunks(p) : x \in ChunkKeys(p, n)
  BY PageChunks
<1>2. Request(p, n) \in replays
  BY DEF AllStored
<1>3. QED BY <1>1, <1>2, RequestRows

\* A page that is committed: it waits in the outbox, at the cursor, and all of
\* it is stored.
LEMMA CommitFacts ==
  ASSUME PushInv, NEW r \in Reporter, NEW p, p = proc[r].page, proc[r].pc = "commit",
         pending[p.kind] = p, cursor = p.expected
  PROVE  /\ p # None /\ p.kind \in Stream /\ GoodPage(p) /\ AllStored(p)
         /\ \A s \in Stream : s # p.kind => pending[s] = None
         /\ p.next \in Cursor /\ p.next.usage <= lastId /\ p.next.gen = cursor.gen
         /\ Behind(cursor, p.next) /\ ~ Behind(p.next, cursor)
         /\ p.kind = "usage" => p.next.after = cursor.after
         /\ p.kind = "token" => p.next.usage = cursor.usage
<1>1. PICK q : q = proc[r]
  OBVIOUS
<1>2. Sends(q) /\ q.pc = "commit" /\ q.page = p
  BY <1>1, OneProc DEF ProcOK
<1>3. p # None /\ p.kind \in Stream /\ AllStored(p)
  BY <1>2 DEF Sends
<1>4. GoodPage(p)
  BY <1>3 DEF PushInv, OutboxOK, PendingOK
<1>5. \A s \in Stream : s # p.kind => pending[s] = None
  BY <1>3 DEF PushInv, OutboxOK, OneOutbox, Stream
<1>6. /\ cursor \in Cursor /\ p.next \in Cursor /\ p.expected \in Cursor /\ cursor.usage <= lastId
      /\ lastId \in Nat
  BY <1>4, ReporterBounds DEF GoodPage, PushInv, SourceOK
<1>7. CASE p.kind = "usage"
  <2>1. GoodUsage(p)
    BY <1>4, <1>7 DEF GoodPage
  <2>2. p.next.gen = cursor.gen /\ p.next.after = cursor.after /\ p.next.usage <= lastId
    BY <1>6, <2>1 DEF GoodUsage, Cursor
  <2>3. PICK i \in DOMAIN p.rows : TRUE
    BY <1>4 DEF GoodPage
  <2>4. cursor.usage < p.next.usage
    <3>1. i \in Nat /\ cursor.usage < i /\ i <= p.next.usage
      BY <2>1, <2>3 DEF GoodUsage, Id
    <3>2. QED BY <1>6, <3>1, ReporterBounds DEF Cursor
  <2>5. Behind(cursor, p.next) /\ ~ Behind(p.next, cursor)
    BY <1>6, <2>2, <2>4, ReporterLimits, ReporterBounds DEF Behind, Cursor
  <2>6. QED BY <1>3, <1>4, <1>5, <1>6, <1>7, <2>2, <2>5
<1>8. CASE p.kind = "token"
  <2>1. GoodToken(p)
    BY <1>4, <1>8 DEF GoodPage
  <2>2. p.next.gen = cursor.gen /\ p.next.usage = cursor.usage /\ p.next.usage <= lastId
    BY <1>6, <2>1 DEF GoodToken, Cursor
  <2>3. PICK k \in DOMAIN p.rows : TRUE
    BY <1>4 DEF GoodPage
  <2>4. cursor.after < p.next.after
    <3>1. k \in Nat /\ cursor.after < k /\ k <= p.next.after
      BY <2>1, <2>3 DEF GoodToken, Key
    <3>2. QED BY <1>6, <3>1, ReporterLimits DEF Cursor
  <2>5. Behind(cursor, p.next) /\ ~ Behind(p.next, cursor)
    BY <1>6, <2>2, <2>4, ReporterLimits, ReporterBounds DEF Behind, Cursor
  <2>6. QED BY <1>3, <1>4, <1>5, <1>6, <1>8, <2>2, <2>5
<1>9. QED BY <1>3, <1>7, <1>8 DEF Stream

LEMMA CommitStep ==
  ASSUME PushInv, NEW r \in Reporter, Commit(r)
  PROVE  PushInv'
<1>1. PICK q : q = proc[r]
  OBVIOUS
<1>2. PICK p : p = q.page
  OBVIOUS
<1>3. ProcOK(q) /\ IsProc(q) /\ q.pc = "commit"
  BY <1>1, OneProc DEF Commit
<1>4. CASE ~ (pending[p.kind] = p /\ cursor = p.expected)
  <2>1. PICK x : x = Idle
    OBVIOUS
  <2>2. ProcOK(x)
    BY <2>1, IdleOK DEF PushInv
  <2>3. proc' = [proc EXCEPT ![r] = x] /\ UNCHANGED <<sourceVars, outboxVars, version, receiverVars>> /\ wire' = wire
    BY <1>1, <1>2, <1>4, <2>1 DEF Commit, Fails, Goes, outboxVars
  <2>4. QED BY <2>2, <2>3, QuietStep
<1>5. CASE pending[p.kind] = p /\ cursor = p.expected
  <2>1. /\ cursor' = p.next /\ pending' = [pending EXCEPT ![p.kind] = None]
        /\ UNCHANGED <<sourceVars, sweep, version, wire, receiverVars>>
        /\ Goes(r, IF Draining(r) \/ q.left = 1 THEN NextPart(r, p.next)
                   ELSE [Idle EXCEPT !.pc = "pending", !.phase = q.phase,
                                     !.state = p.next, !.left = q.left - 1])
    BY <1>1, <1>2, <1>5 DEF Commit
  <2>2. /\ p # None /\ p.kind \in Stream /\ GoodPage(p) /\ AllStored(p)
        /\ \A s \in Stream : s # p.kind => pending[s] = None
        /\ p.next \in Cursor /\ p.next.usage <= lastId /\ p.next.gen = cursor.gen
        /\ Behind(cursor, p.next) /\ ~ Behind(p.next, cursor)
        /\ p.kind = "usage" => p.next.after = cursor.after
        /\ p.kind = "token" => p.next.usage = cursor.usage
    BY <1>1, <1>2, <1>3, <1>5, CommitFacts
  <2>3. \A s \in Stream : pending'[s] = None
    BY <2>1, <2>2 DEF PushInv, SourceOK
  <2>4. /\ sweep' = sweep /\ held' = held /\ replays' = replays /\ tokens' = tokens
        /\ lastId' = lastId /\ usage' = usage /\ version' = version /\ stored' = stored /\ wire' = wire
    BY <2>1 DEF sourceVars, receiverVars
  <2>5. /\ lastId \in Nat /\ version \in Nat /\ cursor \in Cursor /\ \A k \in Key : tokens[k] \in Nat
        /\ usage \subseteq 1..lastId /\ lastId <= MaxUsage
    BY ReporterBounds DEF PushInv, SourceOK
  <2>6. SourceOK'
    <3>1. pending' \in [Stream -> {pending'["usage"], pending'["token"]}]
      BY <2>1 DEF PushInv, SourceOK, Stream
    <3>2. QED BY <2>1, <2>2, <2>4, <3>1 DEF PushInv, SourceOK
  <2>7. Onward
    <3>1. ASSUME NEW s \in Stream, pending[s] # None PROVE pending'[s] = pending[s] \/ AllStored(pending[s])
      BY <1>5, <2>2, <3>1
    <3>2. cursor' # cursor
      <4>1. Behind(cursor, cursor)
        BY <2>5, BehindFacts
      <4>2. QED BY <2>1, <2>2, <4>1
    <3>3. QED BY <2>1, <2>2, <2>4, <2>5, <3>1, <3>2 DEF Onward
  <2>8. ProcsOK'
    <3>1. PICK x : x = IF Draining(r) \/ q.left = 1 THEN NextPart(r, p.next)
                       ELSE [Idle EXCEPT !.pc = "pending", !.phase = q.phase,
                                         !.state = p.next, !.left = q.left - 1]
      OBVIOUS
    <3>2. /\ q.phase \in 1..5 /\ q.left \in 0..MaxPages
          /\ q.phase > 3 => q.left > 0
          /\ Draining(r) = (q.phase < 4) /\ q = proc[r]
      BY <1>1, <1>3, OneProc DEF IsProc
    <3>3. Behind(p.next, p.next)
      BY <2>2, <2>5, BehindFacts
    <3>4. CASE x = Idle
      <4>1. ProcOK(x)
        BY <3>4, IdleOK DEF PushInv
      <4>2. QED BY <2>1, <2>6, <2>7, <3>1, <4>1, ProcKept, ProcsStep DEF PushInv, Goes
    <3>5. CASE x # Idle
      <4>1. x.pc = "pending" /\ IsProc(x)'
        <5>1. CASE Draining(r) \/ q.left = 1
          <6>1. x = [pc |-> "pending", phase |-> q.phase + 1, state |-> p.next, page |-> None, index |-> 0,
                     attempt |-> 0, left |-> IF q.phase < 3 THEN 0 ELSE MaxPages] /\ q.phase \in 1..4
            <7>1. q.phase # 5
              BY <3>1, <3>2, <3>5, <5>1 DEF NextPart
            <7>2. x = [Idle EXCEPT !.pc = "pending", !.phase = q.phase + 1, !.state = p.next,
                                   !.left = IF q.phase < 3 THEN 0 ELSE MaxPages]
              BY <3>1, <3>2, <5>1, <7>1 DEF NextPart
            <7>3. q.phase \in 1..4
              BY <3>2, <7>1
            <7>4. QED BY <7>2, <7>3 DEF Idle
          <6>2. QED BY <2>1, <2>2, <3>3, <6>1, ReporterLimits DEF IsProc, PC, Behind
        <5>2. CASE ~ (Draining(r) \/ q.left = 1)
          <6>1. x = [pc |-> "pending", phase |-> q.phase, state |-> p.next, page |-> None, index |-> 0,
                     attempt |-> 0, left |-> q.left - 1] /\ q.left - 1 \in 1..MaxPages
            <7>1. q.left - 1 \in 1..MaxPages
              <8>0. ~ (q.phase < 4)
                BY <3>2, <5>2, Zenon
              <8>1. q.left > 0 /\ q.left # 1
                BY <3>2, <5>2, <8>0
              <8>2. QED BY <3>2, <8>1, ReporterLimits
            <7>2. x = [Idle EXCEPT !.pc = "pending", !.phase = q.phase, !.state = p.next,
                                   !.left = q.left - 1]
              BY <3>1, <5>2
            <7>3. QED BY <7>1, <7>2 DEF Idle
          <6>2. x.left \in 0..MaxPages /\ x.left > 0 /\ x.phase \in 1..5 /\ x.attempt \in 0..MaxAttempts
            BY <3>2, <6>1, ReporterLimits
          <6>3. QED BY <2>1, <2>2, <3>3, <6>1, <6>2 DEF IsProc, PC, Behind
        <5>3. QED BY <5>1, <5>2
      <4>2. ProcOK(x)'
        BY <4>1 DEF ProcOK, Drafts, Sends, Advances
      <4>3. QED BY <2>1, <2>6, <2>7, <3>1, <4>2, ProcsStep DEF PushInv, Goes
    <3>6. QED BY <3>4, <3>5
  <2>9. OutboxOK'
    BY <2>3 DEF OutboxOK, OneOutbox, PendingOK, Stream
  <2>10. ASSUME NEW z, z.kind \in Stream, InTurn(z)
         PROVE  z \in replays /\ z.kind = p.kind /\ DOMAIN z.rows \subseteq DOMAIN p.rows
    <3>1. PICK t \in {pending[z.kind]} : t # None /\ \E n \in 1..Chunks(t) : z = Request(t, n)
      BY <2>10 DEF InTurn
    <3>2. t = p /\ z.kind = p.kind
      BY <1>5, <2>2, <2>10, <3>1
    <3>3. PICK n \in 1..Chunks(p) : z = Request(p, n)
      BY <3>1, <3>2
    <3>4. QED BY <2>2, <3>2, <3>3, RequestRows DEF AllStored
  <2>11. WireOK'
    BY <2>4, <2>10 DEF PushInv, WireOK
  <2>12. ReplaysOK'
    <3>1. ASSUME NEW z \in replays, z.kind = "usage", NEW i \in DOMAIN z.rows PROVE i \in Id /\ i <= cursor'.usage
      <4>1. CASE InTurn(z)
        <5>1. i \in DOMAIN p.rows /\ p.kind = "usage"
          BY <2>10, <3>1, <4>1 DEF Stream
        <5>2. QED BY <2>1, <2>2, <5>1 DEF GoodPage, GoodUsage
      <4>2. CASE ~ InTurn(z)
        <5>1. i \in Id /\ i <= cursor.usage
          BY <3>1, <4>2 DEF PushInv, ReplaysOK
        <5>2. i \in Int /\ cursor.usage <= p.next.usage /\ cursor.usage \in Int /\ p.next.usage \in Int
          BY <2>2, <2>5, <5>1 DEF Id, Behind, Cursor
        <5>3. QED BY <2>1, <5>1, <5>2
      <4>3. QED BY <4>1, <4>2
    <3>2. QED BY <2>4, <3>1 DEF ReplaysOK
  <2>13. StoredOnce' /\ HeldOK'
    BY <2>4 DEF PushInv, StoredOnce, Carried, HeldOK
  <2>14. SweepOK'
    <3>1. ASSUME NEW k \in Key, k <= cursor'.after PROVE sweep[k] <= held[k]
      <4>1. CASE k <= cursor.after
        BY <4>1 DEF PushInv, SweepOK
      <4>2. CASE ~ (k <= cursor.after)
        <5>1. p.kind = "token"
          BY <2>1, <2>2, <3>1, <4>2 DEF Stream
        <5>2. cursor.after < k /\ sweep[k] \in Nat /\ held[k] \in Nat
          <6>1. cursor.after \in Int /\ k \in Int
            BY <2>5 DEF Cursor, Key
          <6>2. cursor.after < k
            BY <4>2, <6>1
          <6>3. QED BY <6>2 DEF PushInv, SweepOK, HeldOK
        <5>3. CASE sweep[k] > 0
          <6>1. k \in DOMAIN p.rows /\ sweep[k] <= p.rows[k] /\ p.rows[k] \in Nat
            BY <1>5, <2>1, <2>2, <3>1, <5>1, <5>2, <5>3 DEF GoodPage, GoodToken
          <6>2. PICK z \in replays : z.kind = "token" /\ k \in DOMAIN z.rows /\ z.rows[k] = p.rows[k]
            BY <2>2, <5>1, <6>1, RowStored
          <6>3. p.rows[k] <= held[k]
            BY <6>2 DEF PushInv, HeldOK
          <6>4. QED BY <5>2, <6>1, <6>3
        <5>4. QED BY <5>2, <5>3
      <4>3. QED BY <4>1, <4>2
    <3>2. QED BY <2>4, <3>1 DEF PushInv, SweepOK
  <2>15. BehindCursorStored'
    <3>1. ASSUME NEW i \in usage, i <= cursor'.usage PROVE stored[i] = 1
      <4>1. CASE i <= cursor.usage
        BY <4>1 DEF PushInv, BehindCursorStored
      <4>2. CASE ~ (i <= cursor.usage)
        <5>1. p.kind = "usage"
          BY <2>1, <2>2, <3>1, <4>2 DEF Stream
        <5>2. cursor.usage < i /\ i \in Id
          BY <2>5, <4>2, ReporterBounds DEF Cursor, Id
        <5>3. i \in DOMAIN p.rows
          BY <1>5, <2>1, <2>2, <3>1, <5>1, <5>2 DEF GoodPage, GoodUsage
        <5>4. Carried(i)
          BY <2>2, <5>1, <5>3, RowStored DEF Carried
        <5>5. QED BY <5>2, <5>4 DEF PushInv, StoredOnce
      <4>3. QED BY <4>1, <4>2
    <3>2. QED BY <2>4, <3>1 DEF BehindCursorStored
  <2>16. QED BY <2>6, <2>8, <2>9, <2>11, <2>12, <2>13, <2>14, <2>15 DEF PushInv
<1>6. QED BY <1>4, <1>5

\* A generation ends when no row behind the cursor was there at its start.
LEMMA AdvanceFacts ==
  ASSUME PushInv, NEW r \in Reporter, Advance(r), cursor' # cursor \/ sweep' # sweep
  PROVE  /\ cursor' = [cursor EXCEPT !.after = 0, !.gen = cursor.gen + 1] /\ sweep' = tokens
         /\ cursor.after > 0 /\ cursor.gen < MaxGen
         /\ \A k \in Key : sweep[k] <= held[k]
<1>1. PICK q : q = proc[r]
  OBVIOUS
<1>2. /\ Advances(q) /\ q.pc = "advance" /\ q.state.gen < MaxGen /\ cursor = q.state
      /\ cursor' = [cursor EXCEPT !.after = 0, !.gen = cursor.gen + 1] /\ sweep' = tokens
  BY <1>1, OneProc DEF ProcOK, Advance
<1>3. cursor.after > 0 /\ \A k \in Key : k > cursor.after => sweep[k] = 0
  BY <1>2 DEF Advances
<1>4. ASSUME NEW k \in Key PROVE sweep[k] <= held[k]
  <2>1. k \in Nat /\ cursor.after \in Nat /\ sweep[k] \in Nat /\ held[k] \in Nat
    BY DEF Key, Cursor, PushInv, SourceOK, SweepOK, HeldOK
  <2>2. CASE k <= cursor.after
    BY <2>2 DEF PushInv, SweepOK
  <2>3. CASE k > cursor.after
    BY <1>3, <2>1, <2>3
  <2>4. QED BY <2>1, <2>2, <2>3
<1>5. QED BY <1>2, <1>3, <1>4

LEMMA AdvanceStep ==
  ASSUME PushInv, NEW r \in Reporter, Advance(r)
  PROVE  PushInv'
<1>1. PICK x : x = Idle
  OBVIOUS
<1>2. ProcOK(x) /\ proc' = [proc EXCEPT ![r] = x]
  BY <1>1, IdleOK DEF PushInv, Advance, Goes
<1>3. UNCHANGED <<sourceVars, pending, version, wire, receiverVars>>
  BY DEF Advance
<1>4. CASE cursor' = cursor /\ sweep' = sweep
  BY <1>2, <1>3, <1>4, QuietStep DEF outboxVars
<1>5. CASE cursor' # cursor \/ sweep' # sweep
  <2>1. /\ cursor' = [cursor EXCEPT !.after = 0, !.gen = cursor.gen + 1] /\ sweep' = tokens
        /\ cursor.after > 0 /\ cursor.gen < MaxGen
    BY <1>5, AdvanceFacts
  <2>2. /\ lastId \in Nat /\ version \in Nat /\ cursor \in Cursor /\ cursor.usage <= lastId
        /\ \A k \in Key : tokens[k] \in Nat
    BY ReporterBounds DEF PushInv, SourceOK
  <2>3. /\ cursor' \in Cursor /\ cursor'.usage = cursor.usage /\ cursor'.after = 0
        /\ cursor'.gen = cursor.gen + 1 /\ cursor.gen \in Nat /\ cursor.usage \in Nat
    <3>1. /\ cursor.gen \in Nat /\ cursor.usage \in 0..MaxUsage /\ cursor.usage \in Nat
          /\ cursor = [usage |-> cursor.usage, after |-> cursor.after, gen |-> cursor.gen]
      BY <2>2, ReporterBounds DEF Cursor
    <3>2. cursor.gen + 1 \in 0..MaxGen /\ 0 \in 0..NumKey
      BY <2>1, <3>1, ReporterLimits, ReporterBounds
    <3>3. cursor' = [usage |-> cursor.usage, after |-> 0, gen |-> cursor.gen + 1]
      BY <2>1, <3>1
    <3>4. QED BY <3>1, <3>2, <3>3 DEF Cursor
  <2>4. /\ held' = held /\ replays' = replays /\ tokens' = tokens /\ pending' = pending
        /\ lastId' = lastId /\ usage' = usage /\ version' = version /\ stored' = stored /\ wire' = wire
    BY <1>3 DEF sourceVars, receiverVars
  <2>5. SourceOK'
    BY <2>2, <2>3, <2>4 DEF PushInv, SourceOK
  <2>6. Onward
    BY <2>2, <2>3, <2>4 DEF Onward, Behind
  <2>7. ProcsOK'
    BY <1>2, <2>5, <2>6, ProcKept, ProcsStep DEF PushInv
  <2>8. OutboxOK'
    <3>1. OneOutbox'
      BY <2>4 DEF PushInv, OutboxOK, OneOutbox
    <3>2. ASSUME NEW s \in Stream, NEW p \in {pending'[s]}, p # None
          PROVE  /\ GoodPage(p)' /\ p.kind = s
                 /\ p.expected.gen < cursor'.gen /\ p.expected.usage = cursor'.usage /\ cursor'.after = 0
                 /\ s = "token" => NotOlder(p)'
      <4>1. /\ GoodPage(p) /\ p.kind = s /\ p.expected = cursor
            /\ s = "token" => NotOlder(p)
        <5>1. p \in {pending[s]} /\ cursor.after # 0
          BY <2>1, <2>4
        <5>2. QED BY <3>2, <5>1 DEF PushInv, OutboxOK, PendingOK
      <4>2. GoodPage(p)'
        <5>1. Behind(p.expected, cursor)
          BY <2>2, <4>1, BehindFacts
        <5>2. QED BY <2>5, <2>6, <4>1, <5>1, GoodPageKept DEF PushInv
      <4>3. NotOlder(p) => NotOlder(p)'
        BY <2>4 DEF NotOlder
      <4>4. QED BY <2>3, <4>1, <4>2, <4>3
    <3>3. QED BY <3>1, <3>2 DEF OutboxOK, PendingOK
  <2>9. WireOK'
    BY <2>4, WireKept
  <2>10. ReplaysOK'
    <3>1. ASSUME NEW z \in replays', z.kind = "usage"
          PROVE  (\A i \in DOMAIN z.rows : i \in Id /\ i <= cursor'.usage) \/ InTurn(z)'
      <4>1. (\A i \in DOMAIN z.rows : i \in Id /\ i <= cursor.usage) \/ InTurn(z)
        BY <2>4, <3>1 DEF PushInv, ReplaysOK
      <4>2. InTurn(z) => InTurn(z)'
        BY <2>4, InTurnKept
      <4>3. QED BY <2>3, <4>1, <4>2
    <3>2. QED BY <3>1 DEF ReplaysOK
  <2>11. StoredOnce' /\ HeldOK'
    BY <2>4 DEF PushInv, StoredOnce, Carried, HeldOK
  <2>12. SweepOK'
    <3>1. tokens \in [Key -> Nat]
      BY ReporterBounds DEF PushInv, SourceOK
    <3>2. \A k \in Key : ~ (k <= 0)
      BY DEF Key
    <3>3. QED BY <2>1, <2>3, <2>4, <3>1, <3>2 DEF SweepOK
  <2>13. BehindCursorStored'
    BY <2>3, <2>4 DEF PushInv, BehindCursorStored
  <2>14. QED BY <2>5, <2>7, <2>8, <2>9, <2>10, <2>11, <2>12, <2>13 DEF PushInv
<1>6. QED BY <1>4, <1>5

------------------------------------------------------------------------------
(* The receiver stores a request.                                          *)

\* A request that is stored is one of the page in the outbox: its snapshots
\* are new, and its token rows are not older than the receiver's.
LEMMA StoreFacts ==
  ASSUME PushInv, NEW m \in wire, Store(m), NEW q, q = m.body, q.kind \in Stream
  PROVE  \E p \in {pending[q.kind]}, n \in Int :
           /\ p # None /\ GoodPage(p) /\ p.kind = q.kind
           /\ n \in 1..Chunks(p) /\ q = Request(p, n) /\ StoredUpTo(p, n) /\ q \notin replays
           /\ DOMAIN q.rows = ChunkKeys(p, n) /\ ChunkKeys(p, n) \subseteq DOMAIN p.rows
           /\ \A x \in DOMAIN q.rows : q.rows[x] = p.rows[x]
           /\ p.expected.usage = cursor.usage
           /\ q.kind = "token" => NotOlder(p)
<1>1. q \notin replays
  BY DEF Store, Known
<1>2. InTurn(q)
  BY <1>1 DEF PushInv, WireOK
<1>3. PICK p \in {pending[q.kind]} : p # None /\ \E n \in 1..Chunks(p) : q = Request(p, n) /\ StoredUpTo(p, n)
  BY <1>2 DEF InTurn
<1>4. PICK n \in 1..Chunks(p) : q = Request(p, n) /\ StoredUpTo(p, n)
  BY <1>3
<1>5. /\ GoodPage(p) /\ p.kind = q.kind /\ p.expected.usage = cursor.usage
      /\ q.kind = "token" => NotOlder(p)
  BY <1>3 DEF PushInv, OutboxOK, PendingOK
<1>6. /\ DOMAIN q.rows = ChunkKeys(p, n) /\ ChunkKeys(p, n) \subseteq DOMAIN p.rows
      /\ \A x \in DOMAIN q.rows : q.rows[x] = p.rows[x]
  BY <1>4, RequestRows
<1>7. n \in Int
  OBVIOUS
<1>8. QED BY <1>1, <1>3, <1>4, <1>5, <1>6, <1>7

\* The receiver's token rows are replaced by newer ones.
LEMMA StoreHeld ==
  ASSUME PushInv, NEW m \in wire, Store(m)
  PROVE  /\ held' \in [Key -> Nat]
         /\ \A k \in Key : held[k] <= held'[k] /\ held'[k] <= tokens[k]
         /\ \A k \in Key : m.body.kind = "token" /\ k \in DOMAIN m.body.rows => held'[k] = m.body.rows[k]
         /\ m.body.kind # "token" => held' = held
         /\ \A p \in {pending["token"]} : p # None /\ NotOlder(p) =>
              \A k \in DOMAIN p.rows : held'[k] <= p.rows[k]
<1>1. PICK q : q = m.body
  OBVIOUS
<1>2. held' = [k \in Key |-> IF q.kind = "token" /\ k \in DOMAIN q.rows THEN q.rows[k] ELSE held[k]]
  BY <1>1 DEF Store
<1>3. held \in [Key -> Nat] /\ \A k \in Key : held[k] <= tokens[k] /\ tokens[k] \in Nat
  BY ReporterBounds DEF PushInv, HeldOK, SourceOK
<1>4. CASE q.kind # "token"
  <2>1. held' = held
    BY <1>2, <1>3, <1>4
  <2>2. QED BY <1>1, <1>3, <1>4, <2>1 DEF NotOlder
<1>5. CASE q.kind = "token"
  <2>1. PICK p \in {pending["token"]}, n \in Int :
           /\ p # None /\ GoodPage(p) /\ p.kind = "token"
           /\ DOMAIN q.rows = ChunkKeys(p, n) /\ ChunkKeys(p, n) \subseteq DOMAIN p.rows
           /\ \A x \in DOMAIN q.rows : q.rows[x] = p.rows[x]
           /\ NotOlder(p)
    BY <1>1, <1>5, StoreFacts DEF Stream
  <2>2. GoodToken(p)
    BY <2>1 DEF GoodPage
  <2>3. ASSUME NEW k \in Key, k \in DOMAIN q.rows
        PROVE  held'[k] = p.rows[k] /\ held'[k] = q.rows[k] /\ held'[k] \in Nat /\ held[k] <= held'[k] /\ held'[k] <= tokens[k]
    <3>1. held'[k] = q.rows[k] /\ q.rows[k] = p.rows[k] /\ k \in DOMAIN p.rows
      BY <1>2, <1>5, <2>1, <2>3
    <3>2. held[k] <= p.rows[k] /\ p.rows[k] \in Nat /\ p.rows[k] <= tokens[k]
      BY <2>1, <2>2, <3>1 DEF NotOlder, GoodToken
    <3>3. QED BY <3>1, <3>2
  <2>4. ASSUME NEW k \in Key, k \notin DOMAIN q.rows
        PROVE  held'[k] = held[k]
    BY <1>2, <2>4
  <2>5. held' \in [Key -> Nat] /\ \A k \in Key : held[k] <= held'[k] /\ held'[k] <= tokens[k]
    <3>1. ASSUME NEW k \in Key PROVE held'[k] \in Nat /\ held[k] <= held'[k] /\ held'[k] <= tokens[k]
      BY <1>3, <2>3, <2>4
    <3>2. held' = [k \in Key |-> held'[k]]
      BY <1>2
    <3>3. QED BY <3>1, <3>2
  <2>6. ASSUME NEW k \in DOMAIN p.rows PROVE held'[k] <= p.rows[k]
    <3>1. k \in Key /\ held[k] <= p.rows[k] /\ p.rows[k] \in Nat
      BY <2>1, <2>2 DEF NotOlder, GoodToken
    <3>2. QED BY <2>3, <2>4, <3>1
  <2>7. QED BY <1>1, <1>5, <2>3, <2>5, <2>6
<1>6. QED BY <1>4, <1>5

\* A snapshot that a request adds was never stored.
LEMMA StoreIsNew ==
  ASSUME PushInv, NEW m \in wire, Store(m), m.body.kind = "usage", NEW i \in DOMAIN m.body.rows
  PROVE  i \in Id /\ ~ Carried(i) /\ cursor.usage < i /\ i <= lastId
<1>1. PICK q : q = m.body
  OBVIOUS
<1>2. PICK p \in {pending[q.kind]}, n \in Int :
         /\ p # None /\ GoodPage(p) /\ p.kind = q.kind
         /\ n \in 1..Chunks(p) /\ q = Request(p, n) /\ q \notin replays
         /\ DOMAIN q.rows = ChunkKeys(p, n) /\ ChunkKeys(p, n) \subseteq DOMAIN p.rows
         /\ p.expected.usage = cursor.usage
  BY <1>1, StoreFacts DEF Stream
<1>3. GoodUsage(p) /\ p.next.usage \in Nat /\ lastId \in Nat /\ cursor.usage \in Nat
  BY <1>1, <1>2, ReporterBounds DEF GoodPage, Cursor, PushInv, SourceOK
<1>4. i \in Id /\ cursor.usage < i /\ i <= lastId
  <2>1. i \in DOMAIN p.rows
    BY <1>1, <1>2
  <2>2. i \in Id /\ cursor.usage < i /\ i <= p.next.usage /\ p.next.usage <= lastId
    BY <1>2, <1>3, <2>1 DEF GoodUsage
  <2>3. i \in Int
    BY <2>2 DEF Id
  <2>4. QED BY <1>3, <2>2, <2>3
<1>5. ASSUME NEW z \in replays, z.kind = "usage", i \in DOMAIN z.rows PROVE FALSE
  <2>1. (i <= cursor.usage) \/ InTurn(z)
    BY <1>5 DEF PushInv, ReplaysOK
  <2>2. ~ (i <= cursor.usage)
    BY <1>3, <1>4 DEF Id
  <2>3. PICK n2 \in 1..Chunks(p) : z = Request(p, n2)
    BY <1>1, <1>2, <1>5, <2>1, <2>2 DEF InTurn
  <2>4. DOMAIN z.rows = ChunkKeys(p, n2)
    BY <2>3, RequestRows
  <2>5. i \in ChunkKeys(p, n) /\ i \in ChunkKeys(p, n2)
    BY <1>1, <1>2, <1>5, <2>4
  <2>6. n2 \in Int /\ n \in Int /\ n # n2
    BY <1>2, <2>3
  <2>7. i < i
    <3>1. n < n2 \/ n2 < n
      BY <2>6
    <3>2. QED BY <1>2, <2>5, <2>6, <3>1, PageChunks
  <2>8. QED BY <1>4, <2>7 DEF Id
<1>6. QED BY <1>4, <1>5 DEF Carried

LEMMA StoreStep ==
  ASSUME PushInv, NEW m \in wire, Store(m), wire' = wire \ {m},
         UNCHANGED <<sourceVars, outboxVars, version>>
  PROVE  PushInv'
<1>1. PICK q : q = m.body
  OBVIOUS
<1>2. /\ q \notin replays /\ replays' = replays \cup {q}
      /\ stored' = [i \in Id |-> stored[i] + (IF q.kind = "usage" /\ i \in DOMAIN q.rows THEN 1 ELSE 0)]
  BY <1>1 DEF Store, Known
<1>3. /\ lastId' = lastId /\ usage' = usage /\ tokens' = tokens /\ version' = version
      /\ cursor' = cursor /\ pending' = pending /\ sweep' = sweep
  BY DEF sourceVars, outboxVars
<1>4. SourceOK'
  BY <1>3 DEF PushInv, SourceOK
<1>5. lastId \in Nat /\ version \in Nat /\ cursor \in Cursor /\ \A k \in Key : tokens[k] \in Nat
  BY ReporterBounds DEF PushInv, SourceOK
<1>6. Onward
  <2>1. Behind(cursor, cursor')
    BY <1>3, <1>5, BehindFacts
  <2>2. pending["token"] = None => held' = held
    <3>1. CASE q.kind = "token"
      BY <1>1, <3>1, StoreFacts DEF Stream
    <3>2. CASE q.kind # "token"
      BY <1>1, <3>2, StoreHeld
    <3>3. QED BY <3>1, <3>2
  <2>3. QED BY <1>2, <1>3, <1>5, <2>1, <2>2 DEF Onward
<1>7. ProcsOK'
  <2>1. PICK status : Hears(m, status)
    BY DEF Store
  <2>2. m.body \in replays'
    BY <1>1, <1>2
  <2>3. QED BY <1>4, <1>6, <2>1, <2>2, HearsOK
<1>8. OutboxOK'
  <2>1. ASSUME NEW p \in {pending["token"]}, p # None, NotOlder(p) PROVE NotOlder(p)'
    BY <2>1, StoreHeld DEF NotOlder
  <2>2. UNCHANGED outboxVars
    OBVIOUS
  <2>3. QED BY <1>4, <1>6, <2>1, <2>2, OutboxKept
<1>9. WireOK'
  BY <1>2, <1>3, WireKept
<1>10. ReplaysOK'
  <2>1. ASSUME NEW z \in replays', z.kind = "usage"
        PROVE  (\A i \in DOMAIN z.rows : i \in Id /\ i <= cursor'.usage) \/ InTurn(z)'
    <3>1. InTurn(z) => InTurn(z)'
      BY <1>2, <1>3, InTurnKept
    <3>2. CASE z \in replays
      BY <1>3, <2>1, <3>1, <3>2 DEF PushInv, ReplaysOK
    <3>3. CASE z = q
      BY <1>1, <1>2, <2>1, <3>1, <3>3 DEF PushInv, WireOK, Stream
    <3>4. QED BY <1>2, <3>2, <3>3
  <2>2. QED BY <2>1 DEF ReplaysOK
<1>11. StoredOnce'
  <2>1. ASSUME NEW i \in Id PROVE stored'[i] \in {0, 1} /\ (stored'[i] = 1 <=> Carried(i)')
    <3>1. stored[i] \in {0, 1} /\ (stored[i] = 1 <=> Carried(i))
      BY DEF PushInv, StoredOnce
    <3>2. CASE q.kind = "usage" /\ i \in DOMAIN q.rows
      <4>1. stored[i] = 0
        BY <1>1, <3>1, <3>2, StoreIsNew
      <4>2. stored'[i] = 1
        BY <1>2, <3>2, <4>1
      <4>3. Carried(i)'
        BY <1>2, <3>2 DEF Carried
      <4>4. QED BY <4>2, <4>3
    <3>3. CASE ~ (q.kind = "usage" /\ i \in DOMAIN q.rows)
      <4>1. stored'[i] = stored[i]
        BY <1>2, <3>1, <3>3
      <4>2. Carried(i)' <=> Carried(i)
        BY <1>2, <3>3 DEF Carried
      <4>3. QED BY <3>1, <4>1, <4>2
    <3>4. QED BY <3>2, <3>3
  <2>2. stored' = [i \in Id |-> stored'[i]]
    BY <1>2
  <2>3. QED BY <2>1, <2>2 DEF StoredOnce
<1>12. HeldOK'
  <2>1. /\ held' \in [Key -> Nat] /\ \A k \in Key : held[k] <= held'[k] /\ held'[k] <= tokens[k]
        /\ \A k \in Key : q.kind = "token" /\ k \in DOMAIN q.rows => held'[k] = q.rows[k]
    BY <1>1, StoreHeld
  <2>2. ASSUME NEW z \in replays', z.kind = "token", NEW k \in DOMAIN z.rows, k \in Key
        PROVE  z.rows[k] \in 0..held'[k]
    <3>1. CASE z = q
      BY <2>1, <2>2, <3>1
    <3>2. CASE z \in replays
      <4>1. z.rows[k] \in 0..held[k] /\ held[k] \in Nat /\ held'[k] \in Nat /\ held[k] <= held'[k]
        BY <2>1, <2>2, <3>2 DEF PushInv, HeldOK
      <4>2. QED BY <4>1
    <3>3. QED BY <1>2, <3>1, <3>2
  <2>3. QED BY <1>3, <2>1, <2>2 DEF HeldOK
<1>13. SweepOK'
  <2>1. /\ SweepOK /\ held \in [Key -> Nat] /\ held' \in [Key -> Nat]
        /\ \A k \in Key : held[k] <= held'[k]
    BY StoreHeld DEF PushInv, HeldOK
  <2>2. ASSUME NEW k \in Key, k <= cursor.after PROVE sweep[k] <= held'[k]
    <3>1. sweep[k] <= held[k] /\ sweep[k] \in Nat /\ held[k] \in Nat /\ held'[k] \in Nat /\ held[k] <= held'[k]
      BY <2>1, <2>2 DEF SweepOK
    <3>2. QED BY <3>1
  <2>3. QED BY <1>3, <2>1, <2>2 DEF SweepOK
<1>14. BehindCursorStored'
  <2>1. ASSUME NEW i \in usage, i <= cursor.usage PROVE stored'[i] = 1
    <3>1. i \in Id
      <4>1. usage \subseteq 1..lastId /\ lastId \in 0..MaxUsage
        BY DEF PushInv, SourceOK
      <4>2. QED BY <4>1, ReporterBounds DEF Id
    <3>2. Carried(i)
      BY <2>1, <3>1 DEF PushInv, BehindCursorStored, StoredOnce
    <3>3. Carried(i)'
      BY <1>2, <3>2 DEF Carried
    <3>4. QED BY <1>11, <3>1, <3>3 DEF StoredOnce
  <2>2. QED BY <1>3, <2>1 DEF BehindCursorStored
<1>15. QED BY <1>4, <1>7, <1>8, <1>9, <1>10, <1>11, <1>12, <1>13, <1>14 DEF PushInv

------------------------------------------------------------------------------
(* The invariant holds.                                                    *)

LEMMA InitInv == Init => PushInv
<1>1. SUFFICES ASSUME Init PROVE PushInv
  OBVIOUS
<1>2. /\ usage = {} /\ lastId = 0 /\ tokens = [k \in Key |-> 0]
      /\ cursor = ZeroCursor /\ pending = [s \in Stream |-> None]
      /\ version = 0 /\ proc = [r \in Reporter |-> Idle] /\ wire = {}
      /\ stored = [i \in Id |-> 0] /\ held = [k \in Key |-> 0] /\ replays = {}
      /\ sweep = tokens
  BY <1>1 DEF Init
<1>3. SourceOK
  <2>1. ZeroCursor \in Cursor /\ ZeroCursor.usage = 0
    BY ReporterLimits, ReporterBounds DEF Cursor, ZeroCursor
  <2>2. tokens \in [Key -> 0..MaxToken]
    BY <1>2, ReporterBounds
  <2>3. pending \in [Stream -> {pending["usage"], pending["token"]}]
    BY <1>2 DEF Stream
  <2>4. QED BY <1>2, <2>1, <2>2, <2>3, ReporterBounds DEF SourceOK
<1>4. ProcsOK
  <2>1. ProcOK(Idle)
    BY <1>3, IdleOK
  <2>2. QED BY <1>2, <2>1 DEF ProcsOK
<1>5. OutboxOK
  BY <1>2 DEF OutboxOK, OneOutbox, PendingOK, Stream
<1>6. WireOK /\ ReplaysOK /\ StoredOnce
  BY <1>2 DEF WireOK, ReplaysOK, StoredOnce, Carried
<1>7. HeldOK /\ SweepOK /\ BehindCursorStored
  BY <1>2 DEF HeldOK, SweepOK, BehindCursorStored
<1>8. QED BY <1>3, <1>4, <1>5, <1>6, <1>7 DEF PushInv

LEMMA ReceiveStep ==
  ASSUME PushInv, NEW m \in wire, Receive(m)
  PROVE  PushInv'
<1>1. wire' = wire \ {m} /\ UNCHANGED <<sourceVars, outboxVars, version>>
  BY DEF Receive
<1>2. CASE Store(m)
  BY <1>1, <1>2, StoreStep
<1>3. CASE Replay(m) \/ Full(m) \/ Refuse(m)
  BY <1>1, <1>3, UnstoredStep
<1>4. QED BY <1>2, <1>3 DEF Receive

LEMMA NextInv == PushInv /\ [Next]_vars => PushInv'
<1>1. SUFFICES ASSUME PushInv, [Next]_vars PROVE PushInv'
  OBVIOUS
<1>2. CASE UNCHANGED vars
  <2>1. UNCHANGED <<lastId, outboxVars, version, proc, wire, receiverVars>> /\ usage' = usage /\ tokens' = tokens
    BY <1>2 DEF vars, sourceVars
  <2>2. tokens \in [Key -> 0..MaxToken] /\ \A k \in Key : tokens[k] <= tokens[k]
    BY <1>1, ReporterBounds DEF PushInv, SourceOK
  <2>3. QED BY <1>1, <2>1, <2>2, SourceStep
<1>3. ASSUME NEW r \in Reporter, Cycle(r) PROVE PushInv'
  <2>1. CASE Begin(r)        BY <1>1, <2>1, BeginStep
  <2>2. CASE LoadCursor(r)   BY <1>1, <2>2, LoadCursorStep
  <2>3. CASE LoadPending(r)  BY <1>1, <2>3, LoadPendingStep
  <2>4. CASE ReadUsage(r)    BY <1>1, <2>4, ReadUsageStep
  <2>5. CASE ReadTokens(r)   BY <1>1, <2>5, ReadTokensStep
  <2>6. CASE Prepare(r)      BY <1>1, <2>6, PrepareStep
  <2>7. CASE Send(r)         BY <1>1, <2>7, SendStep
  <2>8. CASE Timeout(r)      BY <1>1, <2>8, TimeoutStep
  <2>9. CASE Commit(r)       BY <1>1, <2>9, CommitStep
  <2>10. CASE Advance(r)     BY <1>1, <2>10, AdvanceStep
  <2>11. CASE Stop(r)        BY <1>1, <2>11, StopStep
  <2>12. QED BY <1>3, <2>1, <2>2, <2>3, <2>4, <2>5, <2>6, <2>7, <2>8, <2>9, <2>10, <2>11 DEF Cycle
<1>4. CASE \E m \in wire : Receive(m)
  BY <1>1, <1>4, ReceiveStep
<1>5. CASE Source
  <2>1. CASE AppendSnapshot
    BY <1>1, <2>1, AppendStep
  <2>2. ASSUME NEW k \in Key, WriteToken(k) PROVE PushInv'
    <3>1. tokens \in [Key -> 0..MaxToken] /\ MaxToken \in Nat
      BY <1>1, ReporterBounds DEF PushInv, SourceOK
    <3>2. tokens' \in [Key -> 0..MaxToken] /\ \A j \in Key : tokens[j] <= tokens'[j]
      BY <2>2, <3>1 DEF WriteToken
    <3>3. QED BY <1>1, <2>2, <3>2, SourceStep DEF WriteToken
  <2>3. ASSUME NEW i \in usage, Retain(i) PROVE PushInv'
    <3>1. tokens' = tokens /\ tokens \in [Key -> 0..MaxToken] /\ \A k \in Key : tokens[k] <= tokens'[k]
      BY <1>1, <2>3, ReporterBounds DEF PushInv, SourceOK, Retain
    <3>2. QED BY <1>1, <2>3, <3>1, SourceStep DEF Retain
  <2>4. QED BY <1>5, <2>1, <2>2, <2>3 DEF Source
<1>6. CASE Upgrade
  BY <1>1, <1>6, UpgradeStep
<1>7. QED BY <1>1, <1>2, <1>3, <1>4, <1>5, <1>6 DEF Next

\* The invariant of push reporting holds in every state of every behaviour
\* (report_account and the receiver's handler).
THEOREM PushInvariant == Spec => []PushInv
<1>1. QED BY InitInv, NextInv, PTL DEF Spec

------------------------------------------------------------------------------
(* What it shows.                                                          *)

LEMMA PagesAreTyped ==
  ASSUME PushInv, NEW s \in Stream, NEW p, p = pending[s], p # None
  PROVE  IsPage(p) /\ p.kind = s
<1>1. GoodPage(p) /\ p.kind = s
  BY DEF PushInv, OutboxOK, PendingOK
<1>2. /\ version \in 0..MaxVersion /\ {MaxToken, MaxVersion} \subseteq Nat
      /\ tokens \in [Key -> 0..MaxToken]
  BY ReporterBounds DEF PushInv, SourceOK
<1>3. p.version \in 0..MaxVersion /\ {p.expected, p.next} \subseteq Cursor /\ DOMAIN p.rows # {}
  BY <1>1, <1>2 DEF GoodPage
<1>4. /\ DOMAIN p.rows \subseteq (IF p.kind = "usage" THEN Id ELSE Key)
      /\ p.rows \in [DOMAIN p.rows -> 0..MaxToken]
  <2>1. CASE s = "usage"
    <3>1. GoodUsage(p)
      BY <1>1, <2>1 DEF GoodPage
    <3>2. \A i \in DOMAIN p.rows : i \in Id /\ p.rows[i] = 0
      BY <3>1 DEF GoodUsage
    <3>3. p.rows \in [DOMAIN p.rows -> 0..MaxToken]
      BY <1>2, <3>1 DEF GoodUsage
    <3>4. QED BY <1>1, <2>1, <3>2, <3>3
  <2>2. CASE s = "token"
    <3>1. GoodToken(p)
      BY <1>1, <2>2 DEF GoodPage
    <3>2. ASSUME NEW k \in DOMAIN p.rows PROVE k \in Key /\ p.rows[k] \in 0..MaxToken
      <4>1. k \in Key /\ p.rows[k] \in Nat /\ p.rows[k] <= tokens[k]
        BY <3>1 DEF GoodToken
      <4>2. tokens[k] \in 0..MaxToken
        BY <1>2, <4>1
      <4>3. QED BY <1>2, <4>1, <4>2
    <3>3. p.rows = [k \in DOMAIN p.rows |-> p.rows[k]]
      BY <3>1 DEF GoodToken
    <3>4. QED BY <1>1, <2>2, <3>2, <3>3
  <2>3. QED BY <2>1, <2>2 DEF Stream
<1>5. QED BY <1>1, <1>3, <1>4 DEF IsPage

LEMMA InvSafe == PushInv => PushSafe
<1>1. SUFFICES ASSUME PushInv PROVE PushSafe
  OBVIOUS
<1>2. \A s \in Stream : pending[s] = None \/ (IsPage(pending[s]) /\ pending[s].kind = s)
  BY <1>1, PagesAreTyped
<1>3. ASSUME NEW r \in Reporter
      PROVE  /\ proc[r].pc \in PC /\ proc[r].phase \in 1..5 /\ proc[r].state \in Cursor
             /\ proc[r].left \in 0..MaxPages /\ proc[r].attempt \in 0..MaxAttempts
             /\ proc[r].pc \in {"send", "wait"} => proc[r].index \in 1..Chunks(proc[r].page)
  <2>1. PICK q : q = proc[r]
    OBVIOUS
  <2>2. IsProc(q) /\ Sends(q)
    BY <1>1, <2>1, OneProc DEF ProcOK
  <2>3. QED BY <2>1, <2>2 DEF IsProc, Sends
<1>4. stored \in [Id -> Nat]
  BY <1>1 DEF PushInv, StoredOnce
<1>5. held \in [Key -> 0..MaxToken]
  <2>1. /\ held \in [Key -> Nat] /\ tokens \in [Key -> 0..MaxToken] /\ MaxToken \in Nat
        /\ \A k \in Key : held[k] <= tokens[k]
    BY <1>1, ReporterBounds DEF PushInv, HeldOK, SourceOK
  <2>2. \A k \in Key : held[k] \in 0..MaxToken
    BY <2>1
  <2>3. QED BY <2>1, <2>2
<1>6. TypeOK
  BY <1>1, <1>2, <1>3, <1>4, <1>5 DEF TypeOK, PushInv, SourceOK
<1>7. PushIsRecoverable
  BY <1>1 DEF PushInv, PushIsRecoverable, OutboxOK
<1>8. QED BY <1>6, <1>7 DEF PushSafe

\* The reporters' variables have their types; what lies behind the cursor and is
\* still kept is stored once; one page waits at most.
THEOREM PushStaysSafe == Spec => []PushSafe
<1>1. QED BY PushInvariant, InvSafe, PTL

\* Which steps change the receiver's rows, the cursor, and the rows of the
\* reporting machine.
LEMMA WhoChanges ==
  ASSUME [Next]_vars
  PROVE  /\ receiverVars' = receiverVars \/ \E m \in wire : Store(m)
         /\ cursor' = cursor \/ \E r \in Reporter : Commit(r) \/ Advance(r)
         /\ sourceVars' = sourceVars \/ (Source /\ UNCHANGED receiverVars)
<1>1. CASE UNCHANGED vars
  BY <1>1 DEF vars, outboxVars
<1>2. ASSUME NEW r \in Reporter, Cycle(r)
      PROVE  /\ UNCHANGED <<sourceVars, receiverVars>>
             /\ cursor' = cursor \/ Commit(r) \/ Advance(r)
  <2>1. CASE Begin(r) \/ LoadCursor(r) \/ LoadPending(r)
    BY <2>1 DEF Begin, LoadCursor, LoadPending, outboxVars
  <2>2. CASE ReadUsage(r) \/ ReadTokens(r)
    BY <2>2 DEF ReadUsage, ReadTokens, outboxVars
  <2>3. CASE Prepare(r)
    BY <2>3 DEF Prepare
  <2>4. CASE Send(r) \/ Timeout(r) \/ Stop(r)
    BY <2>4 DEF Send, Timeout, Stop, outboxVars
  <2>5. CASE Commit(r) \/ Advance(r)
    BY <2>5 DEF Commit, Advance
  <2>6. QED BY <1>2, <2>1, <2>2, <2>3, <2>4, <2>5 DEF Cycle
<1>3. ASSUME NEW m \in wire, Receive(m)
      PROVE  /\ UNCHANGED <<sourceVars, outboxVars>>
             /\ receiverVars' = receiverVars \/ Store(m)
  BY <1>3 DEF Receive, Replay, Full, Refuse
<1>4. CASE Source
  BY <1>4 DEF Source, AppendSnapshot, WriteToken, Retain, outboxVars
<1>5. CASE Upgrade
  BY <1>5 DEF Upgrade, outboxVars
<1>6. CASE \E r \in Reporter : Cycle(r)
  BY <1>2, <1>6
<1>7. CASE \E m \in wire : Receive(m)
  BY <1>3, <1>7 DEF outboxVars
<1>8. QED BY <1>1, <1>4, <1>5, <1>6, <1>7 DEF Next

LEMMA SweepStep ==
  PushInv /\ [Next]_vars =>
    [cursor'.gen > cursor.gen => \A k \in Key : held[k] >= sweep[k]]_vars
<1>1. SUFFICES ASSUME PushInv, [Next]_vars, cursor'.gen > cursor.gen, NEW k \in Key
               PROVE  held[k] >= sweep[k]
  OBVIOUS
<1>2. cursor.gen \in Nat /\ sweep[k] \in Nat /\ held[k] \in Nat
  BY <1>1, ReporterBounds DEF PushInv, SourceOK, Cursor, SweepOK, HeldOK
<1>3. cursor' # cursor
  BY <1>1, <1>2
<1>4. PICK r \in Reporter : Commit(r) \/ Advance(r)
  BY <1>1, <1>3, WhoChanges
<1>5. CASE Commit(r)
  <2>1. PICK p : p = proc[r].page
    OBVIOUS
  <2>2. pending[p.kind] = p /\ cursor = p.expected /\ cursor' = p.next /\ proc[r].pc = "commit"
    BY <1>3, <1>5, <2>1 DEF Commit
  <2>3. cursor'.gen = cursor.gen
    BY <1>1, <2>1, <2>2, CommitFacts
  <2>4. QED BY <1>1, <1>2, <2>3
<1>6. CASE Advance(r)
  <2>1. sweep[k] <= held[k]
    BY <1>1, <1>3, <1>6, AdvanceFacts
  <2>2. QED BY <1>2, <2>1
<1>7. QED BY <1>4, <1>5, <1>6

\* A generation of the token cursor ends only when the receiver has every row at
\* least as new as when it began, however many rows, reporters and pages there
\* are and whatever is written meanwhile.
THEOREM SweepsAreComplete == Spec => SweepIsComplete
<1>1. QED BY PushInvariant, SweepStep, PTL DEF Spec, SweepIsComplete

LEMMA TokensStep ==
  PushInv /\ [Next]_vars => [\A k \in Key : held'[k] >= held[k]]_vars
<1>1. SUFFICES ASSUME PushInv, [Next]_vars, NEW k \in Key PROVE held'[k] >= held[k]
  OBVIOUS
<1>2. held[k] \in Nat
  BY <1>1 DEF PushInv, HeldOK
<1>3. CASE receiverVars' = receiverVars
  BY <1>2, <1>3 DEF receiverVars
<1>4. CASE \E m \in wire : Store(m)
  <2>1. held'[k] \in Nat /\ held[k] <= held'[k]
    BY <1>1, <1>4, StoreHeld
  <2>2. QED BY <1>2, <2>1
<1>5. QED BY <1>1, <1>3, <1>4, WhoChanges

\* No request, however late or repeated, puts an older token row in place of a
\* newer one.
THEOREM TokensOnlyGrow == Spec => TokensNeverGoBack
<1>1. QED BY PushInvariant, TokensStep, PTL DEF Spec, TokensNeverGoBack

------------------------------------------------------------------------------
(* Reporting implements OnceFeed.                                          *)

\* What the receiver adds are the next snapshots, without a gap.
LEMMA StoreDelivers ==
  ASSUME PushInv, NEW m \in wire, Store(m), UNCHANGED sourceVars
  PROVE  [Feed!Next]_(Feed!vars)
<1>1. PICK q : q = m.body
  OBVIOUS
<1>2. /\ q \notin replays /\ lastId' = lastId /\ usage' = usage
      /\ stored' = [i \in Id |-> stored[i] + (IF q.kind = "usage" /\ i \in DOMAIN q.rows THEN 1 ELSE 0)]
  BY <1>1 DEF Store, Known, sourceVars
<1>3. stored \in [Id -> {0, 1}] /\ \A i \in Id : stored[i] = 1 <=> Carried(i)
  BY DEF PushInv, StoredOnce
<1>4. CASE q.kind # "usage"
  <2>1. stored' = stored
    BY <1>2, <1>3, <1>4
  <2>2. QED BY <1>2, <2>1 DEF Feed!vars
<1>5. CASE q.kind = "usage"
  <2>1. PICK p \in {pending[q.kind]}, n \in Int :
         /\ p # None /\ GoodPage(p) /\ p.kind = q.kind
         /\ n \in 1..Chunks(p) /\ q = Request(p, n) /\ StoredUpTo(p, n)
         /\ DOMAIN q.rows = ChunkKeys(p, n) /\ ChunkKeys(p, n) \subseteq DOMAIN p.rows
         /\ p.expected.usage = cursor.usage
    BY <1>1, <1>5, StoreFacts DEF Stream
  <2>2. PICK S : S = DOMAIN q.rows
    OBVIOUS
  <2>3. \A i \in S : i \in Id /\ ~ Carried(i) /\ cursor.usage < i /\ i <= lastId
    BY <1>1, <1>5, <2>2, StoreIsNew
  <2>4. /\ GoodUsage(p) /\ p.next.usage \in Nat /\ lastId \in Nat /\ cursor.usage \in Nat
        /\ usage \subseteq 1..lastId
    BY <1>5, <2>1, ReporterBounds DEF GoodPage, Cursor, PushInv, SourceOK
  <2>5. CASE S = {}
    <3>1. stored' = stored
      BY <1>2, <1>3, <2>2, <2>5
    <3>2. QED BY <1>2, <3>1 DEF Feed!vars
  <2>6. CASE S # {}
    <3>1. ASSUME NEW i \in S, NEW j \in Id, stored[j] > 0 PROVE j < i
      <4>1. Carried(j)
        BY <1>3, <3>1
      <4>2. PICK z \in replays : z.kind = "usage" /\ j \in DOMAIN z.rows
        BY <4>1 DEF Carried
      <4>3. CASE j <= cursor.usage
        BY <2>3, <2>4, <3>1, <4>3 DEF Id
      <4>4. CASE ~ (j <= cursor.usage)
        <5>1. InTurn(z)
          BY <4>2, <4>4 DEF PushInv, ReplaysOK
        <5>2. PICK n2 \in 1..Chunks(p) : z = Request(p, n2) /\ StoredUpTo(p, n2)
          BY <1>5, <2>1, <4>2, <5>1 DEF InTurn
        <5>3. j \in ChunkKeys(p, n2) /\ i \in ChunkKeys(p, n)
          BY <2>1, <2>2, <4>2, <5>2, RequestRows
        <5>4. n2 # n
          BY <1>2, <2>1, <4>2, <5>2
        <5>5. ~ (n < n2)
          <6>1. SUFFICES ASSUME n < n2 PROVE FALSE
            OBVIOUS
          <6>2. Request(p, n) \in replays
            BY <2>1, <5>2, <6>1 DEF StoredUpTo
          <6>3. QED BY <1>2, <2>1, <6>2
        <5>6. n2 < n /\ n2 \in Int
          BY <5>2, <5>4, <5>5
        <5>7. QED BY <2>1, <5>3, <5>6, PageChunks
      <4>5. QED BY <4>3, <4>4
    <3>2. ASSUME NEW i \in S, NEW j \in Id, j < i PROVE j \in S \/ stored[j] > 0 \/ j \notin usage
      <4>1. SUFFICES ASSUME j \in usage PROVE j \in S \/ stored[j] > 0
        OBVIOUS
      <4>2. CASE j <= cursor.usage
        <5>1. stored[j] = 1
          BY <4>1, <4>2 DEF PushInv, BehindCursorStored
        <5>2. QED BY <5>1
      <4>3. CASE ~ (j <= cursor.usage)
        <5>1. i \in DOMAIN p.rows /\ i \in Int /\ j \in Int /\ i <= p.next.usage
          BY <2>1, <2>2, <2>3, <2>4, <3>2 DEF GoodUsage, Id
        <5>2. cursor.usage < j /\ j <= p.next.usage
          BY <2>4, <3>2, <4>3, <5>1
        <5>3. j \in DOMAIN p.rows
          BY <2>1, <2>4, <4>1, <5>2 DEF GoodUsage
        <5>4. PICK n2 \in 1..Chunks(p) : j \in ChunkKeys(p, n2)
          BY <2>1, <5>3, PageChunks
        <5>5. ~ (n < n2)
          <6>1. n < n2 => i < j
            BY <2>1, <2>2, <5>4, PageChunks
          <6>2. QED BY <3>2, <5>1, <6>1
        <5>6. CASE n2 = n
          BY <2>1, <2>2, <5>4, <5>6
        <5>7. CASE n2 < n
          <6>1. Request(p, n2) \in replays
            BY <2>1, <5>7 DEF StoredUpTo
          <6>2. Carried(j)
            BY <1>5, <2>1, <5>4, <6>1, RequestRows DEF Carried
          <6>3. QED BY <1>3, <6>2
        <5>8. QED BY <5>4, <5>5, <5>6, <5>7
      <4>4. QED BY <4>2, <4>3
    <3>3. Feed!InOrder(S)
      BY <3>1, <3>2 DEF Feed!InOrder, Feed!Id, Id
    <3>4. S \subseteq 1..lastId /\ S \in SUBSET Id
      BY <2>3, <2>4 DEF Id
    <3>5. stored' = [i \in Feed!Id |-> stored[i] + (IF i \in S THEN 1 ELSE 0)]
      BY <1>2, <1>5, <2>2 DEF Feed!Id, Id
    <3>6. Feed!Deliver(S)
      BY <1>2, <2>6, <3>3, <3>4, <3>5 DEF Feed!Deliver
    <3>7. QED BY <3>4, <3>6 DEF Feed!Next, Feed!Id, Id
  <2>7. QED BY <2>5, <2>6
<1>6. QED BY <1>4, <1>5

LEMMA FeedStep == PushInv /\ [Next]_vars => [Feed!Next]_(Feed!vars)
<1>1. SUFFICES ASSUME PushInv, [Next]_vars PROVE [Feed!Next]_(Feed!vars)
  OBVIOUS
<1>2. CASE sourceVars' = sourceVars /\ receiverVars' = receiverVars
  BY <1>2 DEF sourceVars, receiverVars, Feed!vars
<1>3. CASE sourceVars' = sourceVars /\ \E m \in wire : Store(m)
  BY <1>1, <1>3, StoreDelivers
<1>4. CASE Source /\ UNCHANGED receiverVars
  <2>1. CASE AppendSnapshot
    BY <1>4, <2>1 DEF AppendSnapshot, receiverVars, Feed!Append, Feed!Next
  <2>2. CASE \E k \in Key : WriteToken(k)
    BY <1>4, <2>2 DEF WriteToken, receiverVars, Feed!vars
  <2>3. ASSUME NEW i \in usage, Retain(i) PROVE [Feed!Next]_(Feed!vars)
    BY <1>4, <2>3 DEF Retain, receiverVars, Feed!Retain, Feed!Next
  <2>4. QED BY <1>4, <2>1, <2>2, <2>3 DEF Source
<1>5. QED BY <1>1, <1>2, <1>3, <1>4, WhoChanges

\* Reporting stores every usage snapshot at most once and in order, and passes
\* over none that is kept: it implements OnceFeed.
THEOREM ReportsOnce == Spec => FeedSpec
<1>1. Init => Feed!Init
  BY DEF Init, Feed!Init, Feed!Id, Id
<1>2. QED BY <1>1, PushInvariant, FeedStep, PTL DEF Spec, FeedSpec, Feed!Spec
=============================================================================
