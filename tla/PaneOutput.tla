----------------------------- MODULE PaneOutput -----------------------------
(***************************************************************************)
(* Reading one remote pane through the coordinator (control.rs): the       *)
(* hash-keyed output cache, the lock that lets one caller fetch for all,   *)
(* their eviction, and a browser's pane stream on top (web.rs).            *)
(*                                                                         *)
(* The mirror is what LaggingReplica promises: it follows the owning       *)
(* machine at a distance and is lost at any time.  Contents are numbered   *)
(* by age, 0 for none; a hash stands for one content.                      *)
(***************************************************************************)
EXTENDS Integers, FiniteSets

CONSTANTS
  Reader,      \* callers of pane_output
  Page,        \* the one that is a browser's pane stream
  MaxContent,  \* bound on contents of the pane
  MaxLoss      \* bound on lost mirrors and failed requests

ASSUME OutputAssumption ==
  Page \in Reader /\ {MaxContent, MaxLoss} \subseteq Nat /\ MaxContent > 0

VARIABLES
  content,  \* what the pane shows, at its owner
  mirrored,  \* [is, advert, last]: the session in RemoteState, the last hash it ever had
  evicting, \* the mirror was lost, and evict_outputs is yet to come
  cached,   \* Inner.outputs of the pane
  readGate,     \* Inner.fetches of the pane: the lock in the map, 0 for none
  locked,   \* locks that are held
  reader,   \* [at, since, lock, got]
  page,     \* pane_events: [at, previous, woken]
  losses,   \* bounded by MaxLoss
  locks     \* locks made so far

ownerVars == <<content, mirrored, evicting>>
cacheVars == <<cached, readGate>>
outputVars == <<ownerVars, cacheVars, locked, reader, page, losses, locks>>

IdleReader == [at |-> "idle", since |-> 0, lock |-> 0, got |-> 0]

OutputInit ==
  /\ content = 1
  /\ mirrored = [is |-> "online", advert |-> 1, last |-> 1]
  /\ evicting = FALSE
  /\ cached = 0 /\ readGate = 0 /\ locked = {} /\ locks = 0
  /\ reader = [r \in Reader |-> IdleReader]
  /\ page = [at |-> "opening", previous |-> 0, woken |-> FALSE]
  /\ losses = 0

----------------------------------------------------------------------------
(* The owning machine and its mirror.                                      *)

OwnerWrites ==
  /\ content < MaxContent /\ content' = content + 1
  /\ UNCHANGED <<mirrored, evicting, cacheVars, locked, reader, page, losses, locks>>

\* Every change of the mirror is a revision, which wakes every stream.
Woken == page' = [page EXCEPT !.woken = TRUE]

\* apply_machine_sessions: the pane is listed, so nothing of it is evicted.
MirrorFollows ==
  /\ mirrored.is # "removed"
  /\ \E c \in mirrored.last..content :
       /\ c # mirrored.advert
       /\ mirrored' = [is |-> "online", advert |-> c, last |-> c]
  /\ Woken
  /\ UNCHANGED <<content, evicting, cacheVars, locked, reader, losses, locks>>

\* mark_machine_offline, remove_discovered_machine: the state first ...
MirrorLost ==
  /\ mirrored.is = "online" /\ losses < MaxLoss /\ losses' = losses + 1
  /\ \E is \in {"offline", "removed"} : mirrored' = [mirrored EXCEPT !.is = is, !.advert = 0]
  /\ evicting' = TRUE
  /\ Woken
  /\ UNCHANGED <<content, cacheVars, locked, reader, locks>>

\* ... then, without its lock, the outputs.
EvictOutputs ==
  /\ evicting /\ evicting' = FALSE
  /\ cached' = 0 /\ readGate' = 0
  /\ UNCHANGED <<content, mirrored, locked, reader, page, losses, locks>>

\* Another machine's revision, or this one's metrics.
OtherRevision ==
  /\ ~page.woken /\ Woken
  /\ UNCHANGED <<ownerVars, cacheVars, locked, reader, losses, locks>>

----------------------------------------------------------------------------
(* remote_pane_output                                                      *)

\* Mutant: the cache is not compared with what the machine advertises.
FreshAnyhow == cached # 0

\* fresh_output: the cached content, while the machine still advertises it.
Fresh == cached # 0 /\ cached = mirrored.advert

Goes(r, at) == reader' = [reader EXCEPT ![r].at = at]
Settle(r, at, got) == reader' = [reader EXCEPT ![r].at = at, ![r].got = got, ![r].lock = 0]
Release(r) == locked' = locked \ {reader[r].lock}

\* find_target, ensure_online and the first look at the cache.
BeginRead(r) ==
  /\ reader[r].at = "start"
  /\ reader' = [reader EXCEPT ![r] =
       IF mirrored.is = "online"
       THEN [@ EXCEPT !.since = mirrored.advert,
                      !.at = IF Fresh THEN "done" ELSE "lookup",
                      !.got = IF Fresh THEN cached ELSE 0]
       ELSE [@ EXCEPT !.at = IF mirrored.is = "offline" THEN "failed" ELSE "gone"]]
  /\ UNCHANGED <<ownerVars, cacheVars, locked, page, losses, locks>>

\* fetch_lock
LookupLock(r) ==
  /\ reader[r].at = "lookup"
  /\ IF readGate # 0 THEN UNCHANGED <<readGate, locks>> ELSE locks' = locks + 1 /\ readGate' = locks'
  /\ reader' = [reader EXCEPT ![r].at = "queue", ![r].lock = readGate']
  /\ UNCHANGED <<ownerVars, cached, locked, page, losses>>

\* The lock is taken; another caller may have fetched meanwhile.
Acquire(r) ==
  /\ reader[r].at = "queue" /\ reader[r].lock \notin locked
  /\ \/ /\ Fresh /\ Settle(r, "done", cached)
        /\ UNCHANGED locked
     \/ /\ ~Fresh /\ mirrored.is # "online" /\ Settle(r, "failed", 0)
        /\ UNCHANGED locked
     \/ /\ ~Fresh /\ mirrored.is = "online" /\ Goes(r, "fetch")
        /\ locked' = locked \cup {reader[r].lock}
  /\ UNCHANGED <<ownerVars, cacheVars, page, losses, locks>>

\* The machine answers with what the pane shows then.
Fetched(r) ==
  /\ reader[r].at = "fetch"
  /\ reader' = [reader EXCEPT ![r].at = "store", ![r].got = content]
  /\ UNCHANGED <<ownerVars, cacheVars, locked, page, losses, locks>>

FetchFails(r) ==
  /\ reader[r].at = "fetch" /\ losses < MaxLoss /\ losses' = losses + 1
  /\ Settle(r, "failed", 0) /\ Release(r)
  /\ UNCHANGED <<ownerVars, cacheVars, page, locks>>

\* store_output, whatever became of the pane meanwhile.
StoreFetched(r) ==
  /\ reader[r].at = "store"
  /\ cached' = reader[r].got
  /\ Settle(r, "done", reader[r].got) /\ Release(r)
  /\ UNCHANGED <<ownerVars, readGate, page, losses, locks>>

\* A request of the API, and its answer.
Ask(r) ==
  /\ r # Page /\ reader[r].at = "idle"
  /\ Goes(r, "start")
  /\ UNCHANGED <<ownerVars, cacheVars, locked, page, losses, locks>>

Answer(r) ==
  /\ r # Page /\ reader[r].at \in {"done", "failed", "gone"}
  /\ reader' = [reader EXCEPT ![r] = IdleReader]
  /\ UNCHANGED <<ownerVars, cacheVars, locked, page, losses, locks>>

----------------------------------------------------------------------------
(* pane_events                                                             *)

PageOpens ==
  /\ page.at = "opening" /\ reader[Page].at = "idle" /\ Goes(Page, "start")
  /\ UNCHANGED <<ownerVars, cacheVars, locked, page, losses, locks>>

\* An error is reported and retried at the next revision; a pane that is gone
\* ends the stream.
PageAnswered ==
  /\ reader[Page].at \in {"done", "failed", "gone"}
  /\ page' = CASE reader[Page].at = "done" -> [page EXCEPT !.at = "waiting", !.previous = reader[Page].got]
               [] reader[Page].at = "failed" -> [page EXCEPT !.at = "waiting"]
               [] OTHER -> [page EXCEPT !.at = "over"]
  /\ reader' = [reader EXCEPT ![Page] = IdleReader]
  /\ UNCHANGED <<ownerVars, cacheVars, locked, losses, locks>>

\* Mutant: what another caller fetched is no news to the stream.
MayHaveChangedCached == mirrored.advert # cached \/ mirrored.advert = 0

\* pane_may_have_changed: only an advertised hash the stream has is no news.
MayHaveChanged == mirrored.advert # page.previous \/ mirrored.advert = 0

PageWakes ==
  /\ page.at = "waiting" /\ page.woken
  /\ reader[Page].at = "idle"
  /\ page' = [page EXCEPT !.woken = FALSE]
  /\ IF MayHaveChanged THEN Goes(Page, "start") ELSE UNCHANGED reader
  /\ UNCHANGED <<ownerVars, cacheVars, locked, losses, locks>>

ReaderStep(r) == BeginRead(r) \/ LookupLock(r) \/ Acquire(r) \/ Fetched(r) \/ StoreFetched(r) \/ Answer(r)
PageStep == PageOpens \/ PageAnswered \/ PageWakes

OutputNext ==
  \/ OwnerWrites \/ MirrorFollows \/ MirrorLost \/ EvictOutputs \/ OtherRevision
  \/ \E r \in Reader : Ask(r) \/ ReaderStep(r) \/ FetchFails(r)
  \/ PageStep

\* Requests are answered or time out, and every machine's metrics keep coming.
OutputFairness ==
  /\ \A r \in Reader : WF_outputVars(ReaderStep(r))
  /\ WF_outputVars(PageStep) /\ WF_outputVars(OtherRevision)

----------------------------------------------------------------------------
OutputTypeOK ==
  /\ content \in 1..MaxContent /\ evicting \in BOOLEAN
  /\ mirrored \in [is : {"online", "offline", "removed"}, advert : 0..MaxContent, last : 1..MaxContent]
  /\ cached \in 0..content /\ readGate \in 0..locks /\ locked \subseteq 1..locks
  /\ reader \in [Reader -> [at : {"idle", "start", "lookup", "queue", "fetch", "store", "done", "failed", "gone"},
                            since : 0..MaxContent, lock : 0..locks, got : 0..MaxContent]]
  /\ page \in [at : {"opening", "waiting", "over"}, previous : 0..MaxContent, woken : BOOLEAN]

\* No caller is given a content older than the one the machine advertised when
\* it asked, through evictions, concurrent fetches and lost mirrors.
ReadIsRecent == \A r \in Reader : reader[r].at = "done" => reader[r].got >= reader[r].since

\* A stream shows what the pane shows, once the pane rests and the mirror has
\* caught up for good; a failed read is made up for at the next revision.
PageCatchesUp ==
  <>[](mirrored.is = "online" /\ mirrored.advert = content)
    => <>[](page.at = "over" \/ page.previous = content)
=============================================================================
