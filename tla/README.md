# atmux: a verification project

TLA+ models of atmux's control logic, checked with TLC on small instances, and
theorems about them proved with TLAPS for every instance. Source paths are
relative to the repository root.

## 1. The system

`atmux web` runs on every machine (an *owner*): it observes the coding agents
that live in tmux panes, exposes them over REST, SSE and MCP, mutates panes for
its users, keeps the agents' command line tools up to date, compacts idle
conversations, updates itself, and collects usage data (Pulse). Nodes federate:
a coordinator mirrors its peers' panes and forwards mutations to their owners.

| Component | Source | State | Operations | Talks to |
|---|---|---|---|---|
| CLI maintenance | `src/auto_update.rs`, `src/control.rs` 1641–1980 | state file, owner lock; per pane a marker and a mutation sequence | tick, baselines, intent, updater, reconcile, recover, mark, claim, respawn | tmux, pane locks, vendor launchers |
| Pane mutations | `src/control.rs` 3008–3590, 4454 | per-pane process lock, in-memory gate and its generation, tmux sequence | message, model switch, resume, image, keys, interrupt, kill | tmux, maintenance, auto-compact |
| Auto-compact | `src/auto_compact.rs`, `src/control.rs` 1500–1640 | marker on each pane | decide, claim, deliver `/compact` | tmux, transcripts |
| Resume leases | `src/control.rs` 660–745, 3590–3940 | in-memory leases, one lock file per conversation | reserve, launch, confirm by observation, release | tmux, launch requests |
| Control plane | `src/control.rs` | local and remote panes, revision, output cache | refresh, merge, forward, subscribe | tmux, remote, web |
| tmux driver | `src/tmux.rs`, `src/status.rs` | none (pane options are tmux's) | list, capture, send, respawn, options | tmux |
| Federation | `src/remote.rs`, `src/machine.rs`, `src/discovery.rs` | peers' mirrors, ssh tunnels | poll, subscribe, forward | other nodes |
| Self-update | `src/self_update.rs` | staged and previous executables, update status | check, download, verify, swap, restart, roll back | file system, service manager |
| Web, MCP | `src/web.rs`, `src/mcp.rs`, `src/tls.rs`, `src/main.rs`, `src/app.rs`, `src/ui.rs` | none of its own | routes, policy, streams, shutdown, terminal UI | control plane |
| Recovery | `src/recovery.rs` | phase in memory, a lock file | start, time out, kill, report | external script, tmux |
| Launching | `src/launch_directory.rs`, `src/project.rs`, `src/old_sessions.rs`, `src/systemd_scope.rs` | allowlist, scopes | browse, clone, launch, old sessions | file system, systemd |
| Files, attachments | `src/workspace.rs`, `src/attachment.rs` | workspace files, spooled images | read, conditional write, spool, expire | file system |
| Transcripts, summaries | `src/transcript.rs`, `src/summary.rs` | none | map a pane to its native log, parse it | file system |
| Metrics, configuration | `src/metrics.rs`, `src/config.rs` | samples; settings | sample; load, migrate, validate | OS |
| Pulse collection | `src/pulse/collect/`, `scheduler.rs`, `service.rs`, `credentials.rs`, `token.rs`, `native.rs`, `preflight.rs` | tasks, leases, back-off, cursors, credentials | schedule, collect, refresh tokens, backfill | providers, store |
| Pulse push reporting | `pulse/reporter.rs`, `ingest.rs`, `store/sqlite.rs` | cursor, outbox; the receiver's rows and replay keys | drain, page, send, commit, ingest | receiver, store |
| Pulse federation | `federation.rs`, `invalidation.rs` | peer cursors, ledger | pull, invalidate | other nodes, store |
| Pulse alerts, resets | `alerts.rs`, `delivery.rs`, `reset.rs`, `health.rs` | events, queued resumes and their leases | evaluate, record, deliver, retry | store, webhooks |
| Pulse stores and API | `store/`, `api.rs`, `reports.rs`, `context.rs`, `ops.rs`, `import.rs`, `pricing.rs`, `model.rs` | SQLite or Postgres | queries, retention, migration, import | database |
| Clients, deployment | `web/`, `ios/`, `deploy/`, `crates/` | browser or device state | drafts, dashboard | REST, SSE |

### What is hard, and what makes each part correct

* **CLI maintenance.** State file, pane markers and pane sequences change one
  after the other, crashes fall in between, two web processes overlap, and a
  shut-down process keeps a worker running without its owner lock. Correct: a
  plan is relaunched at most once per update generation; a newer user mutation
  invalidates a plan; there is no generation without a changed digest; a
  vendor updater that was interrupted is reconciled; plans do not wait for ever
  and are not lost.
* **Pane mutations.** Requests queue on a lock; what they checked before
  waiting may be stale. Correct: every value of the durable sequence names one
  mutation, a request reaches only the agent it was meant for, as far as one tmux
  command can check for the next, and an Enter takes no text of a request that
  is still under way.
* **Auto-compact.** The observation, the marker and the delivery are separate.
  Correct: `/compact` is sent at most once while the conversation stays above
  the threshold, also when the delivery is ambiguous or the process dies.
* **Resume leases.** Memory, a lock file and the observed panes agree only
  after the next scan. Correct: two launches never resume one conversation.
* **Federation and pane reads.** A watcher applies events while discovery
  replaces it and the peer restarts; several callers share one fetch of a
  pane's text. Correct: a mirror is at every moment a list the peer had,
  never goes back and converges; a read is never older than what was advertised
  when it began.
* **Self-update.** Executable, `<exe>.prev` and the record change one after the
  other, and the process re-executes itself after the install has reported its
  end. Correct: an executable is always there, one install at a time, a
  rollback restores the recorded file, and the service catches up in the end.
* **Recovery, directories, files, spool, drafts.** Several writers that do not
  know of each other work on tmux sessions, names in a directory, one file, a
  cache, one stored record. Correct: what is kept is whole, nothing of somebody
  else is removed, what was shown stays, and tabs come to agree.
* **Pulse.** Retries, duplicates, leases that expire during a delivery,
  cursors that move beside the data, credentials that work once, statements of
  two processes that interleave in one database. Correct: a record is stored
  exactly once, a cursor is never ahead of its rows, work that arrives is
  served, an alert and a resume get through, the stores' operations keep their
  caps, and a dashboard with nothing under way shows what the store holds.

## 2. Plan

Order of importance: what can damage a user's work (panes, conversations, the
binary), then what only shows stale data, then usage accounting.

| Module | Content | Status |
|---|---|---|
| `CliMaintenance`, `CliMaintenanceProofs` | the maintenance protocol, its crashes and overlapping processes; six theorems | done |
| `PaneMutations`, `AutoCompact` (extends it) | every request on a pane; polls and claims composed with them | done |
| `ResumeLease` | launches of one saved conversation | done |
| `SelfUpdate` | check, install, rollback, restart | done |
| `Federation`, `LaggingReplica`, `PaneOutput` | mirrors and what they promise; reads of remote panes | done |
| `PulseReporter`, `OnceFeed` | outbox, cursors, lost answers; snapshots are stored once, in order | done |
| `PulseScheduler`, `ClaudeTokens`, `TokenBackfill` | collection: scheduling, shared credentials, tallies and their history | done |
| `PulseAlerts`, `PulseResets`, `PulseMirror` | alerts, delivered resumes, pulls of a peer | done |
| `PulseStore`, `PostgresStore` | the stores' operations as one step each; PostgreSQL's statements against them | done |
| `QuickResume`, `LaunchDirectory`, `FileEdit`, `AttachmentSpool` | scripts, directories, files and images shared with others | done |
| `ComposerDrafts`, `PulseLive` | the browser's shared drafts; the dashboard and its event stream | done |
| `LaunchesProofs` | `LeaseSafe`: `OneConversation` without kills, `LockHeldUntilDurable`; `PaneSafe` (`SequenceNames`, `ResumeIsOneShot`), `CompactedOnce`, `OnlyLeftoversJoin` | done |
| `PulseReporterProofs` | `FeedSpec` step by step, `PushSafe`, sweeps and token rows | done |
| `MachinesProofs` | `MirrorSpec` step by step, `FederationSafe`, `ReadIsRecent`, their composition | done |
| `WritersProofs` | drafts, launch directories, the image cache, the quick recovery (`OneRecovery`, `UnitsAreWhole`), and `WritersSafe` as a whole | done |
| `PulseProofs` | `QuietIsCurrent`; `BehindCursorCovered`, `TotalsNeverShrink`; the caps of `PostgresStore` (`CapsHold`) | done |
| `ServicesProofs` | `ServicesSafe` (`ResumedOnce`, `NewestKept`), `ScanCovers` | done |
| `UpdatesProofs` | `UpdatesSafe` (`InstallSafe`, `SpentOnce`), `RecordsAreTrue` | done |
| proof of `StoreContract` | every step of `PostgresStore` is one of `PulseStore` or a stutter, for every value of the constants; on `StoreInv` | open |
| `ModelSwitch`, `PulseImport` | the pickers a model switch drives; claims of an import | open |
| compositions | maintenance with the requests of `PaneMutations` (now one action, `UserMutation`) | open |

`MC...` modules give TLC its instances. Some of them hold several components
that share no state: a variable `part`, chosen in the initial state and never
changed, says which component a behaviour is about, and the others keep their
initial values. So the states of such a run are the sum of the components'
states, every behaviour is one of one component, and a property of a component
is guarded by its `part` or holds of resting variables. The fairness of each
component is asked under its `part`.

## 3. Modules and how they correspond to the code

`PROJECT.json` ("map") gives the lines of every definition. Definitions marked
`Mutant` in comments are variants of the next one with a plausible bug; no
specification uses them.

### CliMaintenance

| State | Code |
|---|---|
| `file`, `disk` | `cli-maintenance-v1.json`, `MaintenanceState` |
| `owner` | the owner lock of `try_owner` |
| `plock` | `PaneProcessLock` of each pane |
| `seq`, `marker` | the tmux options `@atmux_mutation_sequence` and the pending-update option |
| `installed` | what `inspect` resolves a harness's launcher to |
| `mem`, `pc`, `hx`, `todo`, `kept`, `tries`, `plan` | the cycle's local copy and its place in `maintenance_cycle` and `relaunch_pending_blocking` |
| `userMuts`, `claimed`, `respawned` | history, read by properties only |

A cycle: `TryOwner`, `EstablishBaselines` (baselines of unknown launchers),
`CheckDue`, per harness `Intend`, `Update`, `Commit` (plans and baseline are
written before the vendor updater runs), or `Recover` when no check is due; then
the worker: per plan one of `MaterializeReady`, `Defer`, `Forget`,
`AlreadyClaimed`, `KeepUnread`, or `ClaimBeforeRespawn`, `Advance`, `Respawn`;
`FinishHarness` and `Finish`. `Crash` and `Shutdown` may happen anywhere;
a shut-down process loses the owner lock while its worker runs on. The
environment: `UserMutation` (any request on the pane), `AgentDrift` (the agent
becomes idle or busy, ends, or is swapped by hand), `BackgroundUpdate`,
`DamageFile`. A pane may be without an agent at the start.

### PaneMutations and AutoCompact

`holder` is the pane's lock file together with the gate's mutex: everyone takes
them in this order. `gate` is `PaneMutationGate.generation`; `snap` the instance
in a process's overview; `inst` the pane's `@atmux_identity`. A request goes
through `Arrive` (validated against the overview; a resume notes the gate's
generation), `Lock` (granted, or rejected by what is checked after the wait),
`ReadSequence` and `Advance` (`begin_pane_mutation`), then its effect: for texts
`Validate`, `Paste`, and after the pause `Validate` and `Submit`; `Key`, `Respawn` for a
resume, `Kill`. Validation and the command it guards are two tmux commands
(`tmux.rs` 1190–1204), between which anything may happen: the pane may be replaced
(`raced` notes the requests for which the server restarted before their Enter; before
a paste the restart takes the buffer, `buffers`, and the paste fails). The buffer is
loaded in the step of the first validation. Nothing empties the composer before a
paste: what a failed or crashed request, or a draft, left in it stays until some Enter
submits it. A blocking task
runs to its end when its client goes away, so there is no cancellation; a
`Crash` of the process drops its tasks and its locks. A tmux server restart
may hand out the pane id again (`ServerRestart`).

`AutoCompact` extends it with the poll of every process: `Decide` (fresh scan,
measurement, marker, under the lock), `Claim` (the marker), `CompactAdvance`,
`Deliver`, `Clear`, `GiveUp`; and with the agent: `Usage`, `Boundary` (a compact
record in the log), `Quieten`, `Converse` (the user opens another conversation
in the pane). `Mutation` is any step of `PaneMutations`.

### ResumeLease

`inFlight`, `active` and the lock `leaseFile = i` are `ResumeLeaseState` of
process `i`; `leaseFile = r` is the lock while the blocking lookup of launch `r`
has it. `pane[r]` is the pane launch `r` creates: a placeholder, then the lease
option, then the agent. `guarded[r]` says that its `ResumeLeaseGuard` lives.
`Reserve`, `LockFile`, `Check`, `Begin`, `Create`, `Publish`, `RunAgent`,
`Launched` are the launch in order; `Abandoned`, `CancelLaunch` and
`LaunchFails` its other ends. `Scan` and `Observe` are the two halves of a
refresh: what is applied may be old. `Resolve`, `KillPane`, `KillReleases` are
the three steps of `kill`.

### SelfUpdate

A file is the version it contains. `exe`, `prev`, `staged[p]` and `aside[p]` are
the executable, `<exe>.prev`, and the staging files of process `p`; `state` is
`state.json`; `busy`, `candidate`, `verified` are fields of `Shared`. An apply is
`AskApply`, perhaps `CheckFirst` and `LearnFirst`, `ClaimUpdater`, `Stage` (download,
digest, probe), `Hash`, `Unlink`, `Link`, `InstallStaged`, `RecordApplied`; a rollback
`AskRollback`, `Verify`, `SetAside`, `Restore`, `KeepReplaced`, `RecordApplied`.
`TaskFails` is the error path of every step. `Exec` is the delayed re-execution; it ends
whatever else the process is doing. `UpdaterDies` and `Start` are the process's death
and its supervisor. `Fetch` and `Report` are a check whose answer may come after
an install started.

### Federation, LaggingReplica and PaneOutput

`node` is the machine (`rev`, its published lists `log`, the panes of a machine it
mirrors itself, metrics), `stream[w]` the connection it serves to watcher
incarnation `w`, `chan[w]` the events on the way, `watcher[w]` what `remote.rs`
holds; `remote`, `mrev`, `registered` and `registry` are the coordinator's
`RemoteState`, machine revision, `Inner.watchers` and the discovery task;
`observer` a poller of `agents_observe`, with histories: `life` and `from` are the
processes that gave it its revision and its view, `seen` what was shown when it got
the revision. The machine changes by `NodeRefresh`,
`NodeMirrors`, `NodeMetrics`, `NodeRestart`; it serves by `SendSnapshot`, `Wake`,
`SendPatch`, `Cut`. A watcher is `Connect`, `Read` (a snapshot, a patch that
`Continues` the mirror, or a reconnection), then `ApplySessions` and
`ApplyMetrics`, or `MarkOffline`: two awaits, between which `Abort` may fall.
Discovery is `UpsertDiscovered`, `UpsertResets`, `StartWatcher`, `RemoveDiscovered`,
`RemoveForgets`. `LaggingReplica` is the promise: nothing, or exactly one list the
machine published, never an older one than before; `MirrorSpec` is that
`Federation` implements it, with `held` read off the number of the list in the
mirror.

`PaneOutput` reads one remote pane: `cached` and `readGate` are `Inner.outputs` and
`Inner.fetches`, `reader[r]` a call of `pane_output` (`BeginRead`, `LookupLock`,
`Acquire`, the fetch and `StoreFetched`), `page` the event stream of a browser
(`pane_events`). The mirror it reads is the lagging replica: `MirrorFollows`,
`MirrorLost`, and, as `mark_machine_offline` gives up the state lock in between,
`EvictOutputs` as a step of its own (`evicting`).

### PulseReporter and OnceFeed

One account, one machine, one receiver. `cursor` and `pending` are the rows of
`reporter_cursors` and `reporter_pending_pages`, `usage`, `lastId` and `tokens`
the machine's snapshots (by id) and token rows (by primary key; the value counts
writes), `stored`, `held` and `replays` the receiver's snapshots, token rows and
`ingest_replays`. `wire` holds requests on their way: one may be delivered after
its sender gave it up. `proc[r]` is where `report_account` is: `phase` 1 sends
the profiles, 2 and 3 drain the outbox of each stream, 4 and 5 report new pages.
`Begin`, `LoadCursor`, `LoadPending`, `ReadUsage` or `ReadTokens`, `Prepare`,
`Send`, `Commit` and `Advance` are its awaits in order; `Timeout` and `Stop` may
come at each; a cycle that fails is `Idle`. `Receive` is the receiver's handler:
`Store` (rows and replay key in one transaction), `Replay`, `Full`, `Refuse`, and
in `Hears` an answer that arrives or is lost. `AppendSnapshot`, `WriteToken` and
`Retain` are the other writers of the store. `Upgrade` installs a newer atmux:
pages in the outbox keep the old one's bytes. `sweep` is history.

`OnceFeed` knows `usage`, `lastId` and `stored` only; its one step on the receiver
delivers the next snapshots. `FeedSpec` is that `PulseReporter` implements it, by
the identity on these three.

### PulseScheduler, ClaudeTokens and TokenBackfill

`PulseScheduler`: `loop` is `run_loop`'s place, `due` and `marked` the periodic
jobs, `push`, `forced`, `queued` the other fields of the state, `commands` the
bounded channel, `ended` the tasks to join. `TakeDue` is `take_due` in the order
of its decisions; `Command`, `Joined`, `Sleeps` and `StopScheduler` the branches
of the select; `CollectionEnds`, `ForcedEnds`, `PushEnds` the jobs; `ComesDue`
and `Notify` what arrives.

`ClaudeTokens`: `provider` is the newest pair and whether it works, `credential`
the pair in `.credentials.json`, `holder` the `CredentialLock`, `kept[c]` a
collector's memory. A poll is `StartPoll` (`Prepared`: what the file shows wins
over what was kept), `HandleResponse`, `Acquire` or `AcquireTimesOut`, `Adopt`
(the file holds a usable pair already) or `Grant`, `PersistPair`; error paths
`RequestFails`, `NotDurable`, `GrantLost`, `PersistFails`, `CollectorDies`. An
interactive session rotates the pair at any time the lock is free
(`SessionRotates`).

`TokenBackfill`: `asOf` are the transcripts' totals at each source generation,
`tokenRow` and `tokenRevision` the store's rows and reservations, `progress` the
durable cursor. A backfill is `BeginProfile`, `BeginScan` (reserves a revision,
then reads), `CollectPage`, `ApplyScanned` or `RestartGeneration`; an observer
`BeginTally` and `StoreTally`. A row is a key's total with the revision and the
source it was read at; `UpsertRows` keeps the row of the greater revision.

### PulseAlerts, PulseResets and PulseMirror

`PulseAlerts`: a collector stores an observation, lists subscriptions, records
what is due (one transaction per subscription), then delivers. `PulseResets`:
`jobs` are the stored resumes with state, due time and lease; `Pass` is a pass of
a timer (claim, sleep until the next), `NotifyReset` and `Complete` the two halves
of a delivery; `Schedule`, `Cancel` the collector and the user. `PulseMirror`:
`BeginSync`, `Fetch`, `Apply` of one peer's pages, with `cursor`, `ledger` and
`mirror` in one transaction per page.

### PulseStore and PostgresStore

`PulseStore` is the contract of the store's operations that read, decide and
write. The rows are partitioned into groups that are touched together: alerts,
reset jobs, ingest tokens, reports with replays and caps, the outbox and its
cursors, token rows with revisions and backfill progress, peers, usage, imports;
a behaviour is about one `group`. `Outcome(request, view)` is what an operation
answers and writes when it sees `view`; `Perform` applies it in one step, `FailRequest`
answers `Failed` whether or not it was applied. SQLite keeps the contract by
`BEGIN IMMEDIATE`.

`PostgresStore` runs the same operations as `postgres.rs` does: a transaction of
statements at READ COMMITTED, in the order of `Script`, each of which sees what
is committed when it runs; row locks, keys under insertion and advisory locks
are held until `CommitTransaction`. `RunSelect`, `RunSelectForUpdate`, `RunSkipLocked`,
`RunInsertIfAbsent`, `RunInsert`, `RunUpsert`, `TakeId` are the kinds of statement;
`Abort` an error, a deadlock victim or a lost connection; the answer of a commit
may be lost as well. `StoreContract` is that every step of it is one of
`PulseStore` or a stutter. Two operations of the contract may pass over rows
(`Views`): a claim, as it skips locked rows, and a cancel, whose one `UPDATE`
(`postgres.rs:2699`) does not see a job that is scheduled between the statement
and its commit.

Writes are kept until the commit, which is sound as nothing reads its own
uncommitted rows here; several rows are locked in one step, of which a deadlock
is an `Abort`. A usage window is a number that orders reset time, then used share.
Not distinguished: a local append between the cap and the rows of an ingest, which
is as if it had come after.

### QuickResume, LaunchDirectory, FileEdit and AttachmentSpool

`QuickResume`: `phase[w]` is `RecoveryStatus`, `runLock` the runtime lock file of
the process that waits for the script; `script[r]` is the script's place in its unit (`Has`,
`Create`, `Send`, `Finish`; `Fail` leads to `Rollback`), as
`tests/fixtures/resume_tron_transactional_helpers.sh` pins it. `Rollback` asks whose the
session is, then kills it by a second command; either may fail, and `notKilled` notes the
session that stays. `Trap` is the signal handler, which runs when the command it
interrupts has returned. `Reap` releases the lock, then settles the phase. `TimesOut`, `KillGroup`, `Reap` and `ServerStops` are the process's side;
`UserActs` creates, renames or ends sessions.

`LaunchDirectory`: an operation goes through `Resolve`, `MakeStage`, `OpenStage`,
`MakePayload`, for a clone `StartClone` and `CloneSucceeds` or `CloneFails`, then
`Publish` (authorised), `Rename` (without replacement), `Check`, and its clean-up. Where
`Check` finds the payload moved or exchanged, `EmptyPublished` removes its entries one by
one, under whatever name it has, and may stop at an error that nobody sees; `Clear` does
the same to a payload in its stage, and `CleanupFails` is an error anywhere in the clean-up
(`residue`). A whole clone has two entries' worth of content: it is `part` in between.
`UserRenames` moves names about; directories are objects that stay open.

`FileEdit`: `Prepare`, `Revalidate`, `Exchange` (`RENAME_EXCHANGE`), `Verify`, and
`PutBack`, `Inspect`, at most `MAX_RECOVERY_EXCHANGES` times; editors replace the
name (`Replace`) or write in place (`Overwrite`). `aliased` notes that an editor's new
file got the inode number of one that `restore_after_failed_exchange` remembers but does
not hold open: `NewestKept` excuses that (section 6).

`AttachmentSpool`: `StartStage` takes `CACHE_STAGE_LOCK` of its process,
`ScanEntry` expires old files one by one, `CheckCapacity`, `WriteImage`, then the
message's `Paste` and `SubmitMail`, after which images stay or are dropped.

### ComposerDrafts and PulseLive

`ComposerDrafts`: `saved` is the localStorage record, `known[t]` a tab's drafts
and tombstones, `composer[t]` its textarea, `heard[t]` the storage events on their
way, `place[t]` whether the tab shows the pane. `Merge` is the code's merge: tombstones
that have reached their age limit are dropped first (`Aged`; `aged` notes it). `Save`
merges and writes; the write may fail, unnoticed. The drafts of other panes are not
modelled one by one: that they fill the caps is a choice, which evicts this pane's entry
from a tab's maps (`Evict`, not while it is protected) or from what is written (in `Save`);
`draftFaults` counts evictions and failed writes. `Type`, `Leave`, `SelectAgain`,
`StartSend`, `Sent`, `NotSent`, `Write` (the timer), `StorageEvent`, `ApplyOverview`,
`PaneRemoved` and `Reload` are the handlers; `PaneEnds` makes the pane go from the
overview, which forgets its draft.

`PulseLive`: `tab` holds `state.pulse*` of `app.js`, `store[a]` an account's version
and the revision its stream has published, `wire` the stream. Handlers: `Event`,
`DebounceEnds`, `RefreshEnds`, `PollFires`, `Reconnect`, `StreamFails`, the
accounts' answer, mutations and their answers, opening, hiding, switching; on the
server `Commit`, `PublishRevision`, `Yields`, `ServerRestarts`.

## 4. Runs

`P` processes, `R` requests. A name in brackets is what a folded property
consists of.

| Run | Instance | Shows |
|---|---|---|
| `maintenance` | 2 P and 1 pane, or 1 P and 2 panes; 1 harness, 2 digests, relaunch limit 1, sequence to 2, 1 change, 2 crashes, 1 failed call, 1 missed scan, 1 damaged file (for 2 P, three of these at a time) | no plan relaunched twice, newer mutations win, `UpdaterSafe` (an interrupted updater stays recoverable: `UpdaterIsRecoverable`; no generation without a changed digest: `GenerationsAreChanges`), a claimed operation is never claimed again (one harness), a pass forgets only stale or claimed plans |
| `panes` | 2 P, 2 R, 2 logs, 3 turns, 1 tmux restart, 1 crash, 1 fault (polls: either of these) | `PaneSafe` (`BoundToInstance`, `SequenceNames`, `ResumeIsOneShot`), `/compact` once while the tmux server that stores the claim lives, `OnlyLeftoversJoin` (`SubmitsOwnText`: Enter takes no text of a request still under way; `CompactAlone`: `/compact` goes to an empty composer) |
| `launches` | pane: 1 P, 1 R, 2 logs, 2 turns, 1 crash. Lease: 2 P, 2 launches, 1 kill, 1 crash, 1 fault | an eligible pane is claimed, every request is answered; `LeaseSafe` (without the kill one pane runs the conversation and the lock is held until the lease is on the pane; with it nothing leaks) and the conversation becomes free again |
| `updates` | update: 1 service, 2 requests, 3 releases, 1 crash, 1 fault, 1 rollback. Scheduler: 2 collections and retention, 2 forced polls, queue of 1, 4 arrivals. Tokens: 2 collectors, 3 pairs, 2 faults | `UpdatesSafe` (`InstallSafe`; `SpentOnce`), what is recorded is on disk, the service catches up, a push follows stored rows and a forced poll runs, a collector comes to read |
| `machines` | mirror: 1 pane, 1 nested pane, 2 watchers, 3 events, 2 faults, 2 events in flight, 2 observations. Output: 2 readers, one of them a page, 2 contents, 2 losses | `MachinesSafe` (`FederationSafe`: no needless resynchronisation, an observer misses no change of the process whose revision it has; `ReadIsRecent`), `MirrorSpec`, the mirror converges, a page catches up |
| `services` | maintenance: 1 P, 1 pane, 1 crash, 1 failed call. Alerts: 2 collectors, 2 subscriptions, cool-down 3, 3 faults. Resets: 2 timers, 2 resets, lease 2, 2 faults. Mirror: 2 rows of 2 versions, 2 pullers, pages of 1, 1 fault. File: 5 inodes, 3 restorations, 4 edits | `MaintenanceSettles` (`IntentsSettle`, `LauncherKnown`, `PlansSettle`), alerts get through, resumes arrive, a completed scan has covered the peer; `ServicesSafe` (`ResumedOnce`, `NewestKept`) |
| `reporter` | 2 reporters, 2 snapshots, 1 token row written twice, 3 events of these and 1 upgrade, pages of 2 requests, 2 pages a cycle, 1 attempt, 1 change of generation, 4 replay keys, 2 requests on the wire | `FeedSpec`: snapshots are stored once and in order; `PushSafe` (`PushIsRecoverable`: the cursor is never ahead of the receiver, at most one page waits); a sweep over the token rows misses nothing, no newer row is overwritten |
| `writers` | rows: 2 backfills, 1 observer, 2 keys, 4 changes and revisions. Resume: 2 P, 2 units, 2 scripts, 1 act of a user and 2 faults, 2 of them together. Drafts: 2 tabs, 2 texts, tombstones that live for 1, clock to 3, 3 acts, evictions and failed writes together. Directory: 2 operations, one a clone, 3 renames and 2 faults, 3 of them together. Spool: 3 messages on 2 P, 2 images each, capacity 3, 1 old file, 2 faults. Live: 2 accounts, 1 commit, 2 clicks, 1 break. Store: 2 clients, 3 requests of a group (4 where three leave no race: outbox, peers), caps and cool-down 1 | `WritersSafe` (`BehindCursorCovered`, `OneRecovery`, `UnitsAreWhole`, `TabsAgree`, `DestinationIsWhole`), `TotalsNeverShrink`, `NeverOlder`, `OthersAreKept`, an image that was shown stays, a quiet page is current, `StoreContract` and `StoreCapsHold` |
| `maintenance_tombstone` | 2 harnesses | **violated**: section 6 |
| `lease_two` | 1 P, 3 launches, 1 kill | **violated**: section 6 |
| `reporter_upgrade` | 1 reporter, 1 upgrade | **violated**: section 6 |
| `token_unpersisted` | 2 collectors, 3 pairs, 2 faults | **violated**: section 6 |

Type invariants are conjuncts of the folded ones where a run has several parts.

Why the bounds are enough. Two processes are what a restart of the service
overlaps; two crashes let one fall in the middle of the recovery from the other;
one failed call reaches every error path, once per behaviour; where two or three
kinds of failure are bounded together, every pair of them still meets (triple, for
maintenance), but for the polls of `panes`, where one failure may happen anywhere. Panes and
conversations are independent of each other in the code (own lock file, own
options), so one is enough but for the relaunch limit, which is shared by the
panes of a pass (two panes, limit one). A sequence to 2 leaves one mutation
between two of maintenance. Three turns take a log above the threshold, below
and above again, or away to another conversation and back. Two launches are what
the lease has to keep apart; with a kill it takes three: one that is ended, one
in progress, one that is wrongly admitted. Two reporters let one be anywhere
when the other stops or is late, and a request may be sent by both, so one attempt
each is enough; two requests on the wire can overtake each other; a row written
twice has an older copy that could come late; two snapshots
make a page of two requests, or two pages with a removed row between them. Four
replay keys are enough for a profile, a snapshot and both values of the row, and
few enough to run out. Three releases allow an answer about the second to arrive
while the third is installed. Two watchers are one and its replacement; two events
in flight let a patch follow a suppressed one. Two timers let one overrun its lease
while the other claims. Three pairs are a spent one, one that was lost and one
somebody else obtained. Two units let a script be killed in the first while the
second is started by another. A clock to 3 with tombstones that live for 1 lets one expire
while another tab still holds the draft it deleted, and is younger than the next. Two
observations, or one and a time-out, lie on both sides of a restart of the coordinator.
In the spool three messages of two processes and a
capacity below their images make capacity, expiry and delivery meet. A store's
caps are 1, so that the second request is the one to refuse; races in it are of
two transactions, with a third request that made the state they race for.
Every bound is a CONSTANT named `Max...` and appears as a guard of the step it
bounds only; the two that count events of several steps together, `MaxResumeTrouble`
and `MaxDirectoryTrouble`, are definitions of `MCWriters`.

Symmetry (processes, panes, requests, digests that are interchangeable) is used
in safety runs only. Deadlock detection is off in `services` and `writers`, whose
parts come to rest by design: an edit, a recovery, a directory or a backfill ends,
and users stop. In the others every process can always poll, tick, scan or check;
only a scheduler that was shut down rests, by a step of its own.

### Fairness

* `CliMaintenance`: a process that is up ticks every 30 seconds and a blocking
  worker runs to its end: weak fairness of `CycleStep` and `PaneStep`. Strong
  fairness of `CheckDue(i, TRUE)`, because a check becomes due again and again
  while other cycles happen; of `ClaimBeforeRespawn` or `Forget`, because
  the observation of a pane that stays idle, or gone, is not for ever
  inconclusive.
* `AutoCompact`: `spawn_auto_compact` polls for ever, and blocking tasks of
  requests run to their end. Nothing is assumed of users and agents.
* `ResumeLease`: the monitor scans and applies for ever; launches and kills in
  progress run to their end. No fairness of `CancelLaunch`, `Reserve` or
  `PaneEnds`.
* `SelfUpdate`: `spawn_background` with `auto_apply` checks and applies for ever;
  the supervisor restarts a dead service (`deploy/systemd`, `Restart=`); tasks
  run to their end. Releases, crashes, faults and rollbacks are bounded, hence
  stop.
* `Federation`: a stream is served and a watcher reads, applies and reconnects for
  ever (`run_machine` loops with a capped back-off); discovery finishes what it began.
* `PaneOutput`: calls and the page's task run to their end; a coordinator's
  revision moves again, by any of its machines (`OtherRevision`).
* `PulseScheduler`: the loop runs; strong fairness of `Command` or `Joined`,
  because the loop's select takes a ready branch at random; jobs end (they have
  time-outs). Only finitely much work arrives, which is what "served" is about.
* `ClaudeTokens`, `PulseAlerts`, `PulseResets`, `PulseMirror`: collectors, timers
  and pullers work periodically and time passes. Faults are bounded.

## 5. Proofs

Every theorem holds for all values of the constants that satisfy the named
assumptions of the modules (`PROJECT.json`, "theorems", lists them): any number of
processes, panes, requests, launches, watchers, readers, tabs, messages, rows and
keys, and any bound on crashes, faults and losses. The assumptions say that
bounds are numbers, that the sets of actors are disjoint and that a value for
"nothing" is none of the things; four say more. `Federation` has a finite, non-empty
set of watchers numbered from 1 and room for an event on the way (`MaxChan` is not
0). `AttachmentSpool` has a finite, non-empty set of processes, as the limit of the
cache is a count. `PulseResets` has finitely many timers and reset times, as deliveries
are counted, and no reset at 0, which is how the model says "none". In `PulseStore` an
absent row (`NoRow`) is none of the things a row may hold. Hypotheses that go
beyond this stand in the theorem that needs them (`UpdatesProofs`).

A safety invariant is seldom inductive. Each proof module states the inductive
one as a conjunction of named parts, one lemma per action shows that the action
keeps it, and a last lemma that it implies the property. TLC checked the parts on
the instances of section 4 before they were proved.

**`CliMaintenanceProofs`.** `RelaunchOnce` (`NeverRelaunchedTwice`) and
`NewerMutationPrevails` rest on the durable sequence alone. `PlansFresh`: no
plan, wherever it is stored or copied, is ahead of its pane's sequence, and
while the two are equal no user mutation has happened. `LockHeld`: between
claim and relaunch the process has the pane's lock. `ClaimCurrent`: there the
sequence is still the planned one, then one more. `RelaunchedBehind`: a
relaunched plan is behind its pane for ever, so `Outdated` rejects it. Neither
the state file nor the marker is needed, which is why losing either cannot
lead to a second relaunch. `UpdaterStaysSafe` (`UpdaterSafe`) follows from `GInv`: in
every copy of the state the generation, plus one if its applied launcher is not the
installed one, is at most the number of changes of the launcher; and from `UInv`:
from its check to the commit a process is the owner. `OnlyTheStaleIsForgotten` is an action property of a worker's pass; it needs that the
plans a pass drops are its own (`OwnPlans`) and that a Claimed marker belongs to a
claimed operation (`TombstonesClaimed`). It excepts the steps in which the scan missed a
pane and plans that were claimed before under the same generation number (section 6), and
says nothing of markers, nor of plans that those of the next generation replace.

**`LaunchesProofs`.** `LaunchesAreSafe` (`LeaseSafe`). `LeaseInv`: the lock file is
held by the task that looks up, and by nobody else meanwhile (`TaskHoldsFile`);
while no pane was killed, a guard is the only one of its process and
stands for the reservation, and behind the look-up no other pane carries the
lease (`Exclusive`). With a kill `Exclusive` is false: run `lease_two`.

`PaneStaysSafe` (`PaneSafe`), `LeftoversOnlyJoin` (`OnlyLeftoversJoin`) and
`CompactsOnce`. `PaneInv`: behind its wait a request holds the pane's lock, whoever acted did so
under a sequence that was current then, and what it finds acted under the present
one was its own doing (`SequenceInv`); while the gate's generation is the one a queued
resume noted, nobody has acted since (`GateInv`); behind a validation the pane is the expected one, or the
server has restarted since (`Validated`). `OwnTextLast` is what `OnlyLeftoversJoin` needs: all
texts in the composer but the last are of requests that have ended, and between its paste
and its Enter a request's own text is the last, if the composer was not emptied. `CompactInv` adds that a poll holds the lock from its
decision on, that its sequence is current, and what is known of the marker at
each of its steps. `CompactedOnce` excepts a restart of the tmux server, which loses
the claim with the pane's options.

**`PulseReporterProofs`.** `ReportsOnce`: every step of `PulseReporter` is a step of
`OnceFeed` or a stutter (`FeedSpec`). `PushInv`: a request on its way is stored, or
belongs to the page in the outbox with those before it stored (`WireOK`, `InTurn`);
a page begins where the cursor stands and carries all that is kept up to where it ends
(`OutboxOK`); a cursor moves only past a page of which everything is stored
(`ProcsOK`); so a snapshot is stored exactly if one stored request carries it
(`StoredOnce`). `SweepOK` and `HeldOK` say the same of token rows, by their age;
`SweepsAreComplete` and `TokensOnlyGrow` follow, and `PushStaysSafe` (`PushSafe`).

**`MachinesProofs`.** `MirrorLags`: the mirror of a machine refines `LaggingReplica`
(`MirrorSpec`). `FederationInv` is a chain without a gap: the events on their way
continue each other from the mirror to what the stream remembers (`Wired`), and none
is older than what the coordinator shows (`Following`); a configured machine has one
watcher (`RegistryOK`); one that is not online has no panes in the coordinator
(`RemoteOK`); an observer that waits with a revision of the present process has missed no
change since it got it, and if its view is of this process too it has what is shown
(`ObserverOK`). A restart of the coordinator ends this: nothing is proved of a view that
is kept over it (section 6). `OutputInv` numbers contents by age: what is cached, fetched or shown is not
older than what was advertised to the reader that asked. `MachinesStaySafe` puts both
together: each step of `MachinesSpec` is one of a part and leaves the other alone.

**`WritersProofs`.** Drafts: merging two records takes the greater in a total order of
drafts and tombstones, but for tombstones that have reached their age limit, so the stored
one never goes back (`StoredNeverOlder`) except where such a tombstone is dropped or a cap
evicts the entry (`StoredGrows`). `Hearing` says that what a tab lacks is on its way to it;
`KnownFits` has it as long as no tombstone was dropped, no entry evicted and no write failed,
which are the exceptions of `TabsStayInAgreement`. That theorem is about what the tabs' maps
hold, not about what their textareas show.
Directories: stages are apart and a payload is found only in its own operation's
stage until it was published (`StagesApart`, `PayloadsOK`); while nobody renames every
name is what its operation made it (`Undisturbed`). From these follow `OthersStay`
and `DestinationsAreWhole`: under the destination's name a clone is whole, or its operation
empties it there, or has tried, and answers a conflict; a stage is left only with renames, with a
payload that was never held, or with an error in the clean-up. Images (`ImagesAreKept`): by `CACHE_STAGE_LOCK` a process
has one stager; the files that are reserved for messages in progress number at most
`CacheCap` and one message of each other process (`CacheBounded`), which is how far the cache can outgrow its limit.
Recovery (`RecoveriesAreSafe`): who waits for a script holds the lock, and somebody
waits for each live script unless a process was killed (`LockKept`); a session whose
launch command is missing is the one its maker's script has in hand, which keeps its
id, or one of a script that did not report success, as one was killed halfway (`torn`) or
the rollback of that session failed (`notKilled`); so says `HalfIsOpen`, with `ScriptsOwn`. Only
its maker types into a session (`TypedOwn`).
`Numbered` counts the sessions of each maker: the model's finite set of ids is never
used up, so `FreshId` always names a fresh one. `WritersStaySafe` (`WritersSafe`) puts
the six components together (`WritersAreParts`): each step is one of a part and leaves
the others alone.

**`PulseProofs`.** `QuietTabsAreCurrent` (`QuietIsCurrent`). `LiveInv`: each step of
the tab keeps what was current or begins a refresh that reads everything anew
(`Current`), and every revision the server publishes reaches an open source as
one the tab has not seen (`EventsAreNews`), also after a restart that counts from 0.

`BackfillInv`: rows never run ahead of the transcripts
(`RowsOK`); a revision is reserved before the transcripts are read, so who has the
newest one has read totals no older than those stored (`TallyFits`); a page is applied only if its
source is the scan's and the stored progress is the expected one, so that keys
behind the cursor are covered (`HistoryFits`, `Counted`). `TotalsOnlyGrow` is the action property.

`CapsAlwaysHold` (`CapsHold`). An operation of `PostgresStore` decides on what its
statements have read, each at another moment, and writes at its commit. `StoreInv` says
of each open transaction, by its operation and the statements it has run, which rows it
has locked and what it knows of the committed rows as long as it holds them
(`ImportSafe`, `IngestSafe`, `ReceiverSafe`, `ResetSafe`, `AlertSafe`, `OutboxSafe`): under a lock of
the whole group that what it counted has not grown since, under a row's lock that the
row is as it was read. It says that no two transactions hold the same lock and that
the committed rows respect the caps (`RowsFit`). Per operation three facts: a statement keeps
this (`...Runs`), a commit keeps the caps (`...Commits`) and, by the locks, what the others know
(`...Stay`, from the rows a commit may change: `ReceiverChange`, `ResetChange`, `AlertChange`,
`OutboxChange`). What is known need not be equality: a token that is revoked, a job that
is delivered, an event that is deleted meanwhile only make a count too high.
Of the outbox the callers' answers are part of the invariant (`ToldRight`), as the cursors they
hand back are rows. Of tokens, peers and usage `CapsHold` says nothing. `StoreCapsStay`
(`StoreCapsHold`) is the same of the components together.

**`ServicesProofs`.** `ServicesStaySafe` (`ServicesSafe`) and `ScansCover`
(`ScanCovers`), each the conjunction of what its components keep (`ServicesInv`).
Resumes (`ResetInv`): a job is delivered only by a timer that claimed it, so deliveries
are counted together with those still to come. Made deliveries, timers that have the job
in hand (`Takers`), and the chance that it is claimed once more (`Open`, which a timer
that has it in hand or has just delivered it takes away, `Vouched`) are at most one,
plus one for each excuse (`Once`).
Pulls (`PullInv`): what is in the ledger is in the mirror, a page names a row once and
is as old as its answer (`PullShape`), and unless a page of another scan was accepted
(`mixed`) every row behind the cursor is at least what the peer had when the scan
began (`PageCovers`); a completed scan has the cursor behind every row. Files
(`FileInv`): at each step of the write and of its restoration it is known under which
of the two names the newest text is (`NewestPlaced`: `AtTarget`, `AtTemp`), which is
what makes the removal of the temporary name safe. Of alerts only the types are proved;
what matters of them is liveness.

**`UpdatesProofs`.** `ClaimsStaySingle` needs no hypothesis: any number of processes at
one executable, any file system. `ClaimInv` says that a task belongs to a process that
runs and that one that installs has its process's claim, and the digests it will record
(`TaskShape`). `UpdatesStaySafe` (`UpdatesSafe`) and `RecordsStayTrue`
(`RecordsAreTrue`) add `Placed`: at each step of an install or a rollback, which
version is under which of the names, and which of them the record means. They assume
`OneUpdater`, one process at the executable: two of them share its names and the record
without a lock, and `ExecutableStays` is false then (section 6). `UpdatesStaySafe`
assumes `HardLinks` as well, since without them the two renames leave a moment with no
executable. `TokensInv`: whoever is between the credential lock and the write of the
file holds the lock, and a granted pair is the provider's newest; so the file is not
behind what was granted under the lock unless a write of it was lost, which `SpentOnce`
excuses. `SchedulerInv` is types only: what matters of the scheduler is liveness.

Only model-checked:

* All liveness: `MaintenanceSettles`, `EligibleIsClaimed`, `Answered`, `FreeAgain`,
  `UpToDate`, `WorkIsServed`, `CollectorsRecover`, `Converges`, `StreamCatchesUp`,
  `AlertsGetThrough`, `ResumesArrive`, `MirrorCatchesUp`. The prover has no rules for
  fairness and ENABLED.
* `ClaimedNeverRetried`, which is no invariant in general. It fails for two
  harnesses (section 6). It fails for one harness and three processes as well: when two of them
  have lost the owner lock with a worker running on and a third crashes, the
  Ready marker of a newer generation overwrites the tombstone, one old
  worker writes the Ready marker of its generation again, and the other claims it.
  `RelaunchOnce` holds all the same: the sequence rejects the second relaunch.
* The store's contract (`StoreContract`): twenty-six kinds of transaction, the answers
  of each against those of the others. `StoreInv` has what its proof needs of the six
  groups that have caps.

## 6. Where code and documentation disagree

Kept as runs:

* `maintenance_tombstone`. One tmux option holds the marker of both harnesses.
  The Ready marker of one overwrites the Claimed tombstone of the other
  (`src/auto_update.rs:1136`), and after a crash before the final persist the
  first plan is claimed a second time when the agents were swapped by hand and
  back. README line 263 says a claimed operation is never retried. It is not
  *relaunched* twice: the sequence prevents that (`RelaunchOnce`).
* `lease_two`. `kill` releases the lease by name after it has awaited the kill
  (`src/control.rs:3568`). A launch reserved in between loses reservation and
  lock before its pane carries the lease, and a third launch passes every check.
* `reporter_upgrade`. The id of a profile request is a digest of its batch, but the
  bytes the receiver compares include the atmux version
  (`src/pulse/reporter.rs:1202`, `src/pulse/ingest.rs:32`). After an upgrade the
  unchanged profiles get a conflict, and the cycle ends before its first page,
  until a profile or a context changes. The comment at line 960 promises the
  opposite. Pages of the outbox are not affected: they keep their bytes.
* `token_unpersisted`. When the rotated pair cannot be written back it exists in
  memory only, as the comment at `src/pulse/credentials.rs:325` says; but the next
  poll reads the old pair from the file and takes it for somebody's change
  (`src/pulse/native.rs:409`), so the pair is forgotten and the spent token
  presented again. The collector refuses until the user logs in.

Seen while modelling, most of them reproduced in instances that are not kept.

Panes, conversations, launchers, the executable:

* A scan that fails for a moment is taken for a pane that is gone, and its plan
  is forgotten (`src/control.rs:1933`). Hence `MaxScanMiss = 0` in `services`; the
  proofs allow any number.
* Plans deferred under one generation are replaced by those of the next
  (`src/auto_update.rs:190`).
* Recovery advances a generation before it is stored; after a crash the number
  is reached again with other plans (`src/auto_update.rs:276`), and a claimed
  marker of the first can swallow one of them.
* A queued resume compares its own process's gate: a mutation by another process
  in the meantime goes unnoticed (`src/control.rs:4503`); `ResumeIsOneShot`
  therefore speaks of one process.
* Text that is left in a composer - a draft, a message whose Enter failed, one whose process
  died after the paste - is submitted along with the next message, as nothing clears it
  (`src/tmux.rs:1194`, `1203`). `OnlyLeftoversJoin` says that nothing else joins.
* The pane is validated by one tmux command and used by the next (`src/tmux.rs:1200`,
  `1203`; `src/attachment.rs:166`, `184`). If the tmux server restarts between the two and the
  pane id is given out again, the Enter goes to another agent (`raced`, the excuse of
  `BoundToInstance`). A paste fails then, as the buffer went with the server.
* A claim is cleared by a measurement of another conversation
  (`src/auto_compact.rs:71`); `/compact` may be sent again after a visit to
  another conversation, so `CompactedOnce` starts anew with each `Converse`.
* Self-update has no lock between processes. With `atmux self-update --apply`
  beside the service, the link can meet a `<exe>.prev` the other has just made;
  the fallback then renames, and for a moment there is no executable. Any other failure
  of the link falls back as well (`src/self_update.rs:568`); in the model linking works always
  or never (`HardLinks`), so a failure that passes is not covered. A second
  apply in the second before the restart makes the new version its own
  predecessor: the older one is lost. Where hard links are not supported
  (`HardLinks = FALSE`) a crash between the two renames leaves nothing to start,
  as the comment of `swap_into_place` says.
* A rollback is undone by the next background check when `auto_apply` is on
  (`UpToDate` states it).

Mirrors and reads:

* A watcher that is aborted may still apply its last event after its successor has
  begun; the next event repairs it (`Converges`).
* A coordinator that restarts counts revisions from 0 again
  (`src/mcp.rs:169`, `207`): an observer with a larger one waits for its time-out, and the
  time-out's answer gives it the new process's revision without a view, so that it may go on
  waiting with the view of before until something changes. `ObserverNotStranded` speaks of
  revisions and views of one process and cannot show this; taken without `observer.from =
  observer.life` it is violated.
  Waiters also answer at once while the node they ask is ahead.
* A fetch that ends after the pane's eviction leaves its text in the cache
  (`src/control.rs:2675`, `1475`); `ReadIsRecent` holds, as a reader compares hashes.
* A failed read of a page is repeated at the next revision only
  (`src/control.rs:2590`); launch options of a quiet node are not fetched again.

Files, scripts, drafts:

* A conditional write ends its restoration early when an inode number is used again:
  `restore_after_failed_exchange` compares device, inode and type of files it does not
  hold open (`src/workspace.rs:585`), against its comment at line 566 ("Every finite
  sequence of atomic replacements therefore ends with the newest candidate back at the
  target name"). After four atomic replacements the newest text can be what is removed
  with the temporary name. `FileSpec` shows it with four edits and five inodes when the
  excuse `aliased` is taken out of `NewestKept`; with it the theorem holds.
* The recovery script outlives a web process that is killed, which releases the
  runtime lock, so a second one may run beside it, against `src/recovery.rs:6`
  (`orphaned`, the excuse of `OneRecovery`). A script that is stopped while it waits for `tmux new-session`, or
  killed in the middle of a unit, leaves an empty session, and so does a rollback whose
  question or kill fails (`rollback incomplete`, helpers line 45); later runs preserve it
  and never launch its agent. `UnitsAreWhole` says that this is so only after a run that did
  not report success (`torn`, `notKilled`).
* What was published and then found moved or exchanged is emptied entry by entry, errors
  ignored (`src/launch_directory.rs:662`, `757`): a clone in parts may stay under the
  destination's name or another. The operation answers a conflict.
* A staging directory stays when its payload cannot be opened or a call of the clean-up
  fails, and one that was exchanged between `mkdir` and `open` is taken for the operation's own.
* Two processes that expire one spooled file fail one of two messages; a submit
  with an ambiguous end removes images the agent may have been shown.
* After seven days, or once a cap evicts it, a tombstone is forgotten, and a save whose write
  fails leaves the older record (`web/app.js:450`, `506`, `525`, `2690`): a tab that still has the
  deleted draft stores it again. `NeverOlder` and `TabsAgree` except these.
* A tab that learns of a submission through a merge, before the storage event, keeps
  the submitted text in its textarea (`web/app.js:8369`), from where the next
  write of the tab brings it back. A text that is cleared within 250 ms of closing the tab returns.
* The dashboard does not look again after a token was issued (`web/app.js:5827`),
  and a page that is shown again while its event stream fails does not poll.

Pulse:

* `advance_reporter_cursor` does not look at the outbox
  (`src/pulse/store/sqlite.rs:2837`). When one process begins a token generation
  while another's page, prepared at the same cursor, waits, the page never matches
  the cursor again and every later cycle of the account ends in a conflict
  (the comment at `src/pulse/reporter.rs:543` expects that it is sent in the end).
* Profiles that change and change back have the id of their first report: the
  receiver answers it as a replay and keeps the state between.
* Replay keys are never removed (`src/pulse/store/sqlite.rs:5323`): at their cap the
  receiver refuses the account for ever (`Full`).
* PostgreSQL's identities become visible in the order of commits. Appends of two
  profiles hold different locks (`src/pulse/store/postgres.rs:3370`), so a push may
  pass an id that is not committed yet, and never sends it
  (`src/pulse/store/mod.rs:957` calls the ids stable); pages of the federation
  (`postgres.rs:1532–1766`) have the same order. In `PulseStore` a usage page
  therefore has no cursor behind which everything is known.
* PostgreSQL's `upsert_token_batch` compares reported rows without a lock.
* The bounded recent tally drops the newest days' rows when it overflows; an import
  of the earlier format overwrites a native total. A backfill that restarts where
  another process has moved on ends with an error, and works at its next run.
* An error while alerts are recorded drops those recorded before it in the pass
  (`src/pulse/service.rs:352`, `389`): their cool-down runs, nobody is told.
* A reset's completion is not fenced by its lease; a pass of many slow deliveries
  outlives it (`ResumedOnce` excuses both). A shutdown that comes in the middle of a
  pass may be missed until the timer's next sleep ends (`src/pulse/reset.rs:188`).
* A row of a peer that goes from A to B and back to A is skipped, as its record key
  is in the ledger, which is never pruned; a page of an earlier scan is accepted when
  the cursor has come back to where it was asked (`mixed`).

## 7. Abstractions, and what is not modelled

Data is cut down to what properties distinguish: an executable is its digest or
version, a conversation stands for harness, profile, mode and log, a text for
its request, a measurement is above the threshold or not, a pane is in a list or
not, a usage window is its place in the order. Time is
nondeterminism: a check is due or not, a quiet pane has waited long enough or
not; 30-second rate limits are left out. Where deadlines are compared (alerts,
resets) they are counted relative to now. Two reads without a step of another
actor that could tell them apart are one step. `CompactedOnce` is checked
without a tmux server restart, which loses the claim with the pane's options. In
`PulseReporter` the profiles stand for all of `assemble_metadata`, do not change
and fit one request; a request is its content, chunks are counted in rows.
localStorage is read, merged and written in one step.

Not modelled, with the reason; `PROJECT.json` says what is left out of each part:

* Parsers of screens (`status.rs`, most of `tmux.rs`), of transcripts
  (`transcript.rs`, `summary.rs`) and of providers' answers (`collect/`,
  `preflight.rs`, `discovery.rs`' datagrams): functions of text without state.
* `config.rs`, `metrics.rs`, `old_sessions.rs`, `systemd_scope.rs`, `tls.rs`,
  `ui.rs`, `app.rs`, `pricing.rs`, `reports.rs`, `health.rs`, `model.rs`: settings,
  sampling, queries, command lines, rendering and arithmetic. The stores'
  migrations run once, before any other use of the database.
* Routes of `web.rs` and tools of `mcp.rs` that call one operation of the control
  plane.
* `pulse/import.rs`: the formats; the claim of a record is `ImportRow` of `PulseStore`.
* Left for later: the pickers a model switch drives (`tmux.rs` 1399–1830), the
  login probe of collectors (`native.rs` 151–379), one-shot pushes
  (`ops.rs` 451–634), the arithmetic of the recent tally (`token.rs`).

Most of the code, tests not counted, is of the first three kinds; the parts that
keep state which several actors change are modelled.

## 8. How to run

```
tlc -config Maintenance.cfg MCCliMaintenance.tla   # and so on, as in PROJECT.json
tlapm CliMaintenanceProofs.tla
```
