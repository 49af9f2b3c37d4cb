# Verification of owlette

owlette manages fleets of machines (signage, installations, labs): an agent
runs on every machine, a web application and cloud functions run the backend,
and Firestore documents are all they share. This directory holds TLA+ models of
the parts where ordering, failure and lost messages decide whether a fleet
ends up in the state its operator asked for, TLC runs that check them, and
TLAPS proofs about them.

Paths below are relative to the repository (`src/`); `PROJECT.json` maps every
definition to its lines.

## 1. Inventory

### How the system hangs together

    operator --HTTP--> web/app/api ----writes----> Firestore --triggers--> functions/
                           |                           ^  |                    |
                           +--presign, head--> R2 <----|--|---- chunkGc -------+
                                               ^       |  |
                                               |  reports, answers
                                               |       |  v  polls every 2-5 s
                                               +---- agent (one per machine)

No component calls another directly except over HTTP from a client. A write to
a document fires a trigger at least once and in no particular order; the agent
polls. What is atomic is one Firestore transaction or batch, or one object
in R2.

### Components

| component | state | operations | hard | what makes it correct |
|---|---|---|---|---|
| **roost staged rollout** (`functions/src/distributionFanout.ts`, `lib/fanoutLogic.ts`) | `rollouts/{v}`: stage, canary, fleet, dispatch flag | head written: start a canary wave; report written: promote, abort, complete, retry a dispatch | redelivery, two reports at once, read then blind write, batches that fail one by one, a handler that dies | a bad version stays in its canary; a promotion is earned; nobody is forgotten; a rollout ends |
| **roost routes** (`web/app/api/roosts/[roostId]/{versions,rollback,resync,deploy}`) | `roosts/{r}` (head, counter, copies for the list), `versions`, the same rollouts and commands | publish, promote, roll back, edit a description, resync, deploy, schedule | they race the triggers and one another, some read outside of the write | numbers without gaps, a head that exists; they never start a second first wave on a fleet |
| **rollout scheduler** (`functions/src/rolloutScheduler.ts`) | `stage: scheduled`, `scheduledAt` | claim: fire, write off, leave | two sweeps, an overwritten document, a sweep that comes late | fires once, never late |
| **agent sync engine** (`agent/src/sync_*.py`) | sqlite `distributions`, `chunks`, `files`; chunk cache; the folder itself | pull a version, resume, cancel, scrub, prune | a crash anywhere, a second sync of the same roost, best-effort reports | a folder is one version or the other; a committed state means files in place |
| **chunk collector** (`functions/src/chunkGc.ts`, `lib/chunkGcLogic.ts`) | `chunk_tombstones`, R2 objects | scan, tombstone, clear, delete | reads at different times, publishes meanwhile, partial failure, a run that dies | never a chunk of a version; nothing on incomplete knowledge; garbage goes |
| **chunk API** (`web/app/api/chunks/*`) | R2 objects, `chunk_referrers` | upload URL, check, mount | mount against the collector | a chunk that was found stays |
| **command delivery** (`agent/src/firebase_client.py`, `firestore_rest_client.py`) | `commands/pending`, `commands/completed`; in memory: seen ids, slow queue | poll, dispatch, mark, run, answer, seed, clean up | crash between two writes, offline, restarted pollers, full queue | nothing lost, nothing run twice, everything answered |
| **connection manager** (`agent/src/connection_manager.py`, its callers in `firebase_client.py`) | connection state, breaker, back-off, supervised threads, restart slots on disk | report error or success, force, reconnect, watchdog, self-restart | reconnect against watchdog, threads that will not stop, skipped errors | nobody waits for a reconnect that nobody makes; it comes back, and the listeners with it |
| config sync (`agent/src/config_sync.py`) | local and cloud configuration, last uploaded hash | merge, upload, apply | echo of its own write, offline edits | no edit lost silently |
| **deployments** (`web/lib/actions/*Deployment.server.ts`, `functions/src/deploymentStatus.ts`, `deploymentSweeper.ts`) | one document with an array of targets, a command per machine | create, cancel, retry, delete; install; copy answers; time out | everybody reads, decides and writes the whole array back; late answers, dead requests | what is shown as completed is installed; status and targets agree; it ends |
| **process supervision** (`agent/src/owlette_service.py`, `shared_utils.py`) | in memory: what was started last, attempts, launch lock; `app_states.json`; the process table | monitor loop: look, launch, kill and relaunch, propose a reboot; start, restart, kill, change the mode, install | commands run beside the loop, pids are reused, a launch that cannot tell its pid, a service that restarts over running processes | one instance; nobody else's program is ended; a reboot is earned; it comes up again |
| idempotency, quotas (`web/lib/idempotency.ts`, `functions/src/quotaEnforce.ts`) | replay records, counters | claim, replay, clean | two requests with one key | one effect per key |
| talons, hoot/cortex, swoop, auth, webhooks, telemetry, dashboard, CLI, SDKs, desktop host | | | | not modelled: external services, media, presentation or append-only data |

`PROJECT.json` lists every component with its status, and the 40 hazards that
weigh most, at the line where each bites. Others were met and are described
here: those that section 4 shows to be real in a further configuration; an id
that is queued again after its entry is gone (`distributionFanout.ts:401`); a
rollback that dies between its transaction and its commands
(`rollback/route.ts:153`); a soft-deleted roost that the scheduler still fires
(`rolloutScheduleLogic.ts:68`); the half of the seen set thrown away above a
thousand ids (`firebase_client.py:936`); `cancel_mcp_tool` against the command
it cancels (`firebase_client.py:1706`); a self-restart decided before an internet
probe of seconds and not revoked by a success in between
(`connection_manager.py:855`); lost updates of `app_states.json`
(`shared_utils.py:3074`).

## 2. Modules

| module | models |
|---|---|
| `FanoutLogic` | the pure decisions of `fanoutLogic.ts`: waves, evaluation, next stage |
| `StagedRelease` | abstract: what a staged rollout promises a fleet |
| `RoostRollout` | one roost: four operator routes, the scheduler, both triggers, the fleet dispatch and the agents' syncs |
| `MCRoostRollout`, `RolloutHistory` | instances for TLC; history variables for two properties about earlier states |
| `RoostRolloutProofs` | the thresholds, type correctness, blast radius, earned promotion, the refinement of `StagedRelease`, a dispatch flag that tells the truth |
| `ChunkGc` | the nightly run in every step it takes, uploads and publishes of several sites |
| `MCChunkGc`, `ChunkReferrers` | instances; the mount route composed with the collector |
| `ChunkGcProofs` | type correctness, versions keep their chunks, only ripe garbage goes, and none in a degraded run |
| `CommandDelivery` | one machine: the two documents, poller, seen set, two lanes, answers, restart, reconnection, cleanup |
| `MCCommandDelivery`, `DeliveryHistory` | instances; history variables for properties about one process |
| `CommandDeliveryProofs` | type correctness, nothing is lost between the two documents, nothing is dispatched twice (over `DeliveryHistory`) |
| `RoostFolder` | abstract: what a folder promises the program that plays from it |
| `SyncEngine`, `MCSyncEngine` | one agent, one roost: `sync_pull` from acceptance to its final row, `cancel_sync`, the reaper, the scrub, a dying process |
| `SyncEngineProofs` | type correctness, committed means installed, the refinement of `RoostFolder`, who may starve an assembly |
| `RoostLog` | abstract: versions in the order they were published, and a head that moves over them |
| `VersionHistory`, `MCVersionHistory` | the roost document and its versions under publish, promote, rollback, edit, delete and create |
| `VersionHistoryProofs` | type correctness, numbers without gaps, a consistent head, when the text shown lags, the refinement of `RoostLog` |
| `Deployment`, `MCDeployment` | one installer deployment: routes, machines, trigger and sweeper on one document |
| `DeploymentProofs` | type correctness, completed means installed, status in step with targets, only retries regress |
| `ConnectionManager`, `MCConnectionManager` | the manager with the threads that drive it and those it restarts |
| `ConnectionManagerProofs` | type correctness, nobody stranded |
| `Supervision`, `MCSupervision` | one configured process: monitor loop, command threads, rows on disk, process table |
| `SupervisionProofs` | type correctness, strangers spared; unless threads overlap, one instance, a killed process that stays down, a reboot that is earned |

### RoostRollout

A step is one Firestore transaction or batch. What a handler remembers between
a read and the write after it is a record in a set of its own: `fanningOut`
(trigger past its existence check), `deploys`, `resyncs`, `rollbacks` (requests
half way), `plans` (fleet dispatches with the machines not yet sent). Trigger
events are sets, delivered in any order; `Deliver` may keep the event, which is
a redelivery. Lost reports, failed batches, dying handlers, redeliveries and
restarting agents share the bound `Budget` with operator requests, so a trace
has any mix of them.

Ghost state, read by no guard: `queued[v]` (machines that were sent v),
`canaries[v]` (machines that were in a canary wave of v), `committed[v]`
(machines that have v on disk), `forced` (versions rolled back to or resynced,
which by design skip the waves).

`StagedRelease` is what the operator of a fleet may rely on: a version goes to a
wave first, to the rest only on evidence from some wave of it or by force, and a
rollout is complete when three quarters of the rest have installed it. `Release`
maps a rollout document to its stage and its two waves (`StageOf`, `WaveOf`,
`RestOf`), and the ghosts below to what was tried, reached and installed. Triggers,
plans, events and reports, and with them redelivery, stale reads and the
blind writes, are not part of it: they must be stutters. `ReleaseSpec` is
checked and proved.

Abstractions: names and hashes of machines are ranks; `CanaryPercent` scales the
10% of the code so that small fleets have canary waves of more than one machine
(the thresholds of 90% and 25% are those of the code); a report's fine status
is what `coerceStatus` makes of it, `cancelled` counting as failed; the nonces
of rollback and resync commands are merged, as two such commands for one
version do the same; `window` is the clock against `scheduledAt`. A sync is
started and ended; what it does in between is not visible to the backend. The
entry in `commands/completed` that a rollback removes belongs to
`CommandDelivery` and is left out there too, since ids are queued once.

Left out: the kill switch, soft deletion, changes of a roost's targets, the time
a sweep takes. Version numbers and the compare-and-swap of publish are in
`VersionHistory`.

### ChunkGc

`phase` and `current` are the program counter of `gcAllSites`; `scan` is what
`Promise.all` has read so far, in any order; `plans` is what is left to apply.
A publish is a record with the chunks it has still to look up. `overlaps` and
`raced` are ghosts: a publish that was on its way during a scan of its site, or
while deletes planned for it were outstanding. Tombstones are `none`, `fresh`
or `ripe`; they ripen between runs only (30 days against 540 s), and no request
outlives that. Listing versions and fetching bodies takes time, so versions that
appear after the scan has begun may be seen or not (`late`).

Left out: dry runs (they log), the listing of sites failing (the run ends
before doing anything), batches of a tombstone write (one step here; a site
has to have more than 400 new tombstones for the difference to show).

### CommandDelivery

`poll` holds what each poller has read and not yet handled; the stopped one is
the poller of the previous connection, which goes on with the snapshot it has
(bound: one of them). `jobs` are commands being executed or answered and how
far they are; an answer is two steps. `boot` is how far `start()` has come:
`start_watchdog` starts the poller first and seeding follows, which is why
`ReadPending` does not wait for `boot = "up"`. `aged` is the clock: ids over an
hour in pending, entries over a day in completed. Time passes only while
nothing but running commands is under way.

Left out: `cancel_mcp_tool` and deferred commands, the cap on the seen set,
the two reads of the cleanup (one step), an id queued again.

### SyncEngine

`job` is the one `sync_pull` the slow lane runs and how far it is; between its
phases `cancel_sync` and the reaper act, and `Crash` forgets what is in memory
and nothing else. `dist` and `rows` are the sqlite tables, `disk` the folder,
`store` the chunk store, `aged` the blobs older than a day. Writing a file is
two steps, the temporary file and `os.replace`; a prune is one step per file. An
existing file is recognised as the code does it, by its size (`Fits`).
`job.cut` is the flag of the loop, `cancel` the event: that they differ after
the loop is in the code. Ghosts: `current`, `drifted`, `raced`, `starved`,
`stuck`.

`RoostFolder` is what a player of the folder may rely on: files of the wanted
version are put in place one by one, and files of others go only when it is
whole, or when its assembly was cut short. `Folder` maps
`goal` to the version of a job that assembles or prunes, and `FolderSpec` is
checked and proved.

Left out: several roosts that share a folder (they share nothing else), byte
ranges of a download, the allowlist, and the report, which is in `RoostRollout`.

### VersionHistory

A transaction is one action. A route that reads first and writes later is a
record in `req` that goes through `resolve` and `flip` (rollback), `look` and
`mirror` (edit of a description) or `create`; a request may die in any of them.
Contents are named by their hash, so publishing a content that has a version is
a promote. `torn` notes that a request was overtaken or died half-way,
`strayed` that a default rollback missed the previous version. `RoostLog` is
the abstract history; `LogSpec` is checked and proved.

Left out: deploy settings, dry runs, webhooks, audit entries, and a second
publish that reuses an idempotency key.

### Deployment

Every writer of the document reads it, decides, and writes the whole array of
targets back: a route (`route`), each run of the trigger (`handling`) and the
sweeper (`sweep`) keep the snapshot they decided on, and `torn` notes that a
write was based on a document that had changed. A machine is its slow lane: it
fetches, installs through the statuses it reports, dies with a command half
done, and after a restart fails the entries still marked running and no others.
Commands of a fan-out are written side by side, so a request that dies may have
reached any of the machines. `age` counts quarters of an hour up to two, the
limits of the sweeper; `watched` is whether its site window includes the site.

Left out: uninstallation, percentages, the self-update, answers that cannot be
written (those are in `CommandDelivery`).

### ConnectionManager

`seq` is the reconnect thread, `metrics` the metrics loop, `watchdog` and `main`
the other two; each holds where it is between two locks of the code. A listener
loop has an identity, so that a loop that was replaced and will not stop is still
there; `stop[n]` is the loop the stop event of name n reaches, `polling` are the
loops whose poller lives. `picked` is a thread that was found dead and not yet
replaced. `circuit = "due"` is a breaker whose timeout has passed. The lengths
of back-offs are a sleep or none. `MaxEarlyLooks` bounds the looks of the
watchdog that fall between CONNECTED and the start of the listeners; without a
bound the watchdog could force a reconnect each time, which needs a look every
30 s to fall into a window of milliseconds for ever. The metrics loop reads the
state and forces a reconnect in one step.

Left out: shutdown and reset, state listeners, the drain of pending alerts.

### Supervision

`job[t]` is what thread t is doing and where it is; the launch lock is `lock`.
`last_started` is what the service remembers, with the marks of a failed launch
and of a kill, `rows` what it writes to `app_states.json`: a status and whether
the identity record matches the process. `os[p]` says whose process has the pid
p. `Discovery` is what the entry's configuration lets a look through the process
table find: with a file path any instance whose command line shows it, without
one only a sole instance of an executable nobody else runs, and otherwise none.
`overlapped` notes that a thread began while another was at
work.

One assumption is named in the model: a pid is not given to another program in
the moments between a proof of its identity (or its launch) and its use
(`Recycle`). A tracked pid that another program has got is taken for running by
the loop, which asks no more than that (`Masked`).

Left out: schedules and manual overrides, the desktop's RESTARTING marker, the
seat outside of Windows, cortex commands, the closing of processes by an
installation, removal of the entry, and lost updates of the file itself.

## 3. Runs

| run | instance | shows |
|---|---|---|
| `RolloutSafety` | 2 versions, 2 machines (1 canary), 3 requests or faults, one machine per batch | `TypeOK`, `BlastRadius`, `EarnedPromotion`, `DispatchedMeansQueued` hold |
| `RolloutLiveness` | 1 version, 3 machines (2 canaries), 2 requests, failing syncs, no faults | `RolloutSettles`: an open rollout settles, or ends between the thresholds; every step is one of `StagedRelease` (`ReleaseSpec`) |
| `GcSafety` | 2 sites, 1 version of 2 chunks, 1 fault | `TypeOK`, `KeptUnlessRaced`, `DegradedDeletesNothing`, `GraceKept`, `OrphansCollected` hold |
| `DeliverySafety` | a fast and a slow command, 1 fault | `TypeOK`, `OncePerProcess`, `NothingLost` hold |
| `DeliveryAnswers` | 2 slow commands, queue of 1, 2 crashes | `Answered` holds |
| `SyncSafety` | 2 versions of 2 files, 3 chunks, one shared; 2 syncs, 1 cancel, 1 fault, 1 crash | `TypeOK`, `CommittedMeansInstalled`, `StarvedOnlyByReaper`, `FolderSpec` and, for what is left in the store, `LeaksEndUnlessAbandoned` hold |
| `VersionSafety` | 3 versions, 1 text, 2 requests in flight, 6 writes, 1 death | `TypeOK`, `GapFree`, `HeadSummary`, `StaleOnlyWhenTorn`, `LogSpec` hold |
| `DeploySafety` | 1 machine, 2 events on their way, 1 cancel, retry, delete, crash, lost event or dead create; any request may die | `TypeOK`, `CompletedIsInstalled`, `StatusFollowsTargets`, `RegressesOnlyByRetry`, `EndsWhereSwept` hold |
| `Connection` | 1 listener, 4 loop identities, threshold 2, 1 outage of either kind, 1 early look | `TypeOK`, `NeverStranded`, `KeepsReturning`, `ListenersReturn`, `OutageNoticed` hold |
| `Supervision` | loop and 1 command thread, 2 pids, 1 command, 2 crashes or restarts, 1 reused pid | `TypeOK`, `OneUnlessOverlapped`, `EscalationEarned`, `StrangersSpared`, `KeepsRunning` hold |
| `GcRace` | 1 site, 2 versions that share a chunk | `VersionsComplete` is violated by a publish across a run |
| `SyncCutPrune` | as `SyncSafety`, without faults and crashes | `PrunesOnlyComplete` is violated by a cancel in the middle of assembly |

Every property of a passing run has a mutant of the code that breaks it under
the same configuration. The largest, `DeploySafety`, has 1.2 million states and
takes two minutes on two cores.

### Why the bounds are enough to be interesting

*Rollout.* Two machines are a canary and a fleet wave; batches of one make a
dispatch of several steps; three requests or faults are enough for a publish,
a competing deploy, resync or rollback, and one redelivery, lost report or dead
handler between any two of their steps. Two versions let reports about one
stand in the wave of the other. `RolloutLiveness` needs three machines because
a wave of one cannot be half failed. The proofs take safety from there to every
fleet and budget.

*Collector.* Two sites are what the degraded veto needs, the second of them
empty; one version of two chunks makes uploads, lookups and deletes interleave;
one fault at any step (`MaxFaults`) includes a run that dies. Runs themselves
are unbounded.

*Delivery.* One command in each lane and one fault (`DeliverySafety`), or two
commands on the lane with room for one and two crashes (`DeliveryAnswers`). The
fault bound covers failing writes, dropped links and crashes together;
`CrashSpec` allows crashes only.

*Sync.* The second version replaces a file of the first, drops one and adds one
that shares a chunk with what was dropped, so that install, prune and release
each have something to get wrong. Two syncs, one cancel, one failing step and
one crash at any point, next to a reaper whose runs are unbounded, make every
row the schema allows appear. Proofs cover any versions, files and faults.

*Version history.* Three contents and six writes make publishes, a promote and
rollbacks across two steps of another request; two requests overtake each other;
the contents are symmetric, and so are the requests.

*Deployment.* One machine already has two answers in flight handled side by
side, a retry with a second install, a crash half-way and each request's
snapshot; `MaxInterference` pays for one operator's request or one fault, and a
request that was paid for may die for nothing. Two machines without interference
were run as well (3.5 million states, same properties). The proofs are for any
fleet.

*Connection.* One name is enough for the two restarters to race; the fourth
identity is there because one outage leaves one loop that was replaced and has
not stopped, so a restart never lacks one. A threshold of two keeps the breaker
closed after the first error.

*Supervision.* Two pids make a second instance, or a stranger on a reused one.
With three pids and two commands safety holds over 3.3 million states; with
three pids and one command the run as listed, liveness included, holds too. An
operator's command is what may overlap, and the proofs are for any number of
threads, pids and bounds. When two instances hold both pids the loop that wants
a third has no pid to take, so deadlock is not checked.

### Fairness

Operators and clients owe nothing. `RoostRollout`: accepted requests finish;
the scheduler comes every five minutes; each event is delivered; a handler that
does not die runs to its end; an agent works off its commands. `RolloutSettles`
is checked without faults: a lost report or a dead handler does leave a rollout
open (see the hazards), and nothing in the code would take it up again.
`ChunkGc`: weak fairness of the run, which is scheduled every night, and strong
fairness of ripening, since runs come between. `CommandDelivery`: `start()` goes
on, the metrics loop asks for a connection, poller and worker loop, and each
thread makes its next step, be it a failing one. `SyncEngine`: the worker and the
maintenance thread run on, and days pass whenever neither is at work (strong,
since both come and go). `Deployment`: requests end or die, machines work,
fetch and come back, events that are not lost are handled, the sweeper comes
and time passes. `ConnectionManager`: every thread runs on and every sleep ends;
nothing says that the network comes back, so `KeepsReturning` and
`ListenersReturn` start from a network that stays up. `Supervision`: threads go
on with what they do, the loop comes round, cooldown and prompt end; neither
commands nor faults are owed. `VersionHistory` has safety properties only.
Deadlock checking is off where
the system may rest: a bounded number of requests, a fleet at rest.

## 4. Findings

Where a comment or document of the repository says more than the code does, the
statement is written as a property and TLC finds a counterexample. Two of them,
in which data is lost, are runs of `PROJECT.json`, which quotes both sides:

* The collector's pause does not cover a publish before its rollout document
  exists: a version is committed whose chunk has just been deleted (`GcRace`;
  `functions/src/chunkGc.ts:82`).
* A cancel that arrives while files are put in place ends the loop, and the
  prune that follows removes files of the old version although the new one is
  not whole (`SyncCutPrune`; `agent/src/sync_assembler.py:122`).

The others are further configurations, to be run by hand
(`tlc -config X.cfg M`). Those named `...Claims` hold several statements, one
active and the others as comments to put in its place:

| configuration, module | property | what the code does |
|---|---|---|
| `RolloutParked`, `MCRoostRollout` | `RolloutConcludes` | a canary wave with 10% to 25% failures is never concluded, blocks deploys of that version and pauses the collector of its site (`fanoutLogic.ts:173`) |
| `RolloutRedeploy`, `RolloutHistory` | `FreshEvidence` | a fresh rollout of an aborted version is judged by the old rollout's reports (`deploy/route.ts:283`) |
| `RolloutPromote`, `RolloutHistory` | `FlipFansOut` | publishing a version of the history moves the head and sends nothing (`distributionFanout.ts:111`) |
| `GcMount`, `ChunkReferrers` | `MountResurrects` | mounting a chunk does not protect it (`chunkGc.ts:419`, `chunks.mdx:408`) |
| `DeliverySeed`, `DeliveryHistory` | `SeededNeverReruns` | the agent polls before it seeds: a crash between the two writes of an answer can run a command again (`firebase_client.py:619`) |
| `DeliveryRetry`, `MCCommandDelivery` | `Retried` | a command whose answer could not be written is not retried by the process that ran it (`firebase_client.py:1925`) |
| `SyncClaims`, `MCSyncEngine` | `LeaksEnd` | a crash leaves a row active, nothing resumes it, and the reaper keeps its chunks for ever (`sync_scrub.py:58`, `sync_state.py:5`) |
| | `ReaperSparesActive` | the reaper's references are stale when it deletes: it takes a chunk from a sync registered since (`sync_state.py:60`) |
| | `CancelKeepsChunks` | a cancel during assembly releases the chunks a resume would need (`sync_assembler.py:529`) |
| | `ScrubsCurrent` | a replaced version stays committed and is scrubbed as if it were current (`sync_scrub.py:9`) |
| | `CommitsExactly` | an edit that keeps the size of a file is skipped and committed (`sync_assembler.py:117`) |
| `VersionClaims`, `MCVersionHistory` | `PreviewKeepsUp` | the copy of a description is written after a separate look at the head and may describe another version (`versions/[versionRef]/route.ts:251`) |
| | `RollbackTakesPrevious` | a default rollback moves to what was previous when it was asked for, not when it commits (`rollback/route.ts:261`) |
| `DeployClaims`, `MCDeployment` | `NothingStaysStuck` | only sites with a recent mark are swept, and only the sweeper sets the mark: on any other site a stuck deployment stays (`deploymentSweeper.ts:2`, `:136`) |
| | `CancelledIsNotInstalled` | `cancel_installation` waits behind the install it is to stop and is answered as cancelled (`firebase_client.py:1605`) |
| | `NeverRegresses` | two runs of the trigger overlap, and the older array takes a failed target back to running (`deploymentStatus.ts:117`) |
| | `FailsOnlyTheDead` | age is counted from creation, so a target is failed while its machine works, and a late retry at once (`deploymentSweeper.ts:79`) |
| `ConnClaims`, `MCConnectionManager` | `ForcedIsImmediate` | a forced reconnect is skipped while another one sleeps, for up to an hour (`connection_manager.py:508`) |
| | `PolledOnce` | two threads restart the listeners at once and two pollers of a document stay (`firebase_client.py:915`) |
| `SuperClaims`, `MCSupervision` | `OneInstance` | `start_process` forgets what the loop has launched meanwhile and launches another (`owlette_service.py:1033`, `:5324`) |
| | `RebootNeedsCrashes` | a start does not reset `relaunch_attempts`, so operators' starts use up the budget and a reboot is proposed without a crash (`process-monitoring.mdx`, item 5) |
| | `KilledStaysDown` | `kill_process` takes no launch lock: while the loop launches, it marks the entry killed and the process runs (`process-monitoring.mdx:154`) |

Two of these are bounded by theorems. `SettledWavesDecide` says that a rollout is
parked between the thresholds and nowhere else, and `SmallFleetsDecide` that
with the fraction of the code no fleet of up to thirty machines can be. `KilledIsDown`
says that the overlap is the only way around a kill.

Two consequences are worth knowing beside these. The sweeper has no limit for
`running` and `closing_processes`, and a restarted agent fails only entries that
are still `running`; `EndsWhereSwept` excepts targets that rest there. And
`EscalationEarned`, which holds, counts operators' commands along with faults.

`DispatchedMeansQueued` is checked with deploys that name the roost's own
machines (`DeploySets <- AllMachines`): the dispatch flag does not say which
rollout it belongs to, and a deploy to other machines that overtakes a dispatch
under way can be marked by it.

## 5. Proofs

TLAPS proves the theorems below for all values of the constants, from the named
assumptions of the modules (finite fleets, a canary of at least one, naturals as
bounds, null values outside of the sets), all of which TLC evaluates on the
instances. Except where said otherwise each is `Spec => []P`, from an inductive
invariant with one step per action.

* `RoostRolloutProofs!TypeCorrect`, `!BlastRadiusBounded`, `!PromotionEarned`.
  The last two are not inductive: a promotion reads reports, and a report must be
  known to be true. The invariant is
  `IInv == TypeOK /\ TruthfulReports /\ Evidence /\ BlastRadius /\ EarnedPromotion`:
  a success report on v comes from a machine that has committed v; a rollout in
  its fleet wave and every dispatch under way has a canary that committed
  (`Evidence`), or its version was forced; canary waves are noted before they
  are sent. Evidence only ever grows, so redelivery, overwriting and stale plans
  cannot undo it; the arithmetic is that 90% of a non-empty wave is at least one
  machine, and that the two gates exclude each other.
* `RoostRolloutProofs!ImplementsRelease`: every step is a step of `StagedRelease`
  or a stutter. Beside `IInv` it needs that the two waves of a document are apart
  (`WavesApart`) and that every command in flight was sent (`CommandsSent`). A
  verdict counts reports, the abstract one machines that have installed the
  version: that a wave of which nine tenths report success has nine tenths of its
  machines done is again truth of reports, and `CompletionEvidence` is the same for
  the three quarters of a fleet wave. `StepMoves` lists what each action may
  change of a document, so that the refinement has one case per kind of change.
* `RoostRolloutProofs!FlagTellsTheTruth`: if deploys name the roost's machines
  (`DeploySets \subseteq {Machines}`), a dispatched fleet wave was sent to all of
  it. The invariant `Covered` says that the waves of a document make up the whole
  fleet (`WholeFleet`), that a plan has sent what it has not still to send
  (`PlansCover`), and that canaries are sent when a wave is written
  (`CanariesSent`), so a stale plan that marks a later rollout's document marks
  nothing false. Without the condition the statement is false, see above.
* `RoostRolloutProofs!CanarySizeBounds`, `!SettledWavesDecide`,
  `!SmallFleetsDecide`: the pure decisions, for every fleet and every count of
  reports.
* `ChunkGcProofs!GcTypeCorrect`, `!VersionsKept`, and the action properties
  `!VetoHolds` and `!GraceObserved`. The invariant `Safe` says
  that whatever a plan or a scan under way may delete belongs to no version that
  did not race: the references read cover the versions that were there when the
  scan began (`ScanSafe`), plans spare them (`PlansSafe`), every publish in
  flight has its looked-up chunks in storage unless it overlaps
  (`PublishesSafe`), and the order of a run keeps `Exposed` honest (`RunOrder`).
  What is deleted is due because a plan renews and clears no tombstone of a chunk
  it deletes, so that the tombstone read by the scan is still ripe at the delete
  (`Ripe`, `Faithful`), and because a degraded run strips its plans (`Vetoed`).
* `CommandDeliveryProofs!TypeCorrect`, `!NothingIsLost` and `!NothingIsRepeated`.
  `NothingLost` is an action property, from the invariant `Answers`: a job that
  is about to leave the pending document has an entry in the completed one that
  is not a day old. `TypeOK` follows from `Typed`: ids come from the backend and
  from nowhere else, what has aged is there, the lane has one worker.
  `OncePerProcess` is about `HistSpec`: an id that was dispatched is still in the
  seen set, has slipped, or is gone from the document and from what the live
  poller has read of it (`Remembered`).
* `SyncEngineProofs!TypeCorrect`, `!CommitsWhatIsInstalled` and
  `!ImplementsFolder` (action properties), `!NeverStarvedOtherwise`. A row is
  committed many steps after the files were written, so the invariant
  `IInv == TypeOK /\ Provenance /\ Progress /\ Whole` carries what each phase has
  established: a path that holds something has a row; while a job assembles,
  files it has no more to do are in place; once it prunes, the version is
  installed or the job was cut, and nothing of other versions is left but what is
  still to be pruned or could not be. That the chunks are in the store from the
  end of the download on, unless the reaper raced, is `Supplied`. For the
  refinement every action is shown to be a step of `RoostFolder` or a stutter.
* `VersionHistoryProofs!TypeCorrect`, `!NumbersWithoutGaps`, `!SummaryIsTheHead`,
  `!ImplementsLog` (the refinement of `RoostLog`). Beside the properties
  themselves the invariant says that a request past its first read names a
  version that exists (`Resolved`). The abstract log is written with CHOOSE; that
  numbers are without gap or tie makes it a sequence, and a publish an append.
  `!ShownTextIsTheHeads` rests on `InStep`: until a request is overtaken each
  holds the text of its version, and a copy that is behind has an edit under way
  that will mend it.
* `DeploymentProofs!TypeCorrect`, `!ShownIsInstalled`, `!StatusInStep` and
  `!OnlyRetriesRegress` (action property). Truth has
  to hold of every copy of the document, since any of them may be written back
  (`Copies`), of entries and events (`Honest`), and a command must be on a lane
  once (`OnLane`) so that no answer of an install overwrites another's. `Paid`
  bounds the numbers of commands by the requests, which is what keeps `TypeOK`.
  That neither trigger nor sweeper is about to take a target back is `Forward`.
* `ConnectionManagerProofs!TypeCorrect`, `!NobodyStranded`. `NeverStranded` is
  inductive given the types of the manager's fields; the work is in the report
  functions, which skip, trip the breaker or start a thread.
* `SupervisionProofs!TypeCorrect`, `!SparesStrangers` (action property) and
  `!OneInstanceAtATime`. Strangers are spared since a record that matches is true
  (`Honest`) and a thread about to terminate holds a pid that is no stranger's
  (`Held`). One instance needs, while nothing overlapped, that at most one thread
  is at work (`Apart`), that between its look and its launch no instance is up
  (`Vacant`), and that a thread that terminates aims at the only one (`Aimed`);
  it is proved for `Discovery # "ambiguous"`. Without a path, and among others of
  the same image, an instance may be up that nobody recognises.
* `SupervisionProofs!KilledIsDown` (`DownUnlessOverlapped`), under the same
  condition: `Asleep` says that while the entry is marked as killed no instance is
  up, and that whoever is at work is past the point from which it could launch
  one (`Rests`). TLC finds the condition necessary: an instance that cannot be
  told is not ended by the kill. The property is in no listed run; added
  to the invariants of `Supervision.cfg` it holds there.
* `SupervisionProofs!RebootIsEarned`, for every `Discovery`. `EscalationEarned`
  speaks of all failures and commands since the service was installed, while what
  the code counts is launches. The invariant `Ledger` keeps the books: what
  is counted (`Charge`) never exceeds what failures and commands have brought in
  (`Credit`) by more than the one attempt of a thread that is replacing the
  process (`Slack`, `Replacing`). The hard part is who may launch without having
  been given a reason: a first round of the loop, which spends nothing
  (`FirstRound`), an entry that has never been launched (`Pristine`), one that
  was switched off (`SwitchedOff`), and a launch that is tried again (`Retrying`),
  whose failure is already in the books.

Only model-checked: liveness (`RolloutSettles`, `OrphansCollected`, `Answered`,
`LeaksEndUnlessAbandoned`, `EndsWhereSwept`, `KeepsReturning`,
`ListenersReturn`, `OutageNoticed`, `KeepsRunning`), since fairness and ENABLED
are out of the prover's reach. Every safety property of the passing runs is
proved; `DispatchedMeansQueued` and `OneUnlessOverlapped` under the conditions on
constants named above, which the instances of the runs meet.

## 6. What is not modelled, and what would come next

Not modelled: config sync, request idempotency and quotas (small, each around
one document); talons, hoot and cortex, whose behaviour is that of external
models; swoop, a media system of its own; authentication, webhooks, telemetry,
the dashboard, the CLI, the SDKs and the desktop host, which are checks of single
requests, append-only data, presentation or I/O. They are most of the lines of
the repository; the models are about the part of it where order and failure
decide.

Next, in this order:

1. **Compositions**: `ConnectionManager` in the place of `Disconnect` and
   `Reconnect` in `CommandDelivery`; `Deployment` over `CommandDelivery`.
2. **Delivery, extended**: `cancel_mcp_tool`, deferred commands, ids queued
   again, the cap on the seen set, split reads of the cleanup.
3. **Scheduler**: kill switch, limit and time of a sweep, soft deletion.
4. **Supervision**: schedules and manual overrides; lost updates of
   `app_states.json`.
