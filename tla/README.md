# TLA+ verification of link-evidence-helper

This directory specifies two parts of link-evidence-helper. One is the Redis job
queue of `packages/jobqueue`, with the API that feeds it and the workers that
drain it. The other is the Python application in use today: its media library,
its configuration, and the searches and walks it makes over servers that answer
anything. The modules are model-checked with TLC on small instances. Every
safety property the passing runs check, and the refinement of the queue's
abstract specification, are also proved with TLAPS for every instance; what
remains with TLC is liveness.

Contents: [the system](#the-system) · [modules](#modules) ·
[how the model follows the code](#how-the-model-follows-the-code) ·
[runs](#runs) · [fairness](#fairness) · [proofs](#proofs) ·
[findings](#findings) · [not modelled](#not-modelled) · [plan](#plan)

## The system

Two generations of the program live side by side: a Python application
(`web_app.py`, `library_backend.py` and the scraping modules) and its
replacement (`apps/api` and `apps/worker` in Go, `apps/web` and
`apps/browser-worker` in TypeScript, `packages/jobqueue` shared by the Go
programs). Docker Compose runs one API, one worker process (`concurrency` 2)
and one Redis, which keeps nothing on disk.

| Component | State it keeps | Operations | What is hard | What makes it correct |
|---|---|---|---|---|
| Job store, `packages/jobqueue/store.go` | Redis: a hash, a subscriber set and an event list per job; coalesce and idempotency keys; cancellation flags; the queue and processing lists; an expiry time on every key but the lists | `CreateOrJoin`, `Unsubscribe`, `Transition`, `Claim`, `Ack`, `Recover`, `Get`, `CancelRequested` | each script is atomic, the Go functions around them are not; keys that belong together expire separately | one live job per fingerprint; subscriptions agree; a finished job stays finished |
| Job runner, `runner.go` and `cmd/worker` | goroutines and a context; no state outlives the process | recover, claim, execute, settle, acknowledge, stop | crashes and failed calls between any two Redis calls; cancellation while a call blocks; overlap of two processes | no live job lost, none executed twice at a time, every one settled |
| Job executors, `apps/worker/internal` | none | reports through `Reporter` | started again from the beginning after a recovery | reports follow the transition graph |
| Resolution service, `apps/api/internal/jobs` | none | create, read, unsubscribe | the client retries, leaves early, or never comes back | same request, same fingerprint |
| Resolution hook, `apps/web` | the active request, timers, abort signal | start, poll, cancel, unmount | cancellation while a request is in flight | every subscription is given back |
| Library repository, `apps/api/internal/library` | a cached snapshot with an expiry time under a mutex | snapshot | the mutex is held during a network call | no answer older than the TTL |
| Source registry and audit | sources with revisions; an event list | create, update, disable, record | concurrent editors; a change made but not recorded | no update lost |
| Migrations | schema history in PostgreSQL, an advisory lock | up, down | two processes, timeouts, a failure in the middle | history equals what was applied |
| Recovery and import planners | none | plan | retention boundaries | never the last good backup |
| Legacy library, `library_backend.py` | SQLite tables of items and files, a scan lock, a rename lock | scan, rescan, match, rename | daemon threads; scan and rename interleave; partial failures; rollback | the tables tell the truth after a scan, a rename is undone or recorded |
| Legacy web application, `web_app.py` | settings and sources in SQLite, environment and globals derived from them, adapter files and the list loaded from them, caches, the library index, back-off times | search, find links, resolve a link, configure | concurrent requests without a lock; sources that hang; stale caches; fail-over | the process runs what is stored; answers are in order, complete, recent, and of the source they name |
| Legacy engine, `workflow_analyzer.py`, `custom_authorized_source.py`, `content_aggregation.py` | the queue of one walk | analyse a movie page, walk to a delivery URL, learn a source, group results | walks over pages that link anywhere, under several limits | every branch accounted for; a source is proved before it is called working |
| Browser worker | one browser per task | execute, abort | abort before, during and after launch | one close on every path |
| linkverify, httpsearch, aggregation in Go | none | verify, search, group | algorithms over untrusted pages | stated per algorithm |

`PROJECT.json` lists every component with its status, and under `hazards` the
places in the code where this can go wrong in a way a test would hardly find.

The parts interact as follows. The browser posts a resolution request with an
idempotency key. The API reduces it to a fingerprint and calls `CreateOrJoin`,
which creates a job or joins the live one. A worker goroutine moves the job
from the queue to the processing list, reads it, runs the executor, whose
reports are `Transition` calls, and removes the entry. The browser polls and
unsubscribes; when the last subscriber of a live job leaves it, the job is
cancelled and a flag tells the worker to stop. When a worker process starts, it
moves everything in the processing list back to the queue.

In the Python application every request has a thread. A search asks the legacy
sites, the authorized sources and the saved adapters side by side, merges their
rows, looks each up in the library index and groups them. The user picks a
release, and `/api/find` looks for its links: with an adapter, whose results
may need the workflow analysis; with an authorized source, by the walk to its
delivery URL; or listing by listing, falling over to other sources of the same
release. `/api/resolve` follows one link through the hosts it leads to. An
administrator changes settings, sources and adapter files, which are then
applied to the running process. A background thread scans the media folders
into the library that the searches look rows up in.

## Modules

| Module | What it is | Models |
|---|---|---|
| `JobStates` | the states and the transition graph, constant operators | `types.go`, `allowedTransition` |
| `JobStore` | the Redis keys; one action per script or list command | `store.go` |
| `JobQueue` | extends `JobStore` with worker processes and clients; one action per Redis call | `runner.go`, `Recover`, `Transition`, `cmd/worker` |
| `Executors` | what each executor may report next | `resolution`, `legacy_bridge`, `contracts.go` |
| `JobLifecycle` | the abstract specification: jobs with a state and subscribers, no queue, no workers, no keys | what the queue promises its clients |
| `MCJobStore`, `MCJobQueue`, `MCLibrary`, `MCSettings`, `MCWeb` | instances for TLC | |
| `JobStoreProofs`, `JobQueueProofs` | theorems about `JobStore` and about `JobQueue` with any number of processes | |
| `JobRunnerProofs` | theorems about `JobQueue` with one process, and the refinement of `JobLifecycle` | |
| `Library` | the disk, the two tables, the scan thread, the rename request, other programs | `library_backend.py` |
| `Settings` | stored and running configuration, admin requests, restarts | `web_app.py` (`admin_setup_post`, `library_admin_post`, `apply_persisted_configuration`, the adapter routes), `save_source`, `adapter_storage.py` |
| `Searches` | `GET /api/search`: concurrent searches, merging, the library index, grouping; a clock | `web_app.py`, `content_aggregation.py`, `search_movie` |
| `Workflow` | the analysis of one movie page | `workflow_analyzer.py` |
| `Delivery` | the walk to a delivery URL and the set-up of an authorized source | `custom_authorized_source.py` |
| `FindLinks` | `POST /api/find`; extends `Workflow` and `Delivery`, whose walks are steps of a request | `web_app.py`, `build_evidence` |
| `Resolver` | `POST /api/resolve`: the mutually recursive resolvers, with their stack | `web_app.py`, `follow_redirects` |
| `Web` | composes the four above into one specification with fairness | |
| `LibraryProofs`, `SettingsProofs` | theorems about `Library` and `Settings` | |
| `FindLinksProofs`, `SearchProofs`, `WebProofs` | theorems about `Web`: its walks and lookups, its searches, its resolvers and types | |

`JobQueue` uses the actions of `JobStore` as they are: a step of a worker is
the worker's move conjoined with the store's action. `JobLifecycle` is
instantiated in `JobQueue` with the projection of the job records on state,
fingerprint and subscribers.

## How the model follows the code

### The job store and the queue

*Atomicity.* Redis runs a script or a command as one step. A Go function that
makes three calls is three steps: `Store.Transition` reads the job and checks
the graph (`GetForTransition`), runs the script (`WriteTransition`) and reads
the job back (`RereadTransition`). `pc` names the call a goroutine makes next.
Between any two calls a client, another goroutine, a crash or the clock may act.

*Keys.* A job's hash, subscriber set and event list are one record, because
every script that sets the expiry of one sets that of all three. A key that
does not exist is `AbsentJob` or `NoPointer`; `ttl` counts the ticks a key has
left. One action, `Tick`, ages every key, so that keys set at different times
expire in every relative order the two expiry times allow. In `JobStore`
fingerprint and key are abstract values, and a job identifier is drawn once
(`issued`), since `NewJobID` draws 128 random bits.

*Calls without effect* on any modelled state (`Get`, `Events`, an error reply)
are stuttering steps of the store; in `JobQueue` they move a `pc`.

*Cancellation of a context.* `ContextCalls` are the points at which a worker
uses the context of its process: they become `Interrupted` once the process is
`"stopping"`. `SettleCalls` use `context.WithoutCancel` and go on. An executor
that returns without error after the cancellation is settled, one that returns
an error is taken to be interrupted: the order of the tests at `runner.go:123`.

*Errors.* `ExecutorCallFails` is a failed Redis call inside the executor,
which ends in `failAndAck`. `WorkerCallFails` is one in the worker itself,
which returns it, cancels the context of all workers and ends the process
(`runner.go:51-57`). `StrandedClaim` is a `BRPOPLPUSH` that took effect and
whose caller does not know. A crash drops everything the process knows.
`MaxFaults` bounds the number of crashes, shutdowns and failed calls of one
behaviour, and nothing else.

*Executors* are tables from the state last reported to what may come next. A
cancellation check and the report it precedes are two steps. Several checks in
a row, with a wait or a download between them, are one check followed by the
report: only the last of them decides whether the report is attempted.

*History.* `lateLeaves` records the fingerprints of which somebody left a live
job when its coalesce key had less than `TerminalTTL` to live: the one event
after which a live job can outlive its key (see Findings). No action reads it.

*Left out*: results, progress, messages, events, timestamps, `decodeJob`
failures, job kinds other than resolution (nothing creates them).

### The library

`scan.pc` is where the scan thread is; what it has read but not yet used (the
folders to walk, the files of one, the file parsed last, the items seen) stays
in `scan`, so that anything may change before it is used. One transaction is
one step (`UpsertFile`, `StalePass`, `CommitRename`), and so is one move of a
file or a folder. `rename` holds the plan of a rename and what it has moved.
The scan lock and the rename lock are `scan.pc = "idle"` and `rename.pc =
"idle"`; neither excludes the other, as in the code.

A folder is a root and a directory name, and the name stands for what
`clean_title` reads in it, a title and a year; `DirFor` names the directory a
rename makes. The instance includes the case the code has trouble with: a
folder without a year is renamed to "title (Unknown year)", whose title reads
differently. A content stands for size and modification time. With the path
*relative to the root* they make the `Fingerprint` (`library_backend.py:131`),
which is unique over the whole table: a file that was copied to a second root
has one row with its original, which each scan gives to the copy it meets last
(`RowFor`, `484-489`), item and path, without recalculating the item it takes
the row from. TMDB answers any title or none. `ScanFails` and `RenameFails` are
exceptions at any point; `UndoFails` is an `OSError` of a move of the rollback,
which the code swallows (`823-824`, `829-830`), so that the file or the folder
stays where it is and the rollback goes on. `AddFile` (a copy from another root
included), `RemoveFile` and `MountChanges` are what other programs do, and
`Crash` is the end of the process. `MaxChanges` bounds these and nothing else.
`calm`, `before`, `stuck` and `mixed` are history.

### The configuration

An admin request reads, writes and applies in separate steps: `ReadBy` is what
it read when it came in, `Written` and `FilesAfter` what it writes from that.
`apply_persisted_configuration` is three steps (`ApplyRead`, `ApplySettings`,
`ApplySources`), between which other requests run. Empty lists of folders leave
the environment as it was; without a compatible source those searched so far
are saved as sources (`Seeded`), which fails where one of their URLs is taken
(`Taken`), and after which every enabled source is searched, the custom ones
too (`3009`). Folders may come and go (`FolderChanges`), and of the saved ones
those that exist are assigned (`2997`).

Sources and adapters are changed on two pages. On the page of all sources
(`/api/admin/sources`) a delete applies nothing (`DropSource`, `5149`), and a
toggle or a test changes the adapter of the loaded list in place before it
writes it (`InPlace`, `5155-5161`): the list may have been loaded anew since the
request took the adapter out of it, which is why `WriteAdapter` has two
disjuncts. A request that is refused (`Allowed`) or whose write fails ends
without loading the list (`WriteFails`).

`settled`, `agreed`, `seeded` and `dropped` are history: whether the last request
of each kind ran alone and succeeded, whether the sites were saved as sources by
it, and what was deleted without being applied since. The promises are made of
requests that ran alone, since for overlapping ones the code makes none.

### The public side

The four parts of `Web` share no state, and a behaviour is one of one part
(`part`), so that their state spaces add instead of multiply. `Workflow` and
`Delivery` are the walks `FindLinks` waits for, and `Delivery` also serves the
set-up of a source.

*Servers* answer anything: a page is any set of links, a request may fail, and
an adapter may never answer. What a link says (a quality, a priority, a kind)
is given by constant functions. The parsing of pages is thereby left open.

*Time* in `Searches` is counted in ticks. `Tick` does not pass the time limit of
a search that waits, since `concurrent.futures.wait` returns at it. Ages count
up to the time to live and no further. A back-off counts from the start of the
search (`now` is taken there), which is what `Backoff - age` says. The time
limit of a workflow is the step `DeadlinePasses` at any moment.

*The identity of a row* is not the row's own. Each row is looked up in the
library index on its own (`web_app.py:3469`), by its title with its release
words (`Label`), and a look-up that finds an item gives the row its TMDB id, by
which `aggregate_candidates` then groups it (`content_aggregation.py:150-151`);
else it goes by its title. `Libraries` is what a reading of the index may know.
Between two rows the index may arrive, expire, fail, be refreshed or be empty
(`UseIndex`, `SkipIndex`, `AskIndex`, `IndexArrives`, `IndexFails`), so that the
rows of one title may get different identities and those of two titles the same.
`names` holds what each row was told. Duplicates are removed before that, by
title, source and URL (`RowKey`): the `normalized_title` used there is
`web_app.py`'s own (`2747-2748`, which replaces the imported one) and leaves
the quality words in.

*Links of the file hosts* may all expire (`LinkExpires`), but only a link of the
quick host is asked whether it still is served (`Usable`, `3773-3775`).

*The resolvers* call each other; `resolving.stack` holds the open calls and how
far each has come. `MaxFrames` is the interpreter's recursion limit: a call
beyond it raises, and only the quick host's resolver catches it.

*Order* is kept where a property needs it. In a search all orders are kept. The
first links of a page are any links of the number kept, and within one
priority or depth a walk takes any: more behaviours than the code has.

## Runs

| Run | Instance | What it checks |
|---|---|---|
| `store` | 2 jobs, 1 fingerprint, 2 subscribers, `JobTTL` 3, `TerminalTTL` 2 | type; one live job per fingerprint; the coalesce key never leads to a finished job and outlives its live job; live jobs have subscribers; subscriber set and idempotency keys agree; the cancellation flag is set exactly on cancelled jobs; finished jobs stay finished |
| `queue` | 1 process with 2 goroutines, 2 jobs, resolution executor, 2 faults | type; a job has one worker and is in processing; nothing rests in the processing list unattended while the process runs; executor and store agree on the state; jobs follow the graph |
| `two_runners` | 2 processes over one Redis, an executor that may return early, 2 faults | no entry duplicated; no live job lost |
| `liveness` | 1 process with 2 goroutines, legacy executor, 1 fault, fair | every job is settled; every processing entry is cleared; a job resumed past its first report never succeeds |
| `timed` | 3 jobs, 2 fingerprints, 2 subscribers, `JobTTL` 2, `TerminalTTL` 1, 1 goroutine, 1 fault, keys expire | the queue implements `JobLifecycle`; the lists never hold more than `MaxQueued` plus one entry per worker |
| `recovery_crash` | 1 process that may stop inside `Recover` | expected to fail: an interrupted job is kept |
| `late_leave` | as `store` | expected to fail: requests always coalesce |
| `library` | 2 roots, 3 folders of the first, 1 of the second and those renames make of them, 2 files at first, 3 requests, 1 fault or change | type and unique constraints; a full scan finds what is there; years stay apart; a rename is recorded, or undone without losing a file |
| `rescan` | as `library`, no faults | expected to fail: a rescan keeps the files that are there |
| `settings` | 2 administrators, 3 folders, 2 URLs, 1 adapter file and 1 to come, 3 requests, restarts or changes of folders | type and unique URLs; after a request alone the process runs the stored settings and exactly the stored compatible sources, two cases excepted; searches use the stored adapters |
| `auto_setup` | as `settings`, 1 administrator | expected to fail: Auto Setup updates an existing source |
| `web` | 2 searches over 3 sources and one library; 2 finds over 3 candidates; walks over 3 pages; 5 links of 4 kinds of hosts | type; tiles come from the first source of their identity and no row is lost; the index is recent; branches are accounted for; links name their source; answers fit the request; a working source was proved; resolved links can be copied and, of the quick host, are served; every request ends |

*Why these bounds are enough.* Two jobs of one fingerprint are what coalescing
is about, and a third adds no pair; two subscribers make one that leaves first
and one that leaves last. `JobTTL` 3 and `TerminalTTL` 2 are the smallest
values for which a job can be older than its key, younger than it, and both
set at different ages by a non-terminal and a terminal write. Two goroutines
are the deployed number, and two processes the smallest overlap. `MaxQueued` 1
makes the queue full as soon as one job waits. Two faults allow a crash during
the recovery from a first one. Every action of every run's next-state relation
is taken. In the `store` run any caller may requeue any job, so `ListBound`
bounds the lists; states one entry beyond the bound are still checked.

`TimePasses` is FALSE in runs about the runner alone; expiry between a
worker's calls is explored by `timed`. `CHECK_DEADLOCK FALSE` appears in the
`JobQueue` runs because identifiers are drawn once: with all of them used and
the queue empty, idle workers block and nothing is left to happen.

`library` needs three requests: a scan to fill the tables, and then a rename or
a match with a scan beside it or after it. One fault at any step is what each of
its properties is about, and an `OSError` of the rollback is the fault of a
rename that fails by itself, because a scan took a name or a row. The initial
disk has a folder without a year and one with 2018; a third, of 2026, may
appear, and the second root may get a copy of the file of 2018 (1.3 million
states). In `settings` (5 million states) two
requests overlap and one comes before or after them; of the two URLs one is the
environment's.
`web` has the smallest walks in which a limit is met with something left: two
roots, two actions per page, one level, four nodes; and four open calls, which
let the quick host's resolver, another one and itself nest, while two quick
links make a cycle. Two finds are one that fills the cache and one that reads
it; the requests differ in every field of the cache key. The library gives both
titles one id, so that rows are told apart by it, merged by it, or go by their
titles where the index failed or was empty in between. A tick is the time
limit of an adapter, and two its back-off, so that a second search may find an
adapter paused, asked by another search, or free.

`CHECK_DEADLOCK FALSE` appears in these runs because requests are bounded.

`NoLostJob` excepts behaviours with `RecoveryMayFail`, which is FALSE in the
run that checks it: within `Recover` the code does lose jobs (Findings).
`InterruptedJobIsKept` is the same property without the exception.

`ResumedJobsOnlyFail` describes what the code does rather than what one would
wish: a recovered job that had reported anything starts again at
`checking-cache`, its graph refuses that, and the job is failed.

## Fairness

`FairSpec` assumes weak fairness of the start, the recovery and the stop of a
process and of the steps of each goroutine. The Go scheduler runs every
goroutine that can run; every Redis call ends, since the client sets dial, read
and write timeouts (`store.go:45-47`), and one that fails is a fault; Docker
Compose restarts the worker unless it is stopped by hand. Nothing is assumed of
clients, of the clock, or of faults, and `MaxFaults` says that they end.
An executor is taken to return: each puts a timeout on what it fetches.
Liveness is checked without expiry, so that a job cannot settle by expiring.

`Web` assumes weak fairness of `Progress`: some request that can go on does, or
time passes. A thread that can run is run, and every call of a server has a
timeout (`urlopen`, `fetch_html_once`, the browser's), so that it answers or
fails. Users are not assumed to do anything, and a saved adapter is not assumed
to answer, since an adapter makes several requests in a row and the search
relies on its own time limit. `RequestsEnd` is the property this buys: a search
returns although adapters hang, and walks and resolvers end although pages and
hosts lead in circles. `Library` and `Settings` have safety properties only.

## Proofs

`JobStoreProofs` proves for every set of jobs, fingerprints and subscribers,
every `MaxQueued` and every expiry times with `TerminalTTL <= JobTTL`:

| Theorem | Statement |
|---|---|
| `StoreInvariant` | `StoreSpec => []StoreInv` |
| `StoreTypeCorrect` | `StoreSpec => []StoreTypeOK` |
| `CoalesceKeyIsSound` | `StoreSpec => []CoalesceKeyGuardsJob` |
| `RequestsCoalesce` | `StoreSpec => []OneLiveJobPerFingerprint` |
| `LiveJobsAreAwaited` | `StoreSpec => []LiveJobHasSubscriber` |
| `SubscriptionsAreSound` | `StoreSpec => []SubscriptionsAgree` |
| `FlagMarksCancelled` | `StoreSpec => []CancelFlagAgrees` |
| `FinishedJobsStayFinished` | `StoreSpec => TerminalIsFinal` |

The assumption is `StoreAssumption`, which TLC evaluates in every run.

*The argument.* The properties are not inductive one by one. `StoreInv` joins
them and adds what they rest on: a key that exists names an identifier that has
been issued, so that `Create` cannot hand an old key a new job (`Valid`); a
record is either wholly absent or has a fingerprint and time to live; a coalesce
or idempotency key that names a stored job names a job of its own fingerprint;
and a live job owns its coalesce key, with at least as much time to live, unless
its fingerprint is in `lateLeaves`. That last clause carries the coalescing:
two live jobs of one fingerprint would both own the key. It is preserved by
`Tick` because the key ages with the job, by `Join` and `Transition` because
they refresh both, and broken only by `Unsubscribe`, which refreshes the job
alone: there `lateLeaves` records it. One lemma per action shows that the
action preserves `StoreInv`; the two lists are touched by none of the clauses
but the type, for which `RemoveFirstInSeq` shows that `Ack` leaves a sequence.
TLC checked `StoreInv` on the instance of the run `store` before it was proved.

`JobQueueProofs` proves, for every set of processes and goroutines, every
executor and every number of faults as well:

| Theorem | Statement |
|---|---|
| `QueueUsesStore` | `Spec => StoreSpec` |
| `QueueTypeCorrect` | `Spec => []TypeOK` |
| `EntriesAreUnique` | `Spec => []DeliveredOnce` |
| `NoJobIsLost` | `Spec => []NoLostJob` |

The assumptions are `StoreAssumption` and `QueueAssumption`.

*The argument.* `RunnerInv` is the type of the runner's variables with two
facts on top: a goroutine past its claim has a job, and a process about to push
a job back holds one. Under it every step calls the store with an identifier
and a state the store's caller may use, so that it is a step of `StoreNext` or
leaves the store alone (`NextIsStoreStep`); `QueueUsesStore` follows, and with
it every theorem of `JobStoreProofs` holds of `Spec`.

`DeliveryInv` adds to `DeliveredOnce` that whatever is in a list or held has
been issued (`EntriesIssued`), without which `Create` could push an identifier
that is already there. `ListEffects` says once what every step does to the
lists, so that the proof is one case per list command; the five list lemmas
(`AppendEntry` to `RemovedEntry`) say what each does to the set of entries.

`LossInv` adds to `NoLostJob` that a goroutine which is to acknowledge a job,
or has just failed it, finds that job over (`SettledWorkers`). It holds because
a job that is over stays over (`OverStaysOver`: the graph's terminal states are
final, and an expired identifier is never issued again), because a raised
cancellation flag means a cancelled job (`CancelFlagAgrees` of the store), and
because every path of the executor and of `failAndAck` to the acknowledgement
has seen one or the other (`WorkerStepSettles`). Of the steps that take an
entry off a list, `Claim` moves it to processing, `RecoverPop` to the process
that holds it, `Ack` removes a job that is over, and `RecoverGet` drops one;
a process that holds a job stops only if `RecoveryMayFail`.

### One worker process

`JobRunnerProofs` adds the hypothesis `OneProcess`: any two runners are the
same. It is what the deployment runs and what `Recover` supposes, since it takes
the whole processing list for abandoned; the run `two_runners` and the theorems
above are about several. Goroutines, jobs, clients, executors and faults stay
arbitrary.

| Theorem | Statement, under `OneProcess` |
|---|---|
| `JobsHaveOneWorker` | `Spec => []OneWorkerPerJob` |
| `NothingIsStranded` | `Spec => []NothingStrandedWhileRunning` |
| `ListsAreBounded` | `Spec => []QueueBounded` |
| `ExecutorsKnowTheirJob` | `Spec => []ExecutorViewAgrees` |
| `JobsFollowTheGraph` | `Spec => StatesFollowGraph` |
| `ResumedJobsFail` | `Spec => ResumedJobsOnlyFail`, if also `StartsWithCache` |
| `QueueImplementsLifecycle` | `Spec /\ [](lateLeaves = {}) => ImplementsLifecycle` |
| `QueueImplementsLifecycleInOneTick` | `Spec => ImplementsLifecycle`, if also `TerminalTTL = 1` |

*The argument.* `AttendanceInv` joins `OneWorkerPerJob` and
`NothingStrandedWhileRunning`, neither of which is inductive alone, with
`PhasesAgree`: while a process is down or recovers, its goroutines are off, and
only a recovering process holds a job. `WorkerMoves` sorts the steps of a
goroutine into four kinds (it keeps, leaves, takes or drops its job), so that
the preservation has four cases and not seventeen. `EntriesBounded` counts: every
entry of the processing list, and the one a recovering process holds, is accounted
for by a goroutine that is not waiting for a job; one that is waiting therefore
leaves room, and both lists together hold no more than `MaxQueued` and one
entry per goroutine. The count needs `Workers` to be finite (`QueueAssumption`).

`ViewInv` says what a goroutine knows: the state it last reported, that the
state it is about to write may follow the one the job is in, and the state it
has just written. It survives the steps of all others because only the job's
worker moves a live job along the graph (`WhoMovesJobs`, `OthersLeaveState`), and
that worker is one. `ExecutorViewAgrees` and `StatesFollowGraph` follow,
although `transitionScript` does not look at the graph.

`ResumedJobsOnlyFail` is about all later states of one job. `Resumed(j)` is the
invariant that holds from the moment the job is back in the queue: it is neither
queued in state nor has a result, and whoever works on it has reported nothing
and can write nothing but `failed`. That it begins with a job in the queue needs
`WaitingHaveNoResult`. `StartsWithCache` says of the executor what every
one of `apps/worker` does: its first report is `checking-cache`, unless it fails
or refuses the job. Only a job in state `queued` accepts that report.

The refinement maps each step of the queue to a step of `JobLifecycle` or a
stutter, by `StoreInv` and `ViewInv`. Its hypothesis `lateLeaves = {}` is the
finding `late_leave`: where a subscriber leaves a live job in the last
`TerminalTTL` of its coalesce key, the queue does start a second live job, and
does not implement the life cycle. The hypothesis is not vacuous: with
`TerminalTTL = 1`, as in the run `timed`, nobody can leave that late
(`NobodyLeavesLate`), and the theorem needs it no longer.

### The configuration

`SettingsProofs`, from `SettingsAssumption` (there is room in the table for more
sources than there are URLs, so that `MaxSources` bounds nothing, and the
environment names a site):

| Theorem | Statement |
|---|---|
| `SettingsTypeCorrect` | `Spec => []TypeOK` |
| `SavedConfigurationRuns` | `Spec => []SettledConfigurationRuns` |
| `StoredAdaptersAreSearched` | `Spec => []SearchUsesStoredAdapters` |

*The argument.* `SettingsInv` is the types, with what a thread has read being of
the kind its task needs, and three parts about history. `AloneInv`: while a
request is alone no other is under way, so that what it has read is still what
is stored when it assigns it. `SettledInv` and `AgreedInv`: after the last
request was alone and succeeded, nobody is between its write and its assignment,
and the process runs what is stored. `SavedConfigurationRuns` says exactly which
sites are searched: those of the enabled compatible sources; of all enabled ones
after a seeding (`seeded`); and those deleted on the page of all sources since
(`dropped`). TLC finds the property violated without either exception. `TypeOK` is not about types only: it
has the UNIQUE URLs, which hold because the sites that are saved as sources are
those whose URL is free. That some
site is always searched needs a count: distinct URLs are fewer than `MaxSources`,
so that an id is free for each site to be saved.

### The library

`LibraryProofs`, from `LibraryAssumption`:

| Theorem | Statement |
|---|---|
| `LibraryTypeCorrect` | `Spec => []TypeOK` |
| `YearsAreKeptApart` | `Spec => []YearsStayApart`, if `FoldersNameTheirYear` |
| `RefusedRenamesLoseNothing` | `Spec => []FailedRenameRestoresDisk` |
| `RenamedFilesAreWhereTheRowsSay` | `Spec => []RenamedRowsExist` |
| `ScansFindTheFiles` | `Spec => []ScanReflectsDisk`, if `IsInjective(Roots)` |

*The argument.* `LibraryInv` has the types and the two UNIQUE constraints. Each
other theorem has an invariant that carries its question from the first step of
a scan or a rename to the last: `YearsInv` relates each row to its folder and
item, and a rename under way to the year it was planned with; `History` says
that undoing the moves made so far leads back to the disk before the rename,
and after a failed move of the rollback, that every file of that disk is still
somewhere, no two in one place; `Progress` that these have arrived with the content noted, and that the files
still to move are where the plan looks for them; `ScanInv` says of a full scan
where it is (`Position`), that each file behind it is an active row of an item
it has seen (`Found`), that each item it has seen has such a file (`Backed`),
and that of the roots behind it no other item is available (`StaleGone`), where
a file stands for its copies in the other roots, with which it shares a row.
`ScanReflectsDisk` does not say that active rows and files are the same: a
deleted file of an item that has others keeps its active row until the item is
rescanned, since a full scan marks items, not rows.

*The hypotheses.* `FoldersNameTheirYear`: the folder a rename makes reads as the
year it was given. `clean_title` takes the first year it finds in a name, so this
supposes that no TMDB title has a year in it; a film called "2012" is outside.
`IsInjective(Roots)`: no folder is configured twice, which `roots_for`
(`library_backend.py:253`) does not see to.

*What the proofs found.* Both properties below were once stated without their
exception, passed TLC on its instance, and could not be proved.

* `YearsStayApart` excepts items that are `mixed`. A scan can move a file of the
  item being renamed to another item; the rename then updates that row by its
  identifier (`UPDATE media_files ... WHERE id=?`, `library_backend.py:815`), so
  that an item has a file in a folder of another year. The comment at `467-470`
  keeps years apart in the scan only.
* `RenamedRowsExist` excepts plans with two rows of one path, of which the
  second finds its file moved away.

A third exception of `RenamedRowsExist`, rows that a scan gave to a copy of the
file in another root while the rename was under way, was found by TLC with the
second root.

### The public side

`FindLinksProofs`, `SearchProofs` and `WebProofs` are about `Web`, from
`WorkflowAssumption`, `DeliveredAssumption`, `FindAssumption`, `TimeAssumption`,
`SourcesAssumption`, `LibrariesAssumption` and `HostAssumption`: limits are
numbers, sites and adapters are lists without repetition and with names of their
own, a source answers rows of itself, and a library tells something of every
label.

| Theorem | Statement |
|---|---|
| `NoBranchIsForgotten` | `Spec => []BranchesAccounted` |
| `WorkingSourcesWereProven` | `Spec => []SetupProvesDelivery` |
| `LinksAreAscribed` | `Spec => []LinksNameTheirSource` |
| `AnswersAreToTheRequest` | `Spec => []AnswersFitTheRequest` |
| `LibraryFactsAreFresh` | `Spec => []IndexIsRecent` |
| `TilesAreOfTheFirstSource` | `Spec => []TileIsFirstSource` |
| `AnswersAreServed` | `Spec => ResolvedIsUsable` |
| `WebTypeCorrect` | `Spec => []TypeOK` |

*Links.* `LinksInv` has one part per component, each of its own variables, so
that a step of another component leaves it alone. `WalkInv` says that a branch of
the workflow analysis is queued, visited or reported (`BranchesTracked`);
`SetupInv` that a proof belongs to the card at its place and to one that may be
tried; `FindInv` that the links gathered so far name the page they were read
from and fit what was asked; `CacheInv` that an entry fits every request with
its key. Preparing this proof showed that the model's `CacheKey` left out the
season of an episode, which `web_app.py:5428-5438` includes: without it the
last part is false.

*Searches.* `SearchInv` bounds the ages of the index and of what a search has
read of it (`seen`), where what it asked for itself may be as old as it had to
wait for it (`waited`), since a slow answer is used for the row that asked
(`web_app.py:3214`). For the tiles, `Established` is the list of all rows the sources have
returned, in the established order of sources. It is shown to be sorted by the
rank of the source; removing duplicates keeps that order (`Distinct`); and the
grouping, a fold over the rows as they were told apart, keeps the invariant that
every row so far is listed in the one tile of its identity, whose source is that
of the first row of that identity.
`CollectedInv` carries to the answer that what a search merged is what its
sources returned, however they interleaved. Inductions over the length of a list
go by `AllNumbers`: it states induction for a set instead of a predicate, from
the well-foundedness of the numbers, since the library's induction theorems have
an operator as a parameter, which the provers cannot instantiate.

*Resolvers.* `ResolverInv` says that the stack is empty exactly when no call is
open and no deeper than the recursion limit, and that only the two hosts
with a cache have entries. `ResolvedIsUsable` is an action property, proved of
each step that returns from the outermost call. It promises little of links of
the other file hosts, because the code does: nobody asks after them, and one that
ended is answered out of the cache for six hours (`GDFLIX_CACHE_SECONDS`).

### What is left to TLC

`EveryJobSettles`, `EveryEntryIsCleared` and `RequestsEnd` are liveness
properties under fairness, which are out of the prover's reach. The four
properties of the runs expected to fail are false. `TerminalTTL` of more than
one tick with somebody leaving late is outside the refinement, for the reason
given there.

## Findings

* **`recovery_crash`** — `Recover` takes an entry off the processing list
  (`store.go:539`) and puts it on the queue in a later call (`store.go:556`). A
  process that stops in between, or whose read or push fails, loses the job: it
  is in no list and stays in its state until it expires. `runner.go:125-126`
  promises: "Keep the job in the processing list. The next worker startup calls
  Recover and moves it back to the queue."
* **`late_leave`** — `unsubscribeScript` gives a live job with other
  subscribers `TerminalTTL` to live (`store.go:352-354`) but leaves its coalesce
  key as it is. In the last ten minutes of a job's half hour this makes the job
  outlive its key, and the next request for the same fingerprint starts a second
  live job. `store_integration_test.go:77` takes it that a request for a live
  fingerprint joins it.
* **`rescan`** — `_rescan_item_files` marks all files of an item inactive
  (`library_backend.py:436`) and then skips every file whose folder's title is
  not the item's (`445-446`). After a match by hand to another title, or a
  rename of an item without a year, these differ: the rescan, started from the
  detail drawer to refresh availability, makes the item unavailable though its
  files are there. The comment at `433-434` says "every file discovered below
  turns active again".
* **`auto_setup`** — Auto Setup of the only compatible source makes its row a
  custom-authorized one, after which `apply_persisted_configuration` finds no
  compatible source and saves the environment's sites as new ones
  (`web_app.py:3003-3006`): the URL is taken, and `sqlite3.IntegrityError` is
  not the `ValueError` caught there. The request is answered 503 although the
  source was changed. `web_app.py:4679-4683` says it "must upgrade/update the
  existing source, not fail with a database unique-constraint error".

The following were met while modelling and contradict a comment or a docstring
as well; the properties of the passing runs state them as exceptions.

* `web_app.py:3000-3001` says of the legacy finder "Do not send generic
  selector-configured sources through it". After the sites were saved as sources
  (`3003-3008`) all enabled sources are listed (`3009`), custom ones too
  (`seeded` in `SettledConfigurationRuns`).
* The delete on the page of all sources (`web_app.py:5149`) does not call
  `apply_persisted_configuration`, which the toggle beside it (`5148`) and the
  delete of the setup page (`4738`) do: the site is searched until the next
  change or restart (`dropped`).
* `content_aggregation.py:189-193` says that the projection "cannot render the
  same film twice merely because two providers returned it". Where the look-up
  of one provider's row found the film in the library and that of the other's did
  not, it does (`TileIsFirstSource` speaks of identities, not of titles).

## Not modelled

Components with status `not_modelled` in `PROJECT.json`, each with its reason:
those marked "planned" belong to the plan below; the rest are pure
input/output, formatting, scraping of pages from the network, or have no state.
Redis itself is modelled as never losing a key before its time; the deployment's
`allkeys-lru` eviction and the loss of everything when Redis restarts are
planned.

Of the Python application: pages and styles; the authentication of
administrators; posters; previews and the check of a single source; the proposal
of an adapter from an example page (`adapter_analyzer.py`) and the local AI; the
parsing and rendering of pages, whose outcome is left open; the table of scan
jobs, the auto-sync clock and the metadata-only refresh, which repeats
`MatchItem` over all items; the eviction of bounded caches, except that any
cached entry may be gone. `prefetch_adapter_workflow` is called from nowhere,
so its slots and inflight keys never come into play.

A library refresh that is accepted while a thread waits for the index is in the
model (`RefreshLibrary`), but that the older answer is then stored is forbidden
by no property; `hazards` lists it.

## Plan

Modules in order, most important first; the first three groups are done.

1. `JobStates`, `JobStore`, `JobQueue`, `JobLifecycle`, `Executors` with their
   runs; `JobStoreProofs`, `JobQueueProofs`.
2. `Library` and `Settings`.
3. `Searches`, `Workflow`, `Delivery`, `FindLinks`, `Resolver`, `Web`.
4. `ResolutionHook`: the browser's hook and client composed with `JobStore`
   (cancellation while a request is in flight, retries with the same
   idempotency key): every subscription is given back or expires.
5. `Migrations` with `SchemaHistory` as its abstract specification; `SourceRegistry`
   with audit; `SnapshotCache`.
6. Pure algorithms of the Go programs against reference definitions: grouping of
   search results, backup retention, redirect checks.
7. Eviction and restart of Redis as further steps of `JobQueue`.

Proofs: those of the first three groups are done. New modules come with theirs:
every subscription given back (`ResolutionHook`), and `Migrations` against
`SchemaHistory`. A rename and a match by hand during a full scan are excluded
from `ScanReflectsDisk`; what can be promised then is still to be stated.
